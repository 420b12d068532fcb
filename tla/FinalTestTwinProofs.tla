----------------------- MODULE FinalTestTwinProofs -----------------------
(***************************************************************************)
(* Proofs about the ST-06 twin for every set of partitions, log length,    *)
(* batch size, commit window and number of faults.                         *)
(***************************************************************************)
EXTENDS FinalTestTwin, FiniteSetTheorems, TLAPS

\* k batches are at most CommitEvery batches; one more batch adds BatchSize.
LEMMA WindowArith ==
  ASSUME NEW k \in 0 .. CommitEvery
  PROVE  /\ k * BatchSize \in Nat
         /\ (k + 1) * BatchSize = k * BatchSize + BatchSize
         /\ k * BatchSize <= CommitEvery * BatchSize
         /\ k < CommitEvery => k * BatchSize + BatchSize <= CommitEvery * BatchSize
<1>. DEFINE B == BatchSize
            C == CommitEvery
<1>1. B \in Nat /\ C \in Nat /\ k \in Nat
  BY TwinAssumption
<1>. HIDE DEF B, C
<1>2. k * B \in Nat /\ (k + 1) * B = k * B + B
  BY <1>1
<1>3. ASSUME NEW j \in Nat, j <= C PROVE j * B <= C * B
  <2>1. PICK d \in Nat : C = j + d
    <3>1. C - j \in Nat /\ C = j + (C - j)
      BY <1>1, <1>3
    <3>. QED
      BY <3>1
  <2>2. C * B = j * B + d * B /\ d * B \in Nat /\ j * B \in Nat
    BY <1>1, <2>1
  <2>. QED
    BY <2>2
<1>4. k <= C
  BY DEF C
<1>5. k < C => k + 1 \in Nat /\ k + 1 <= C
  BY <1>1
<1>. QED
  BY <1>2, <1>3, <1>4, <1>5, <1>1 DEF B, C

\* A send adds outputs and takes none away.
LEMMA ShipType ==
  ASSUME TypeOK, NEW t \in Topics, NEW R, Ship(t, R)
  PROVE  /\ shipped' \in [Topics -> [Records -> Nat]]
         /\ \A u \in Topics, r \in Records :
              shipped'[u][r] = IF u = t /\ r \in R \ Malformed
                               THEN shipped[u][r] + batch[r] ELSE shipped[u][r]
<1>1. \A u \in Topics, r \in Records : shipped[u][r] \in Nat /\ batch[r] \in Nat
  BY DEF TypeOK
<1>2. shipped'[t] = [r \in Records |->
                       shipped[t][r] + IF r \in R \ Malformed THEN batch[r] ELSE 0]
  BY DEF Ship, TypeOK
<1>3. \A u \in Topics : u # t => shipped'[u] = shipped[u]
  BY DEF Ship, TypeOK
<1>4. shipped'[t] \in [Records -> Nat]
  BY <1>1, <1>2
<1>5. \A u \in Topics : shipped'[u] \in [Records -> Nat]
  BY <1>3, <1>4 DEF TypeOK
<1>6. shipped' = [u \in Topics |-> shipped'[u]]
  BY DEF Ship, TypeOK
<1>. QED
  BY <1>1, <1>2, <1>3, <1>5, <1>6

\* Nothing sent: a count of zero for each record.
LEMMA EmptyType == Empty \in [Records -> Nat] /\ \A r \in Records : Empty[r] = 0
BY DEF Empty

-----------------------------------------------------------------------------
(***************************************************************************)
(* Type correctness and the bounds of the loop's counters.                 *)
(***************************************************************************)

\* The state of a fresh twin.
LEMMA InitTypeOK == Init => TypeOK /\ LoopInv
<1>. SUFFICES ASSUME Init PROVE TypeOK /\ LoopInv
  OBVIOUS
<1>1. /\ unreported \in BOOLEAN
      /\ counted \in [Records -> Nat] /\ batch \in [Records -> Nat]
  BY EmptyType DEF Init
<1>2. /\ shipped \in [Topics -> [Records -> Nat]]
      /\ pos \in [Partitions -> 0 .. LogLen]
      /\ committed \in [Partitions -> 0 .. LogLen]
  BY EmptyType, TwinAssumption DEF Init
<1>. QED
  BY <1>1, <1>2, TwinAssumption DEF Init, TypeOK, LoopInv, Topics

\* A step keeps the types and the state of the record loop.
LEMMA StepTypeOK == TypeOK /\ LoopInv /\ [Next]_vars => TypeOK' /\ LoopInv'
<1>. SUFFICES ASSUME TypeOK, LoopInv, [Next]_vars PROVE TypeOK' /\ LoopInv'
  OBVIOUS
<1>. USE TwinAssumption, EmptyType DEF TypeOK, LoopInv, Topics, Fault
<1>1. CASE Open
  BY <1>1 DEF Open
<1>2. ASSUME NEW p \in Partitions, Deliver(p) PROVE TypeOK' /\ LoopInv'
  <2>1. <<p, pos[p]>> \in Records
    BY <1>2 DEF Deliver, Records, Offsets
  <2>2. batch' \in [Records -> Nat] /\ pos' \in [Partitions -> 0 .. LogLen]
    BY <1>2, <2>1 DEF Deliver
  <2>. QED
    BY <1>2, <2>2 DEF Deliver
<1>3. CASE SendDispositions
  <2>1. shipped' \in [Topics -> [Records -> Nat]]
    BY <1>3, ShipType DEF SendDispositions
  <2>. QED
    BY <1>3, <2>1 DEF SendDispositions
<1>4. CASE SendMoves
  <2>1. shipped' \in [Topics -> [Records -> Nat]]
    BY <1>4, ShipType DEF SendMoves
  <2>. QED
    BY <1>4, <2>1 DEF SendMoves
<1>5. CASE SendFails
  <2>1. shipped' \in [Topics -> [Records -> Nat]]
    BY <1>5, ShipType DEF SendFails
  <2>2. faults' \in 0 .. MaxFaults
    BY <1>5 DEF SendFails
  <2>. QED
    BY <1>5, <2>1, <2>2 DEF SendFails
<1>6. CASE Commit
  <2>1. committed' \in [Partitions -> 0 .. LogLen]
    BY <1>6 DEF Commit, CommitTo
  <2>. QED
    BY <1>6, <2>1 DEF Commit, NextBatch
<1>7. CASE CommitFails
  <2>1. committed' \in [Partitions -> 0 .. LogLen]
    BY <1>7 DEF CommitFails, CommitTo
  <2>2. faults' \in 0 .. MaxFaults
    BY <1>7 DEF CommitFails
  <2>. QED
    BY <1>7, <2>1, <2>2 DEF CommitFails
<1>8. CASE Close
  BY <1>8 DEF Close, Exit
<1>9. CASE StreamEnd
  BY <1>9 DEF StreamEnd
<1>10. CASE Crash
  BY <1>10 DEF Crash, Exit
<1>11. CASE Rebalance
  BY <1>11 DEF Rebalance
<1>12. CASE UNCHANGED vars
  BY <1>12 DEF vars
<1>13. CASE SendMetrics
  <2>1. counted' \in [Records -> Nat]
    BY <1>13 DEF SendMetrics
  <2>. QED
    BY <1>13, <2>1 DEF SendMetrics, AfterMetrics, CommitDue, NextBatch
<1>14. CASE MetricsLost
  BY <1>14 DEF MetricsLost, AfterMetrics, CommitDue, NextBatch
<1>. QED
  BY <1>1, <1>2, <1>3, <1>4, <1>5, <1>6, <1>7, <1>8, <1>9, <1>10, <1>11, <1>12, <1>13, <1>14 DEF Next, Station

-----------------------------------------------------------------------------
(***************************************************************************)
(* Moves follow dispositions.                                              *)
(***************************************************************************)

\* A step keeps the moves behind the dispositions they follow.
LEMMA StepMovesInv == TypeOK /\ MovesInv /\ [Next]_vars => MovesInv'
<1>. SUFFICES ASSUME TypeOK, MovesInv, [Next]_vars PROVE MovesInv'
  OBVIOUS
<1>0. \A t \in Topics, r \in Records : shipped[t][r] \in Nat /\ batch[r] \in Nat
  BY DEF TypeOK
<1>1. CASE Open
  BY <1>1 DEF Open, MovesInv, MovesFollow
<1>2. ASSUME NEW p \in Partitions, Deliver(p) PROVE MovesInv'
  BY <1>2 DEF Deliver, MovesInv, MovesFollow
<1>3. CASE SendDispositions
  <2>1. \A r \in Records :
          /\ shipped'["moves"][r] = shipped["moves"][r]
          /\ shipped'["dispositions"][r] =
               shipped["dispositions"][r] + IF r \in Malformed THEN 0 ELSE batch[r]
    BY <1>3, <1>0, ShipType DEF SendDispositions, Topics
  <2>. QED
    BY <1>3, <1>0, <2>1 DEF SendDispositions, MovesInv, MovesFollow, Topics
<1>4. CASE SendMoves
  <2>1. \A r \in Records :
          /\ shipped'["dispositions"][r] = shipped["dispositions"][r]
          /\ shipped'["moves"][r] =
               shipped["moves"][r] + IF r \in Malformed THEN 0 ELSE batch[r]
    BY <1>4, <1>0, ShipType DEF SendMoves, Topics
  <2>. QED
    BY <1>4, <1>0, <2>1 DEF SendMoves, MovesInv, MovesFollow, Topics
<1>5. CASE SendFails
  <2>1. PICK R \in SUBSET {r \in Records : batch[r] > 0} : Ship(pc, R)
    BY <1>5 DEF SendFails
  <2>2. CASE pc = "dispositions"
    <3>1. \A r \in Records :
            /\ shipped'["moves"][r] = shipped["moves"][r]
            /\ shipped'["dispositions"][r] >= shipped["dispositions"][r]
            /\ shipped'["dispositions"][r] \in Nat /\ shipped["moves"][r] \in Nat
      BY <1>0, <2>1, <2>2, ShipType DEF Topics
    <3>. QED
      BY <1>5, <1>0, <3>1 DEF SendFails, MovesInv, MovesFollow, Topics
  <2>3. CASE pc = "moves"
    <3>1. \A r \in Records :
            /\ shipped'["dispositions"][r] = shipped["dispositions"][r]
            /\ shipped'["moves"][r] = IF r \in R \ Malformed
                 THEN shipped["moves"][r] + batch[r] ELSE shipped["moves"][r]
      BY <1>0, <2>1, <2>3, ShipType DEF Topics
    <3>. QED
      BY <1>5, <1>0, <2>3, <3>1 DEF SendFails, MovesInv, MovesFollow, Topics
  <2>. QED
    BY <1>5, <2>2, <2>3 DEF SendFails, Topics
<1>6. CASE Commit
  BY <1>6 DEF Commit, NextBatch, MovesInv, MovesFollow
<1>7. CASE CommitFails
  BY <1>7 DEF CommitFails, MovesInv, MovesFollow
<1>8. CASE Close
  BY <1>8 DEF Close, Exit, MovesInv, MovesFollow
<1>9. CASE StreamEnd
  BY <1>9 DEF StreamEnd, MovesInv, MovesFollow
<1>10. CASE Crash
  BY <1>10 DEF Crash, Exit, MovesInv, MovesFollow
<1>11. CASE Rebalance
  BY <1>11 DEF Rebalance, MovesInv, MovesFollow
<1>12. CASE UNCHANGED vars
  BY <1>12 DEF vars, MovesInv, MovesFollow
<1>13. CASE SendMetrics
  BY <1>13 DEF SendMetrics, AfterMetrics, NextBatch, MovesInv, MovesFollow
<1>14. CASE MetricsLost
  BY <1>14 DEF MetricsLost, AfterMetrics, NextBatch, MovesInv, MovesFollow
<1>. QED
  BY <1>1, <1>2, <1>3, <1>4, <1>5, <1>6, <1>7, <1>8, <1>9, <1>10, <1>11, <1>12, <1>13, <1>14 DEF Next, Station

-----------------------------------------------------------------------------
(***************************************************************************)
(* No loss.                                                                *)
(***************************************************************************)

\* A step loses no record the position has passed.
LEMMA StepLossInv == TypeOK /\ LossInv /\ [Next]_vars => LossInv'
<1>. SUFFICES ASSUME TypeOK, LossInv, [Next]_vars PROVE LossInv'
  OBVIOUS
<1>0. /\ \A t \in Topics, r \in Records : shipped[t][r] \in Nat /\ batch[r] \in Nat
      /\ DOMAIN SentBefore = {"read", "dispositions", "moves", "metrics", "commit"}
  BY DEF TypeOK, SentBefore
<1>. USE <1>0
<1>1. CASE Open
  BY <1>1 DEF Open, LossInv, NothingLost
<1>2. ASSUME NEW p \in Partitions, Deliver(p) PROVE LossInv'
  <2>1. <<p, pos[p]>> \in Records /\ pos[p] \in Nat
    BY <1>2, TwinAssumption DEF Deliver, Records, Offsets, TypeOK
  <2>2. \A r \in Records : batch'[r] = IF r = <<p, pos[p]>> THEN batch[r] + 1 ELSE batch[r]
    BY <1>2, <2>1 DEF Deliver, TypeOK
  <2>3. ASSUME NEW r \in Records, r[2] < pos'[r[1]] PROVE r[2] < pos[r[1]] \/ r = <<p, pos[p]>>
    <3>. PICK q \in Partitions, k \in Offsets : r = <<q, k>>
      BY DEF Records
    <3>1. CASE q = p
      BY <3>1, <1>2, <2>1, <2>3, TwinAssumption DEF Deliver, TypeOK, Offsets
    <3>2. CASE q # p
      BY <3>2, <1>2, <2>3 DEF Deliver, TypeOK
    <3>. QED
      BY <3>1, <3>2
  <2>4. /\ pc = "read" /\ pc' \in {"read", "dispositions"}
        /\ shipped' = shipped /\ committed' = committed
    BY <1>2 DEF Deliver
  <2>5. SentBefore["read"] = {} /\ SentBefore["dispositions"] = {}
    BY DEF SentBefore
  <2>6. \A t \in Topics, r \in Records \ Malformed :
          r[2] < pos'[r[1]] => shipped'[t][r] >= 1 \/ batch'[r] > 0
    BY <2>2, <2>3, <2>4 DEF LossInv
  <2>. QED
    BY <2>4, <2>5, <2>6 DEF LossInv, NothingLost
<1>3. CASE SendDispositions
  <2>1. \A r \in Records :
          /\ shipped'["moves"][r] = shipped["moves"][r]
          /\ shipped'["dispositions"][r] =
               shipped["dispositions"][r] + IF r \in Malformed THEN 0 ELSE batch[r]
    BY <1>3, ShipType DEF SendDispositions, Topics
  <2>2. SentBefore["moves"] = {"dispositions"} /\ SentBefore["dispositions"] = {}
    BY DEF SentBefore
  <2>. QED
    BY <1>3, <2>1, <2>2 DEF SendDispositions, LossInv, NothingLost, Topics
<1>4. CASE SendMoves
  <2>1. \A r \in Records :
          /\ shipped'["dispositions"][r] = shipped["dispositions"][r]
          /\ shipped'["moves"][r] =
               shipped["moves"][r] + IF r \in Malformed THEN 0 ELSE batch[r]
    BY <1>4, ShipType DEF SendMoves, Topics
  <2>2. SentBefore["moves"] = {"dispositions"} /\ SentBefore["metrics"] = Topics
    BY DEF SentBefore
  <2>3. \A t \in Topics, r \in Records \ Malformed :
          r[2] < pos[r[1]] => shipped'[t][r] >= 1
    BY <1>4, <2>1, <2>2 DEF SendMoves, LossInv, Topics
  <2>4. NothingLost'
    BY <1>4, <2>1 DEF SendMoves, LossInv, NothingLost, Topics
  <2>. QED
    BY <1>4, <2>2, <2>3, <2>4 DEF SendMoves, LossInv
<1>5. CASE SendFails
  <2>1. \A t \in Topics, r \in Records : shipped'[t][r] >= shipped[t][r] /\ shipped'[t][r] \in Nat
    BY <1>5, ShipType DEF SendFails, Topics
  <2>. QED
    BY <1>5, <2>1 DEF SendFails, LossInv, NothingLost
<1>6. CASE Commit
  <2>1. SentBefore["commit"] = Topics /\ \A r \in Records : r[1] \in Partitions
    BY DEF SentBefore, Records
  <2>2. \A r \in Records : committed'[r[1]] = pos[r[1]]
    BY <1>6, <2>1 DEF Commit, CommitTo
  <2>. QED
    BY <1>6, <2>1, <2>2 DEF Commit, NextBatch, LossInv, NothingLost
<1>7. CASE CommitFails
  <2>1. SentBefore["commit"] = Topics /\ \A r \in Records : r[1] \in Partitions
    BY DEF SentBefore, Records
  <2>2. \A r \in Records : committed'[r[1]] \in {pos[r[1]], committed[r[1]]}
    BY <1>7, <2>1 DEF CommitFails, CommitTo
  <2>. QED
    BY <1>7, <2>1, <2>2 DEF CommitFails, LossInv, NothingLost
<1>8. CASE Close
  BY <1>8 DEF Close, Exit, LossInv, NothingLost
<1>9. CASE StreamEnd
  BY <1>9 DEF StreamEnd, LossInv, NothingLost
<1>10. CASE Crash
  BY <1>10 DEF Crash, Exit, LossInv, NothingLost
<1>11. CASE Rebalance
  BY <1>11 DEF Rebalance, LossInv, NothingLost
<1>12. CASE UNCHANGED vars
  BY <1>12 DEF vars, LossInv, NothingLost
<1>13. ASSUME SendMetrics \/ MetricsLost PROVE LossInv'
  <2>1. /\ pc = "metrics" /\ pc' \in {"commit", "read"}
        /\ UNCHANGED <<shipped, committed, pos>>
    BY <1>13 DEF SendMetrics, MetricsLost, AfterMetrics, NextBatch
  <2>2. SentBefore["metrics"] = Topics
    BY DEF SentBefore
  <2>3. \A t \in Topics, r \in Records \ Malformed : r[2] < pos[r[1]] => shipped[t][r] >= 1
    BY <2>1, <2>2 DEF LossInv
  <2>. QED
    BY <2>1, <2>3 DEF LossInv, NothingLost
<1>. QED
  BY <1>1, <1>2, <1>3, <1>4, <1>5, <1>6, <1>7, <1>8, <1>9, <1>10, <1>11, <1>12, <1>13 DEF Next, Station

-----------------------------------------------------------------------------
(***************************************************************************)
(* The replay window.                                                      *)
(***************************************************************************)

\* A step keeps the position within a commit interval of the committed one.
LEMMA StepWindowInv == TypeOK /\ LoopInv /\ WindowInv /\ [Next]_vars => WindowInv'
<1>. SUFFICES ASSUME TypeOK, LoopInv, WindowInv, [Next]_vars PROVE WindowInv'
  OBVIOUS
<1>. DEFINE W(k) == k * BatchSize
<1>0. /\ \A p \in Partitions : pos[p] \in Nat /\ committed[p] \in Nat
      /\ \A r \in Records : r[1] \in Partitions /\ r[2] \in Nat
      /\ held \in Nat /\ held <= BatchSize /\ BatchSize \in Nat
      /\ CommitEvery \in Nat /\ sinceCommit \in 0 .. CommitEvery
  BY TwinAssumption DEF TypeOK, Records, Offsets
<1>a. /\ W(0) = 0 /\ W(sinceCommit) \in Nat /\ W(CommitEvery) \in Nat
      /\ W(sinceCommit + 1) = W(sinceCommit) + BatchSize
      /\ sinceCommit < CommitEvery => W(sinceCommit) + BatchSize <= W(CommitEvery)
  BY <1>0, WindowArith
<1>b. /\ \A p \in Partitions : committed[p] <= pos[p]
      /\ pc \in {"read"} \cup Topics =>
           \A p \in Partitions : pos[p] <= committed[p] + W(sinceCommit) + held
      /\ pc = "metrics" => \A p \in Partitions : pos[p] <= committed[p] + W(sinceCommit)
      /\ \A r \in Records : batch[r] > 0 \/ shipped["dispositions"][r] > 0 =>
           r[2] < committed[r[1]] + W(CommitEvery)
  BY DEF WindowInv, InWindow
<1>c. ASSUME /\ \A p \in Partitions : committed'[p] <= pos'[p]
             /\ pc' \in {"read"} \cup Topics =>
                  \A p \in Partitions : pos'[p] <= committed'[p] + W(sinceCommit') + held'
             /\ pc' = "metrics" => \A p \in Partitions : pos'[p] <= committed'[p] + W(sinceCommit')
             /\ \A r \in Records : batch'[r] > 0 \/ shipped'["dispositions"][r] > 0 =>
                  r[2] < committed'[r[1]] + W(CommitEvery)
      PROVE  WindowInv'
  BY <1>c DEF WindowInv, InWindow
<1>d. /\ \A r \in Records : batch[r] \in Nat /\ shipped["dispositions"][r] \in Nat
      /\ \A r \in Records : Empty[r] = 0
  BY EmptyType DEF TypeOK, Topics
<1>. HIDE DEF W
<1>1. CASE Open
  BY <1>1, <1>0, <1>a, <1>b, <1>c, <1>d DEF Open
<1>2. ASSUME NEW p \in Partitions, Deliver(p) PROVE WindowInv'
  <2>1. <<p, pos[p]>> \in Records
    BY <1>2, <1>0, TwinAssumption DEF Deliver, Records, Offsets
  <2>2. \A r \in Records : batch'[r] > 0 => batch[r] > 0 \/ r = <<p, pos[p]>>
    BY <1>2, <2>1 DEF Deliver, TypeOK
  <2>3. pos[p] < committed[p] + W(CommitEvery)
    BY <1>2, <1>0, <1>a, <1>b DEF Deliver, LoopInv
  <2>4. \A q \in Partitions : pos'[q] = IF q = p THEN pos[p] + 1 ELSE pos[q]
    BY <1>2 DEF Deliver, TypeOK
  <2>5. \A q \in Partitions : committed'[q] <= pos'[q] /\ pos'[q] <= committed'[q] + W(sinceCommit') + held'
    BY <1>2, <1>0, <1>a, <1>b, <2>4 DEF Deliver
  <2>6. \A r \in Records : batch'[r] > 0 \/ shipped'["dispositions"][r] > 0 =>
          r[2] < committed'[r[1]] + W(CommitEvery)
    BY <1>2, <1>b, <2>2, <2>3 DEF Deliver
  <2>7. pc' # "metrics"
    BY <1>2 DEF Deliver
  <2>. QED
    BY <1>c, <2>5, <2>6, <2>7
<1>3. CASE SendDispositions
  <2>1. \A r \in Records : shipped'["dispositions"][r] > 0 =>
          shipped["dispositions"][r] > 0 \/ batch[r] > 0
    BY <1>3, <1>d, ShipType DEF SendDispositions, Topics
  <2>. QED
    BY <1>3, <1>b, <1>c, <2>1 DEF SendDispositions, Topics
<1>4. CASE SendMoves
  <2>1. \A r \in Records : shipped'["dispositions"][r] = shipped["dispositions"][r]
    BY <1>4, ShipType DEF SendMoves, Topics
  <2>2. \A p \in Partitions : pos[p] <= committed[p] + W(sinceCommit')
    BY <1>4, <1>0, <1>a, <1>b DEF SendMoves, LoopInv, Topics
  <2>. QED
    BY <1>4, <1>b, <1>c, <2>1, <2>2 DEF SendMoves, Topics
<1>5. CASE SendFails
  <2>1. \A r \in Records : shipped'["dispositions"][r] > 0 =>
          shipped["dispositions"][r] > 0 \/ batch[r] > 0
    BY <1>5, <1>d, ShipType DEF SendFails, Topics
  <2>. QED
    BY <1>5, <1>b, <1>c, <2>1 DEF SendFails, Topics
<1>6. CASE Commit
  <2>1. \A p \in Partitions : committed'[p] = pos[p]
    BY <1>6 DEF Commit, CommitTo
  <2>. QED
    BY <1>6, <1>0, <1>a, <1>b, <1>c, <1>d, <2>1 DEF Commit, NextBatch
<1>7. CASE CommitFails
  <2>1. \A p \in Partitions : committed'[p] \in {pos[p], committed[p]}
    BY <1>7 DEF CommitFails, CommitTo
  <2>. QED
    BY <1>7, <1>0, <1>a, <1>b, <1>c, <1>d, <2>1 DEF CommitFails, Topics
<1>8. CASE Close
  BY <1>8, <1>0, <1>a, <1>b, <1>c, <1>d DEF Close, Exit, Topics
<1>9. CASE StreamEnd
  BY <1>9, <1>0, <1>a, <1>b, <1>c, <1>d DEF StreamEnd, Topics
<1>10. CASE Crash
  BY <1>10, <1>0, <1>a, <1>b, <1>c, <1>d DEF Crash, Exit, Topics
<1>11. CASE Rebalance
  BY <1>11, <1>0, <1>a, <1>b, <1>c, <1>d DEF Rebalance
<1>12. CASE UNCHANGED vars
  BY <1>12, <1>0, <1>a, <1>b, <1>c, <1>d DEF vars
<1>13. CASE SendMetrics
  BY <1>13, <1>0, <1>a, <1>b, <1>c, <1>d DEF SendMetrics, AfterMetrics, NextBatch, Topics
<1>14. CASE MetricsLost
  BY <1>14, <1>0, <1>a, <1>b, <1>c, <1>d DEF MetricsLost, AfterMetrics, NextBatch, Topics
<1>. QED
  BY <1>1, <1>2, <1>3, <1>4, <1>5, <1>6, <1>7, <1>8, <1>9, <1>10, <1>11, <1>12, <1>13, <1>14 DEF Next, Station

-----------------------------------------------------------------------------
(***************************************************************************)
(* What the metrics count.                                                 *)
(***************************************************************************)

\* A step keeps the counts of each record.
LEMMA StepCountInv == TypeOK /\ CountInv /\ [Next]_vars => CountInv'
<1>. SUFFICES ASSUME TypeOK, CountInv, [Next]_vars PROVE CountInv'
  OBVIOUS
<1>0. \A t \in Topics, r \in Records :
        shipped[t][r] \in Nat /\ batch[r] \in Nat /\ counted[r] \in Nat
  BY DEF TypeOK
<1>1. CASE Open
  BY <1>1 DEF Open, CountInv
<1>2. ASSUME NEW p \in Partitions, Deliver(p) PROVE CountInv'
  BY <1>2 DEF Deliver, CountInv
<1>3. CASE SendDispositions
  <2>1. \A r \in Records \ Malformed :
          shipped'["dispositions"][r] = shipped["dispositions"][r] + batch[r]
    BY <1>3, ShipType DEF SendDispositions, Topics
  <2>. QED
    BY <1>3, <1>0, <2>1 DEF SendDispositions, CountInv, Topics
<1>4. CASE SendMoves
  <2>1. \A r \in Records : shipped'["dispositions"][r] = shipped["dispositions"][r]
    BY <1>4, ShipType DEF SendMoves, Topics
  <2>. QED
    BY <1>4, <1>0, <2>1 DEF SendMoves, CountInv, Topics
<1>5. CASE SendFails
  <2>1. \A r \in Records : /\ shipped'["dispositions"][r] >= shipped["dispositions"][r]
                           /\ shipped'["dispositions"][r] \in Nat
    BY <1>5, <1>0, ShipType DEF SendFails, Topics
  <2>. QED
    BY <1>5, <1>0, <2>1 DEF SendFails, CountInv, Topics
<1>6. CASE Commit
  BY <1>6 DEF Commit, NextBatch, CountInv
<1>7. CASE CommitFails
  BY <1>7 DEF CommitFails, CountInv
<1>8. CASE Close
  BY <1>8, <1>0 DEF Close, Exit, CountInv, Topics
<1>9. CASE StreamEnd
  BY <1>9 DEF StreamEnd, CountInv
<1>10. CASE Crash
  BY <1>10, <1>0 DEF Crash, Exit, CountInv, Topics
<1>11. CASE Rebalance
  BY <1>11 DEF Rebalance, CountInv
<1>12. CASE UNCHANGED vars
  BY <1>12 DEF vars, CountInv
<1>13. CASE SendMetrics
  <2>1. \A r \in Records : counted'[r] = counted[r] + batch[r]
    BY <1>13 DEF SendMetrics
  <2>. QED
    BY <1>13, <1>0, <2>1 DEF SendMetrics, AfterMetrics, NextBatch, CountInv, Topics
<1>14. CASE MetricsLost
  BY <1>14, <1>0 DEF MetricsLost, AfterMetrics, NextBatch, CountInv, Topics
<1>. QED
  BY <1>1, <1>2, <1>3, <1>4, <1>5, <1>6, <1>7, <1>8, <1>9, <1>10, <1>11, <1>12, <1>13, <1>14 DEF Next, Station

\* A step keeps every record behind a position in a metric or in hand.
LEMMA StepCoverInv == TypeOK /\ LoopInv /\ CoverInv /\ [Next]_vars => CoverInv'
<1>. SUFFICES ASSUME TypeOK, LoopInv, CoverInv, [Next]_vars PROVE CoverInv'
  OBVIOUS
<1>0. /\ \A t \in Topics, r \in Records : shipped[t][r] \in Nat
      /\ \A r \in Records : batch[r] \in Nat /\ counted[r] \in Nat
      /\ \A r \in Records : r[1] \in Partitions /\ r[2] \in Nat
      /\ held \in Nat /\ Malformed \subseteq Records
      /\ DOMAIN SentBefore = {"read", "commit", "metrics"} \cup Topics
  BY TwinAssumption DEF TypeOK, Records, Offsets, SentBefore, Topics
<1>a. ASSUME batch' = batch \/ batch' = Empty, held' = held \/ (batch' = Empty /\ held' = 0)
      PROVE  IsFiniteSet(Held') /\ Cardinality(Held') <= held'
  <2>1. CASE batch' = batch /\ held' = held
    BY <2>1 DEF CoverInv, Held
  <2>2. CASE batch' = Empty /\ held' = 0
    <3>1. Held' = {}
      BY <2>2, EmptyType DEF Held
    <3>. QED
      BY <2>2, <3>1, FS_EmptySet
  <2>3. CASE batch' = Empty /\ held' = held
    <3>1. Held' = {}
      BY <2>3, EmptyType DEF Held
    <3>. QED
      BY <1>0, <2>3, <3>1, FS_EmptySet
  <2>. QED
    BY <1>a, <2>1, <2>2, <2>3
<1>b. ASSUME NEW t \in Topics, NEW R, Ship(t, R)
      PROVE  \A u \in Topics, r \in Malformed : shipped'[u][r] = 0
  BY <1>0, <1>b, ShipType DEF CoverInv
<1>c. ASSUME shipped' = shipped PROVE \A u \in Topics, r \in Malformed : shipped'[u][r] = 0
  BY <1>c DEF CoverInv
<1>d. Held' = {r \in Records : batch'[r] > 0}
  BY DEF Held
<1>1. CASE Open
  BY <1>1, <1>a, <1>c, <1>d DEF Open, CoverInv, Held
<1>2. ASSUME NEW p \in Partitions, Deliver(p) PROVE CoverInv'
  <2>. DEFINE new == <<p, pos[p]>>
  <2>1. /\ new \in Records /\ new[1] = p /\ new[2] = pos[p] /\ pos[p] \in Nat
        /\ pc = "read" /\ batch' = [batch EXCEPT ![new] = @ + 1] /\ held' = held + 1
        /\ pos' = [pos EXCEPT ![p] = @ + 1] /\ pc' \in {"read", "dispositions"}
        /\ UNCHANGED <<committed, shipped, counted, unreported>>
    BY <1>2, TwinAssumption DEF Deliver, TypeOK, Records, Offsets
  <2>2. \A r \in Records : /\ r[1] = p /\ r[2] = pos[p] => r = new
                            /\ batch'[r] = IF r = new THEN batch[r] + 1 ELSE batch[r]
    BY <2>1 DEF TypeOK, Records
  <2>. HIDE DEF new
  <2>3. Held' = Held \cup {new}
    BY <1>0, <1>d, <2>1, <2>2 DEF Held
  <2>4. IsFiniteSet(Held') /\ Cardinality(Held') <= held'
    <3>1. IsFiniteSet(Held) /\ Cardinality(Held) <= held /\ Cardinality(Held) \in Nat
      BY FS_CardinalityType DEF CoverInv
    <3>2. IsFiniteSet(Held \cup {new})
          /\ Cardinality(Held \cup {new}) \in {Cardinality(Held), Cardinality(Held) + 1}
      BY <3>1, FS_AddElement
    <3>. QED
      BY <1>0, <2>1, <2>3, <3>1, <3>2
  <2>5. ASSUME ~unreported, NEW r \in Records, r[2] < pos'[r[1]]
        PROVE  counted[r] > 0 \/ r \in Held'
    <3>1. CASE r = new
      BY <2>3, <3>1
    <3>2. CASE r # new
      <4>1. r[2] < pos[r[1]]
        <5>1. r[1] \in Partitions /\ r[2] \in Nat
          BY <1>0
        <5>2. CASE r[1] = p
          <6>1. pos'[p] = pos[p] + 1
            BY <2>1, <5>1 DEF TypeOK
          <6>2. r[2] # pos[p] /\ r[2] < pos'[p]
            BY <2>2, <2>5, <3>2, <5>2
          <6>. QED
            BY <2>1, <5>1, <5>2, <6>1, <6>2
        <5>3. CASE r[1] # p
          <6>1. pos'[r[1]] = pos[r[1]]
            BY <2>1, <5>1, <5>3 DEF TypeOK
          <6>. QED
            BY <2>5, <6>1
        <5>. QED
          BY <5>2, <5>3
      <4>. QED
        BY <1>0, <2>1, <2>3, <2>5, <4>1 DEF CoverInv
    <3>. QED
      BY <3>1, <3>2
  <2>. QED
    BY <1>c, <2>1, <2>4, <2>5 DEF CoverInv
<1>3. CASE SendDispositions
  <2>1. \A u \in Topics, r \in Malformed : shipped'[u][r] = 0
    BY <1>3, <1>b DEF SendDispositions, Topics
  <2>. QED
    BY <1>0, <1>3, <1>a, <1>d, <2>1 DEF SendDispositions, CoverInv, Held, Topics
<1>4. CASE SendMoves
  <2>1. \A u \in Topics, r \in Malformed : shipped'[u][r] = 0
    BY <1>4, <1>b DEF SendMoves, Topics
  <2>. QED
    BY <1>0, <1>4, <1>a, <1>d, <2>1 DEF SendMoves, CoverInv, Held, Topics
<1>5. CASE SendFails
  <2>1. \A u \in Topics, r \in Malformed : shipped'[u][r] = 0
    BY <1>5, <1>b DEF SendFails
  <2>. QED
    BY <1>5, <1>a, <1>d, <2>1 DEF SendFails, CoverInv, Held
<1>6. CASE Commit
  <2>1. /\ pc = "commit" /\ pc' = "read" /\ batch' = Empty /\ held' = 0
        /\ \A p \in Partitions : committed'[p] = pos[p]
        /\ UNCHANGED <<pos, shipped, counted, unreported>>
    BY <1>6 DEF Commit, CommitTo, NextBatch
  <2>. QED
    BY <1>0, <1>a, <1>c, <2>1 DEF CoverInv
<1>7. CASE CommitFails
  <2>1. /\ pc = "commit" /\ pc' = "close" /\ UNCHANGED <<batch, held>>
        /\ \A p \in Partitions : committed'[p] \in {pos[p], committed[p]}
        /\ UNCHANGED <<pos, shipped, counted, unreported>>
    BY <1>7 DEF CommitFails, CommitTo
  <2>2. "close" \notin DOMAIN SentBefore
    BY <1>0 DEF Topics
  <2>3. ~unreported => \A r \in Records : r[2] < committed'[r[1]] => counted[r] > 0
    BY <1>0, <2>1 DEF CoverInv
  <2>. QED
    BY <1>a, <1>c, <1>d, <2>1, <2>2, <2>3 DEF CoverInv, Held
<1>8. CASE Exit
  <2>1. /\ pc' = "down" /\ batch' = Empty /\ held' = 0 /\ (unreported => unreported')
        /\ UNCHANGED <<pos, committed, shipped, counted>>
    BY <1>8 DEF Exit
  <2>2. "down" \notin DOMAIN SentBefore
    BY <1>0 DEF Topics
  <2>. QED
    BY <1>a, <1>c, <2>1, <2>2 DEF CoverInv
<1>9. CASE StreamEnd
  <2>1. "close" \notin DOMAIN SentBefore
    BY <1>0 DEF Topics
  <2>. QED
    BY <1>9, <1>a, <1>c, <1>d, <2>1 DEF StreamEnd, CoverInv, Held
<1>10. CASE Rebalance
  BY <1>10, <1>a, <1>c, <1>d DEF Rebalance, CoverInv, Held
<1>11. CASE UNCHANGED vars
  BY <1>11, <1>a, <1>c, <1>d DEF vars, CoverInv, Held
<1>12. CASE SendMetrics
  <2>1. /\ pc = "metrics" /\ \A r \in Records : counted'[r] = counted[r] + batch[r]
        /\ \/ pc' = "commit" /\ UNCHANGED <<batch, held>>
           \/ pc' = "read" /\ batch' = Empty /\ held' = 0
        /\ UNCHANGED <<pos, committed, shipped, unreported>>
    BY <1>12 DEF SendMetrics, AfterMetrics, NextBatch
  <2>2. ASSUME ~unreported, NEW r \in Records
        PROVE  /\ r[2] < committed[r[1]] => counted'[r] > 0
               /\ r[2] < pos[r[1]] => counted'[r] > 0
    <3>1. /\ r[2] < committed[r[1]] => counted[r] > 0
          /\ r[2] < pos[r[1]] => counted[r] > 0 \/ batch[r] > 0
      BY <1>0, <2>1, <2>2 DEF CoverInv, Held
    <3>. QED
      BY <1>0, <2>1, <3>1
  <2>. QED
    BY <1>a, <1>c, <1>d, <2>1, <2>2 DEF CoverInv, Held
<1>13. CASE MetricsLost
  <2>1. /\ unreported' /\ UNCHANGED shipped
        /\ \/ UNCHANGED <<batch, held>>
           \/ batch' = Empty /\ held' = 0
    BY <1>13 DEF MetricsLost, AfterMetrics, NextBatch
  <2>. QED
    BY <1>a, <1>c, <1>d, <2>1 DEF CoverInv, Held
<1>. QED
  BY <1>1, <1>2, <1>3, <1>4, <1>5, <1>6, <1>7, <1>8, <1>9, <1>10, <1>11, <1>12, <1>13
     DEF Next, Station, Close, Crash

-----------------------------------------------------------------------------
(***************************************************************************)
(* The results.                                                            *)
(***************************************************************************)

\* The inductive invariant at the start.
LEMMA InitInv == Init => Inv
<1>. SUFFICES ASSUME Init PROVE Inv
  OBVIOUS
<1>1. /\ TypeOK /\ LoopInv /\ pc = "down"
      /\ \A p \in Partitions : committed[p] = 0 /\ pos[p] = 0
      /\ \A r \in Records : r[1] \in Partitions /\ r[2] \in Nat /\ batch[r] = 0
      /\ \A t \in Topics, r \in Records : shipped[t][r] = 0
  BY InitTypeOK, EmptyType, TwinAssumption DEF Init, Records, Offsets
<1>2. MovesInv
  BY <1>1 DEF MovesInv, MovesFollow, Topics
<1>3. LossInv
  BY <1>1 DEF LossInv, NothingLost, SentBefore
<1>4. WindowInv
  BY <1>1 DEF WindowInv, InWindow, Topics
<1>5. CountInv
  BY <1>1, EmptyType DEF Init, CountInv, Topics
<1>6. CoverInv
  <2>1. Held = {}
    BY <1>1 DEF Held
  <2>2. \A t \in Topics, r \in Malformed : shipped[t][r] = 0
    BY <1>1, TwinAssumption
  <2>. QED
    BY <1>1, <2>1, <2>2, FS_EmptySet DEF Init, CoverInv, SentBefore
<1>. QED
  BY <1>1, <1>2, <1>3, <1>4, <1>5, <1>6 DEF Inv

\* The inductive invariant holds of every behaviour of the twin.
THEOREM Invariance == Spec => []Inv
<1>1. Inv /\ [Next]_vars => Inv'
  BY StepTypeOK, StepMovesInv, StepLossInv, StepWindowInv, StepCountInv, StepCoverInv DEF Inv
<1>. QED
  BY InitInv, <1>1, PTL DEF Spec

\* Committing after the acks loses no unit, through partial sends, partial
\* commits, crashes and rebalances.
THEOREM NothingLostTheorem == Spec => []NothingLost
<1>1. Inv => NothingLost
  BY DEF Inv, LossInv
<1>. QED
  BY <1>1, Invariance, PTL

\* Inventory never runs ahead of the dispositions.
THEOREM MovesFollowTheorem == Spec => []MovesFollow
<1>1. Inv => MovesFollow
  BY DEF Inv, MovesInv
<1>. QED
  BY <1>1, Invariance, PTL

\* A restart replays at most COMMIT_EVERY batches' worth of one partition.
THEOREM ReplayWindowTheorem == Spec => []ReplayWindow
<1>1. Inv => ReplayWindow
  <2>. SUFFICES ASSUME Inv, NEW p \in Partitions
                PROVE  Cardinality({r \in Records : /\ r[1] = p /\ r[2] >= committed[p]
                                                    /\ shipped["dispositions"][r] > 0})
                         <= CommitEvery * BatchSize
    BY DEF ReplayWindow
  <2>. DEFINE W == CommitEvery * BatchSize
              S == {r \in Records : /\ r[1] = p /\ r[2] >= committed[p]
                                    /\ shipped["dispositions"][r] > 0}
              I == committed[p] .. committed[p] + W - 1
              f == [r \in S |-> r[2]]
  <2>1. committed[p] \in Nat /\ W \in Nat
    BY TwinAssumption, WindowArith DEF Inv, TypeOK
  <2>2. \A r \in S : r[2] \in Nat /\ r[2] >= committed[p] /\ r[2] < committed[p] + W
    BY DEF Inv, WindowInv, InWindow, Records, Offsets
  <2>3. f \in Injection(S, I)
    <3>. HIDE DEF W
    <3>1. f \in [S -> I]
      BY <2>1, <2>2
    <3>2. \A r, s \in S : f[r] = f[s] => r = s
      BY DEF Records
    <3>. QED
      BY <3>1, <3>2 DEF Injection, IsInjective
  <2>4. IsFiniteSet(I) /\ Cardinality(I) = W
    <3>. HIDE DEF W
    <3>1. /\ committed[p] \in Int /\ committed[p] + W - 1 \in Int
          /\ committed[p] > committed[p] + W - 1 <=> W = 0
          /\ (committed[p] + W - 1) - committed[p] + 1 = W
      BY <2>1
    <3>. QED
      BY <3>1, FS_Interval
  <2>5. Cardinality(S) <= Cardinality(I)
    <3>. HIDE DEF S, I, f
    <3>. QED
      BY <2>3, <2>4, FS_Injection
  <2>. QED
    BY <2>4, <2>5
<1>. QED
  BY <1>1, Invariance, PTL

\* Counting a family of finite sets over the records is finite.
LEMMA CountsFinite ==
  ASSUME NEW n \in [Records -> Nat], NEW k \in Nat
  PROVE  IsFiniteSet(UNION {{r} \X (k .. n[r]) : r \in Records})
<1>. DEFINE F(r) == {r} \X (k .. n[r])
<1>1. IsFiniteSet(Records)
  <2>1. IsFiniteSet(Offsets)
    BY TwinAssumption, FS_Interval DEF Offsets
  <2>. QED
    BY <2>1, PartitionsAssumption, FS_Product DEF Records
<1>2. \A r \in Records : IsFiniteSet(F(r))
  <2>. TAKE r \in Records
  <2>1. IsFiniteSet(k .. n[r])
    BY FS_Interval
  <2>2. IsFiniteSet({r})
    BY FS_Singleton
  <2>. QED
    BY <2>1, <2>2, FS_Product
<1>. HIDE DEF F
<1>3. IsFiniteSet({F(r) : r \in Records})
  <2>. DEFINE f == [r \in Records |-> F(r)]
              T == {F(r) : r \in Records}
  <2>1. f \in Surjection(Records, T)
    BY DEF Surjection
  <2>. HIDE DEF f, T
  <2>2. IsFiniteSet(T)
    BY <1>1, <2>1, FS_Surjection
  <2>. QED
    BY <2>2 DEF T
<1>4. IsFiniteSet(UNION {F(r) : r \in Records})
  BY <1>2, <1>3, FS_UNION
<1>. QED
  BY <1>4 DEF F

\* What the metrics count and the ledger repeats comes out at the topic, when it
\* is read out, up to the batch in hand.
THEOREM AccountedTheorem == Spec => []Accounted
<1>1. Inv => Accounted
  <2>. SUFFICES ASSUME Inv, pc = "read", \A p \in Partitions : pos[p] = LogLen, ~unreported,
                       \A r \in Malformed : counted[r] <= 1
                PROVE  Pending \in 0 .. BatchSize - 1
    BY DEF Accounted
  <2>. DEFINE Once == {r \in Records : counted[r] > 0}
              Left == {r \in Records : counted[r] = 0}
              ledger == shipped["dispositions"]
  <2>0. /\ counted \in [Records -> Nat] /\ ledger \in [Records -> Nat]
        /\ held \in 0 .. BatchSize /\ held < BatchSize /\ BatchSize \in Nat
    BY TwinAssumption DEF Inv, TypeOK, LoopInv, Topics
  <2>1. \A r \in Records : IF r \in Malformed THEN ledger[r] = 0 /\ counted[r] <= 1
                                               ELSE ledger[r] = counted[r]
    <3>1. \A r \in Malformed : ledger[r] = 0
      BY DEF Inv, CoverInv, Topics
    <3>2. \A r \in Records \ Malformed : ledger[r] = counted[r] + 0
      BY DEF Inv, CountInv
    <3>. QED
      BY <2>0, <3>1, <3>2
  <2>2. Counts = Again \cup (Once \X {1}) /\ Again \cap (Once \X {1}) = {}
    <3>1. ASSUME NEW x \in Counts PROVE x \in Again \/ x \in Once \X {1}
      <4>1. PICK r \in Records : x \in {r} \X (1 .. counted[r])
        BY DEF Counts
      <4>2. PICK i \in 1 .. counted[r] : x = <<r, i>>
        BY <4>1
      <4>3. CASE i = 1
        BY <2>0, <4>2, <4>3
      <4>4. CASE i # 1
        <5>1. i \in 2 .. ledger[r]
          BY <2>0, <2>1, <4>2, <4>4
        <5>. QED
          BY <4>2, <5>1 DEF Again
      <4>. QED
        BY <4>3, <4>4
    <3>2. ASSUME NEW x \in Again PROVE x \in Counts /\ x \notin Once \X {1}
      <4>1. PICK r \in Records : x \in {r} \X (2 .. ledger[r])
        BY DEF Again
      <4>2. PICK i \in 2 .. ledger[r] : x = <<r, i>>
        BY <4>1
      <4>3. i \in 1 .. counted[r] /\ i # 1
        BY <2>0, <2>1, <4>2
      <4>. QED
        BY <4>2, <4>3 DEF Counts
    <3>3. ASSUME NEW x \in Once \X {1} PROVE x \in Counts
      <4>1. PICK r \in Once : x = <<r, 1>>
        OBVIOUS
      <4>2. 1 \in 1 .. counted[r]
        BY <2>0
      <4>. QED
        BY <4>1, <4>2 DEF Counts
    <3>. HIDE DEF Once
    <3>. QED
      BY <3>1, <3>2, <3>3
  <2>3. IsFiniteSet(Counts) /\ IsFiniteSet(Again)
    <3>. HIDE DEF ledger
    <3>1. IsFiniteSet(UNION {{r} \X (1 .. counted[r]) : r \in Records})
      BY <2>0, CountsFinite
    <3>2. IsFiniteSet(UNION {{r} \X (2 .. ledger[r]) : r \in Records})
      BY <2>0, CountsFinite
    <3>. QED
      BY <3>1, <3>2 DEF Counts, Again, ledger
  <2>4. IsFiniteSet(Records)
    <3>1. IsFiniteSet(Offsets)
      BY TwinAssumption, FS_Interval DEF Offsets
    <3>. QED
      BY <3>1, PartitionsAssumption, FS_Product DEF Records
  <2>5. Records = Once \cup Left /\ Once \cap Left = {}
    BY <2>0
  <2>6. Left \subseteq Held
    <3>. SUFFICES ASSUME NEW r \in Records, counted[r] = 0 PROVE r \in Held
      OBVIOUS
    <3>1. r[1] \in Partitions /\ r[2] < pos[r[1]]
      BY TwinAssumption DEF Records, Offsets
    <3>2. pc \in DOMAIN SentBefore
      BY DEF SentBefore
    <3>. QED
      BY <3>1, <3>2 DEF Inv, CoverInv
  <2>7. IsFiniteSet(Left) /\ Cardinality(Left) \in Nat /\ Cardinality(Left) < BatchSize
    <3>1. IsFiniteSet(Held) /\ Cardinality(Held) <= held
      BY DEF Inv, CoverInv
    <3>2. IsFiniteSet(Left) /\ Cardinality(Left) <= Cardinality(Held)
      BY <2>6, <3>1, FS_Subset
    <3>3. Cardinality(Left) \in Nat /\ Cardinality(Held) \in Nat
      BY <3>1, <3>2, FS_CardinalityType
    <3>. HIDE DEF Left
    <3>. QED
      BY <2>0, <3>1, <3>2, <3>3
  <2>. HIDE DEF Once, Left, ledger
  <2>8. IsFiniteSet(Once)
    BY <2>4, <2>5, FS_Subset
  <2>9. Cardinality(Records) = Cardinality(Once) + Cardinality(Left)
    <3>1. Cardinality(Once \cup Left)
            = Cardinality(Once) + Cardinality(Left) - Cardinality(Once \cap Left)
      BY <2>7, <2>8, FS_Union
    <3>2. Cardinality(Once \cap Left) = 0
      BY <2>5, FS_EmptySet
    <3>3. Cardinality(Once) \in Nat /\ Cardinality(Once \cup Left) = Cardinality(Records)
      BY <2>5, <2>8, FS_CardinalityType
    <3>. QED
      BY <2>7, <3>1, <3>2, <3>3
  <2>10. Cardinality(Counts) = Cardinality(Again) + Cardinality(Once)
    <3>1. IsFiniteSet(Once \X {1}) /\ Cardinality(Once \X {1}) = Cardinality(Once) * Cardinality({1})
      BY <2>8, FS_Singleton, FS_Product
    <3>2. Cardinality({1}) = 1
      BY FS_Singleton
    <3>3. Cardinality(Again \cup (Once \X {1}))
            = Cardinality(Again) + Cardinality(Once \X {1}) - Cardinality(Again \cap (Once \X {1}))
      BY <2>3, <3>1, FS_Union
    <3>4. Cardinality(Again \cap (Once \X {1})) = 0
      BY <2>2, FS_EmptySet
    <3>5. /\ Cardinality(Once) \in Nat /\ Cardinality(Again) \in Nat
          /\ Cardinality(Again \cup (Once \X {1})) = Cardinality(Counts)
      BY <2>2, <2>3, <2>8, FS_CardinalityType
    <3>. QED
      BY <3>1, <3>2, <3>3, <3>4, <3>5
  <2>11. Cardinality(Once) \in Nat /\ Cardinality(Again) \in Nat
    BY <2>3, <2>8, FS_CardinalityType
  <2>12. Pending = Cardinality(Left)
    BY <2>7, <2>9, <2>10, <2>11 DEF Pending
  <2>. QED
    BY <2>0, <2>7, <2>12
<1>. QED
  BY <1>1, Invariance, PTL

-----------------------------------------------------------------------------
(***************************************************************************)
(* The abstract promise.                                                   *)
(***************************************************************************)

\* Outputs are added and never taken away.
LEMMA SettledGrows == TypeOK /\ [Next]_vars => Settled \subseteq Settled'
<1>. SUFFICES ASSUME TypeOK, [Next]_vars PROVE Settled \subseteq Settled'
  OBVIOUS
<1>1. \A t \in Topics, r \in Records : shipped[t][r] \in Nat /\ batch[r] \in Nat
  BY DEF TypeOK
<1>2. \A t \in Topics, r \in Records : shipped'[t][r] >= shipped[t][r] /\ shipped'[t][r] \in Nat
  <2>1. CASE SendDispositions
    BY <1>1, <2>1, ShipType DEF SendDispositions, Topics
  <2>2. CASE SendMoves
    BY <1>1, <2>2, ShipType DEF SendMoves, Topics
  <2>3. CASE SendFails
    BY <1>1, <2>3, ShipType DEF SendFails, Topics
  <2>4. [Next]_vars => SendDispositions \/ SendMoves \/ SendFails \/ shipped' = shipped
    BY DEF Next, Station, vars, Open, Deliver, SendMetrics, MetricsLost, Commit, CommitFails,
       Close, StreamEnd, Crash, Exit, Rebalance
  <2>. QED
    BY <1>1, <2>1, <2>2, <2>3, <2>4
<1>. QED
  BY <1>1, <1>2 DEF Settled

\* Every committed position moves forward.
LEMMA CommittedGrows ==
  TypeOK /\ WindowInv /\ [Next]_vars => \A p \in Partitions : committed[p] <= committed'[p]
<1>. SUFFICES ASSUME TypeOK, WindowInv, [Next]_vars, NEW p \in Partitions
              PROVE  committed[p] <= committed'[p]
  OBVIOUS
<1>1. committed[p] \in Nat /\ pos[p] \in Nat /\ committed[p] <= pos[p]
  BY TwinAssumption DEF TypeOK, WindowInv
<1>2. CASE Commit \/ CommitFails
  <2>1. committed'[p] \in {pos[p], committed[p]}
    BY <1>2 DEF Commit, CommitFails, CommitTo
  <2>. QED
    BY <1>1, <2>1
<1>3. [Next]_vars => Commit \/ CommitFails \/ committed' = committed
  BY DEF Next, Station, vars, Open, Deliver, SendDispositions, SendMoves, SendFails,
     SendMetrics, MetricsLost, Close, StreamEnd, Crash, Exit, Rebalance
<1>. QED
  BY <1>1, <1>2, <1>3

\* The twin implements the promise every station of the line makes: nothing
\* lies below its committed position that is not settled, whatever fails.
THEOREM ImplementsAtLeastOnce == Spec => AtLeastOnceSpec
<1>0. Promise!Records = Records /\ Malformed \subseteq Records
  BY TwinAssumption DEF Records, Offsets, Promise!Records
<1>1. Init => Promise!Init
  BY <1>0 DEF Init, Promise!Init, Settled
<1>2. ASSUME Inv, Inv', [Next]_vars
      PROVE  [Promise!Next]_<<committed, Settled>>
  <2>1. Settled \subseteq Settled' /\ Settled' \in SUBSET Records
    BY <1>0, <1>2, SettledGrows DEF Inv, Settled
  <2>2. \A p \in Partitions : committed[p] <= committed'[p]
    BY <1>2, CommittedGrows DEF Inv
  <2>3. committed' \in [Partitions -> 0 .. LogLen]
    BY <1>2 DEF Inv, TypeOK
  <2>4. Promise!Below(committed') \subseteq Settled'
    BY <1>0, <1>2 DEF Inv, LossInv, NothingLost, Settled, Promise!Below
  <2>5. Promise!Advance
    BY <1>0, <2>1, <2>2, <2>3, <2>4 DEF Promise!Advance
  <2>. QED
    BY <2>5 DEF Promise!Next
<1>. QED
  BY <1>1, <1>2, Invariance, PTL DEF Spec, AtLeastOnceSpec, Promise!Spec
=============================================================================
