------------------------ MODULE ResultStationsProofs ------------------------
(***************************************************************************)
(* What ST-04 and ST-05 and the host around them keep, for any number of   *)
(* partitions, logs, batches, trap limits and failures: ST-04 with calls   *)
(* of one record, as it is deployed, ST-05 with any.                       *)
(***************************************************************************)
EXTENDS MCResultStations, FiniteSetTheorems, WellFoundedInduction, TLAPS

-----------------------------------------------------------------------------
(***************************************************************************)
(* The host: what each of its steps does to the partition it is about.     *)
(***************************************************************************)

\* A step of partition p leaves the other partitions' host state alone.
HostKeeps(p) ==
  \A q \in Partitions \ {p} :
    /\ position'[q] = position[q] /\ committed'[q] = committed[q]
    /\ call'[q] = call[q]
    /\ \A o \in Offsets : dlq'[<<q, o>>] = dlq[<<q, o>>]

\* The call of p is over and the position is o; nothing is dead-lettered.
MovedTo(p, o) ==
  position'[p] = o /\ \A k \in Offsets : dlq'[<<p, k>>] = dlq[<<p, k>>]

\* The call of p is over with its head dead-lettered and passed.
HeadDead(p) ==
  /\ position'[p] = position[p] + 1
  /\ \A k \in Offsets : dlq'[<<p, k>>] = IF k = position[p] THEN dlq[<<p, k>>] + 1
                                                            ELSE dlq[<<p, k>>]

\* What the bounds of a partition's state are, in numbers.
LEMMA HostNumbers ==
  HostTypeOK => \A p \in Partitions :
    /\ position[p] \in Nat /\ committed[p] \in Nat /\ position[p] <= LogLen
    /\ \A o \in Offsets : <<p, o>> \in Records /\ dlq[<<p, o>>] \in Nat /\ o \in Nat
    /\ HandAt(p) /\ ~Idle(p) =>
         /\ call[p].first = position[p] /\ position[p] \in Offsets
         /\ call[p].last \in Offsets /\ call[p].last \in Nat /\ position[p] <= call[p].last
BY DeliveryAssumption DEF HostTypeOK, HandAt, Records, Offsets

\* A fresh host.
LEMMA HostStarts ==
  HostInit => HostTypeOK /\ \A p \in Partitions : HandAt(p) /\ Idle(p) /\ position[p] = 0
<1>. HAVE HostInit
<1>1. HostTypeOK
  BY DeliveryAssumption DEF HostInit, HostTypeOK, NoCall, Records
<1>. QED
  BY <1>1 DEF HostInit, HandAt, Idle

\* Handing a batch over.
LEMMA HandEffect ==
  HostTypeOK => \A p \in Partitions, last \in Offsets :
    HandAt(p) /\ Hand(p, last) /\ faults' = faults =>
      /\ HostTypeOK' /\ HandAt(p)' /\ ~Idle(p)' /\ HostKeeps(p)
      /\ MovedTo(p, position[p])
      /\ call'[p] = [first |-> position[p], last |-> last] /\ position[p] <= last
<1>. HAVE HostTypeOK
<1>. TAKE p \in Partitions, last \in Offsets
<1>. HAVE HandAt(p) /\ Hand(p, last) /\ faults' = faults
<1>0. /\ position[p] \in 0 .. LogLen /\ last \in 0 .. LogLen - 1 /\ LogLen \in Nat /\ BatchMax \in Nat
      /\ last >= position[p] /\ last <= position[p] + BatchMax - 1
  BY DeliveryAssumption DEF HostTypeOK, Offsets, Hand
<1>1. call' = [call EXCEPT ![p] = [first |-> position[p], last |-> last]]
      /\ UNCHANGED <<position, committed, traps, dlq>>
  BY DEF Hand
<1>2. /\ call'[p] = [first |-> position[p], last |-> last]
      /\ \A q \in Partitions \ {p} : call'[q] = call[q]
      /\ call' \in [Partitions -> [first : 0 .. LogLen, last : -1 .. LogLen - 1]]
  BY <1>0, <1>1 DEF HostTypeOK
<1>3. call'[p] # NoCall
  BY <1>0, <1>2 DEF NoCall
<1>4. HostTypeOK'
  BY <1>1, <1>2 DEF HostTypeOK
<1>5. HandAt(p)'
  BY <1>0, <1>1, <1>2, <1>3 DEF HandAt, Idle
<1>. QED
  BY <1>0, <1>1, <1>2, <1>3, <1>4, <1>5 DEF Idle, HostKeeps, MovedTo

\* The call of a partition is over, its position moved on.
LEMMA MoveEffect ==
  HostTypeOK => \A p \in Partitions, o \in 0 .. LogLen :
    HandAt(p) /\ o >= position[p] /\ MoveTo(p, o) =>
      /\ position' \in [Partitions -> 0 .. LogLen]
      /\ committed' \in [Partitions -> 0 .. LogLen]
      /\ call' \in [Partitions -> [first : 0 .. LogLen, last : -1 .. LogLen - 1]]
      /\ HandAt(p)' /\ Idle(p)' /\ position'[p] = o
      /\ \A q \in Partitions \ {p} :
           position'[q] = position[q] /\ committed'[q] = committed[q] /\ call'[q] = call[q]
<1>. HAVE HostTypeOK
<1>. TAKE p \in Partitions, o \in 0 .. LogLen
<1>. HAVE HandAt(p) /\ o >= position[p] /\ MoveTo(p, o)
<1>1. /\ position' = [position EXCEPT ![p] = o] /\ committed' = committed
      /\ call' = [call EXCEPT ![p] = NoCall]
  BY DEF MoveTo
<1>2. position'[p] = o /\ call'[p] = NoCall /\ committed'[p] = committed[p]
      /\ committed[p] <= position[p] /\ committed[p] \in Nat /\ position[p] \in Nat
  BY <1>1, DeliveryAssumption DEF HostTypeOK, HandAt
<1>3. NoCall \in [first : 0 .. LogLen, last : -1 .. LogLen - 1]
  BY DeliveryAssumption DEF NoCall
<1>4. HandAt(p)' /\ Idle(p)'
  BY <1>2 DEF HandAt, Idle
<1>. QED
  BY <1>1, <1>2, <1>3, <1>4 DEF HostTypeOK

\* Dead-lettering the head of a call.
LEMMA DeadLetterEffect ==
  HostTypeOK => \A p \in Partitions :
    HandAt(p) /\ ~Idle(p) /\ DeadLetterHead(p) /\ faults' \in 0 .. MaxFaults =>
      HostTypeOK' /\ HandAt(p)' /\ Idle(p)' /\ HostKeeps(p) /\ HeadDead(p)
<1>. HAVE HostTypeOK
<1>. TAKE p \in Partitions
<1>. HAVE HandAt(p) /\ ~Idle(p) /\ DeadLetterHead(p) /\ faults' \in 0 .. MaxFaults
<1>1. call[p].first = position[p] /\ position[p] \in Offsets /\ <<p, position[p]>> \in Records
  BY HostNumbers
<1>2. position[p] + 1 \in 0 .. LogLen /\ position[p] + 1 >= position[p] /\ position[p] \in Nat
  BY <1>1, DeliveryAssumption DEF Offsets
<1>3. MoveTo(p, position[p] + 1)
  BY <1>1 DEF DeadLetterHead
<1>4. traps' \in [Partitions -> 0 .. TrapLimit - 1]
  BY DeliveryAssumption DEF DeadLetterHead, HostTypeOK
<1>5. dlq' = [dlq EXCEPT ![<<p, position[p]>>] = @ + 1] /\ dlq \in [Records -> Nat]
  BY <1>1 DEF DeadLetterHead, HostTypeOK
<1>6. \A q \in Partitions, o \in Offsets :
        <<q, o>> \in Records /\ (<<q, o>> = <<p, position[p]>> <=> q = p /\ o = position[p])
  BY DEF Records
<1>. HIDE DEF Records
<1>7. dlq' \in [Records -> Nat]
      /\ \A r \in Records : dlq'[r] = IF r = <<p, position[p]>> THEN dlq[r] + 1 ELSE dlq[r]
  BY <1>1, <1>5
<1>8. \A q \in Partitions, o \in Offsets :
        dlq'[<<q, o>>] = IF q = p /\ o = position[p] THEN dlq[<<q, o>>] + 1 ELSE dlq[<<q, o>>]
  BY <1>6, <1>7
<1>9. /\ position' \in [Partitions -> 0 .. LogLen]
      /\ committed' \in [Partitions -> 0 .. LogLen]
      /\ call' \in [Partitions -> [first : 0 .. LogLen, last : -1 .. LogLen - 1]]
      /\ HandAt(p)' /\ Idle(p)' /\ position'[p] = position[p] + 1
      /\ \A q \in Partitions \ {p} :
           position'[q] = position[q] /\ committed'[q] = committed[q] /\ call'[q] = call[q]
  BY <1>2, <1>3, MoveEffect
<1>10. HostTypeOK'
  BY <1>4, <1>7, <1>9 DEF HostTypeOK
<1>. QED
  BY <1>8, <1>9, <1>10 DEF HostKeeps, HeadDead

\* The handler's answer.
LEMMA AnswerEffect ==
  HostTypeOK => \A p \in Partitions, v \in Verdicts : \A o \in Int :
    /\ HandAt(p) /\ ~Idle(p) /\ Answered(p, v, o) /\ faults' \in 0 .. MaxFaults
    /\ v = "through" => position[p] <= o + 1 /\ o <= call[p].last
    => /\ HostTypeOK' /\ HandAt(p)' /\ Idle(p)' /\ HostKeeps(p)
       /\ v = "all" => MovedTo(p, call[p].last + 1)
       /\ v = "through" => MovedTo(p, o + 1)
       /\ v = "transient" => MovedTo(p, position[p])
       /\ v = "permanent" => HeadDead(p)
<1>. HAVE HostTypeOK
<1>. TAKE p \in Partitions, v \in Verdicts
<1>. TAKE o \in Int
<1>. HAVE /\ HandAt(p) /\ ~Idle(p) /\ Answered(p, v, o) /\ faults' \in 0 .. MaxFaults
          /\ v = "through" => position[p] <= o + 1 /\ o <= call[p].last
<1>1. /\ call[p].first = position[p] /\ position[p] \in 0 .. LogLen /\ position[p] \in Int
      /\ call[p].last + 1 \in 0 .. LogLen /\ call[p].last + 1 >= position[p]
      /\ v = "through" => o + 1 \in 0 .. LogLen
  <2>1. /\ call[p].first = position[p] /\ position[p] \in Offsets /\ call[p].last \in Offsets
        /\ position[p] <= call[p].last
    BY HostNumbers
  <2>. QED
    BY <2>1, DeliveryAssumption DEF Offsets
<1>2. CASE v = "permanent"
  <2>1. DeadLetterHead(p)
    BY <1>2 DEF Answered
  <2>. QED
    BY <1>2, <2>1, DeadLetterEffect
<1>3. CASE v # "permanent"
  <2>. DEFINE to == IF v = "all" THEN call[p].last + 1
                    ELSE IF v = "through" THEN o + 1 ELSE position[p]
  <2>1. /\ to \in 0 .. LogLen /\ to >= position[p]
    BY <1>1
  <2>2. MoveTo(p, to) /\ dlq' = dlq /\ traps' \in {traps, [traps EXCEPT ![p] = 0]}
    BY <1>1, <1>3 DEF Answered, Verdicts
  <2>. HIDE DEF to
  <2>3. traps' \in [Partitions -> 0 .. TrapLimit - 1]
    <3>1. traps \in [Partitions -> 0 .. TrapLimit - 1] /\ 0 \in 0 .. TrapLimit - 1
      BY DeliveryAssumption DEF HostTypeOK
    <3>. QED
      BY <2>2, <3>1
  <2>4. /\ position' \in [Partitions -> 0 .. LogLen]
        /\ committed' \in [Partitions -> 0 .. LogLen]
        /\ call' \in [Partitions -> [first : 0 .. LogLen, last : -1 .. LogLen - 1]]
        /\ HandAt(p)' /\ Idle(p)' /\ position'[p] = to
        /\ \A q \in Partitions \ {p} :
             position'[q] = position[q] /\ committed'[q] = committed[q] /\ call'[q] = call[q]
    BY <2>1, <2>2, MoveEffect
  <2>5. HostTypeOK' /\ HostKeeps(p) /\ MovedTo(p, to)
    BY <2>2, <2>3, <2>4 DEF HostTypeOK, HostKeeps, MovedTo
  <2>. QED
    BY <1>3, <2>4, <2>5 DEF to
<1>. QED
  BY <1>2, <1>3

\* A trap: the head is tried again, or given up.
LEMMA TrapEffect ==
  HostTypeOK => \A p \in Partitions :
    HandAt(p) /\ ~Idle(p) /\ Trapped(p) /\ faults' \in 0 .. MaxFaults =>
      /\ HostTypeOK' /\ HandAt(p)' /\ Idle(p)' /\ HostKeeps(p)
      /\ MovedTo(p, position[p]) \/ HeadDead(p)
<1>. HAVE HostTypeOK
<1>. TAKE p \in Partitions
<1>. HAVE HandAt(p) /\ ~Idle(p) /\ Trapped(p) /\ faults' \in 0 .. MaxFaults
<1>1. CASE DeadLetterHead(p)
  BY <1>1, DeadLetterEffect
<1>2. CASE /\ traps[p] + 1 # TrapLimit
           /\ traps' = [traps EXCEPT ![p] = @ + 1]
           /\ MoveTo(p, call[p].first)
           /\ UNCHANGED dlq
  <2>1. call[p].first = position[p] /\ position[p] \in 0 .. LogLen /\ position[p] >= position[p]
    BY HostNumbers DEF HostTypeOK
  <2>2. traps' \in [Partitions -> 0 .. TrapLimit - 1]
    <3>1. /\ traps \in [Partitions -> 0 .. TrapLimit - 1]
          /\ traps[p] \in 0 .. TrapLimit - 1
      BY DEF HostTypeOK
    <3>2. traps[p] + 1 \in 0 .. TrapLimit - 1
      BY <1>2, <3>1, DeliveryAssumption
    <3>. QED
      BY <1>2, <3>1, <3>2
  <2>3. /\ position' \in [Partitions -> 0 .. LogLen]
        /\ committed' \in [Partitions -> 0 .. LogLen]
        /\ call' \in [Partitions -> [first : 0 .. LogLen, last : -1 .. LogLen - 1]]
        /\ HandAt(p)' /\ Idle(p)' /\ position'[p] = position[p]
        /\ \A q \in Partitions \ {p} :
             position'[q] = position[q] /\ committed'[q] = committed[q] /\ call'[q] = call[q]
    BY <1>2, <2>1, MoveEffect
  <2>. QED
    BY <1>2, <2>2, <2>3 DEF HostTypeOK, HostKeeps, MovedTo
<1>. QED
  BY <1>1, <1>2 DEF Trapped

\* A commit.
LEMMA CommitEffect ==
  HostTypeOK => \A p \in Partitions :
    HandAt(p) /\ CommitPosition(p) /\ faults' = faults =>
      /\ HostTypeOK' /\ HandAt(p)' /\ HostKeeps(p) /\ MovedTo(p, position[p])
      /\ call' = call /\ (Idle(p)' <=> Idle(p))
<1>. HAVE HostTypeOK
<1>. TAKE p \in Partitions
<1>. HAVE HandAt(p) /\ CommitPosition(p) /\ faults' = faults
<1>1. /\ committed' = [committed EXCEPT ![p] = position[p]]
      /\ UNCHANGED <<position, call, traps, dlq>>
  BY DEF CommitPosition
<1>2. committed'[p] = position[p] /\ position[p] \in Nat
  BY <1>1, DeliveryAssumption DEF HostTypeOK
<1>3. HandAt(p)'
  BY <1>1, <1>2 DEF HandAt, Idle
<1>4. HostTypeOK'
  BY <1>1 DEF HostTypeOK
<1>. QED
  BY <1>1, <1>3, <1>4 DEF HostKeeps, MovedTo, HostTypeOK, Idle

\* A restart goes back to what is committed.
LEMMA RestartEffect ==
  HostTypeOK /\ HostRestarts /\ faults' \in 0 .. MaxFaults =>
    /\ HostTypeOK' /\ position' = committed /\ dlq' = dlq
    /\ \A p \in Partitions : HandAt(p)' /\ Idle(p)'
<1>. HAVE HostTypeOK /\ HostRestarts /\ faults' \in 0 .. MaxFaults
<1>1. HostTypeOK'
  BY DeliveryAssumption DEF HostTypeOK, HostRestarts, NoCall
<1>2. \A p \in Partitions : Idle(p)' /\ committed'[p] = position'[p] /\ position'[p] \in Nat
  BY DeliveryAssumption DEF HostTypeOK, HostRestarts, Idle
<1>. QED
  BY <1>1, <1>2 DEF HostRestarts, HandAt

-----------------------------------------------------------------------------
(***************************************************************************)
(* ST-05.  A step is about one partition, or a restart of all: the parts   *)
(* of the invariant that are about the others hold because nothing of      *)
(* theirs changes.                                                         *)
(***************************************************************************)

\* A step of partition p leaves the other partitions of ST-05 alone.
Others(p) ==
  /\ HostKeeps(p) /\ log' = log /\ faults \in Nat /\ faults' \in {faults, faults + 1}
  /\ \A q \in Partitions \ {p} :
       /\ work'[q] = work[q] /\ folded'[q] = folded[q] /\ missed'[q] = missed[q]
       /\ \A o \in Offsets : results'[<<q, o>>] = results[<<q, o>>]

\* Being settled, record by record.
LEMMA SettledDef ==
  \A p \in Partitions, o \in Offsets :
    <<p, o>> \in Settled <=>
      \/ log[<<p, o>>] = Tombstone \/ dlq[<<p, o>>] > 0
      \/ log[<<p, o>>] \in Presses /\ results[<<p, o>>] # {}
BY DEF Settled, Samples, Records

\* The same after a step.
LEMMA SettledDefNext ==
  \A p \in Partitions, o \in Offsets :
    <<p, o>> \in Settled' <=>
      \/ log'[<<p, o>>] = Tombstone \/ dlq'[<<p, o>>] > 0
      \/ log'[<<p, o>>] \in Presses /\ results'[<<p, o>>] # {}
BY DEF Settled, Samples, Records

\* What is owed is finite, and more of it the further one looks.
LEMMA OwedType ==
  \A p \in Partitions : \A m, n \in Int :
    /\ IsFiniteSet(Owed(p, n)) /\ Cardinality(Owed(p, n)) \in Nat
    /\ m <= n => Cardinality(Owed(p, m)) <= Cardinality(Owed(p, n))
<1>. TAKE p \in Partitions
<1>. TAKE m, n \in Int
<1>1. Owed(p, n) \subseteq 0 .. n - 1
  BY DEF Owed
<1>2. IsFiniteSet(0 .. n - 1)
  BY FS_Interval
<1>3. IsFiniteSet(Owed(p, n))
  BY <1>1, <1>2, FS_Subset
<1>4. m <= n => Owed(p, m) \subseteq Owed(p, n)
  BY DEF Owed
<1>. QED
  BY <1>3, <1>4, FS_Subset, FS_CardinalityType

\* A step that dead-letters nothing of p leaves what p owes.
LEMMA OwedKept ==
  \A p \in Partitions : \A n \in 0 .. LogLen :
    (\A o \in Offsets : dlq'[<<p, o>>] = dlq[<<p, o>>]) => Owed(p, n)' = Owed(p, n)
<1>. TAKE p \in Partitions
<1>. TAKE n \in 0 .. LogLen
<1>. HAVE \A o \in Offsets : dlq'[<<p, o>>] = dlq[<<p, o>>]
<1>1. \A o \in 0 .. n - 1 : o \in Offsets
  BY DeliveryAssumption DEF Offsets
<1>. QED
  BY <1>1 DEF Owed

\* A dead letter is not owed: passing it leaves what is.
LEMMA OwedHeadDead ==
  HostTypeOK => \A p \in Partitions :
    position[p] \in Offsets /\ HeadDead(p) => Owed(p, position[p])' = Owed(p, position[p])
<1>. HAVE HostTypeOK
<1>. TAKE p \in Partitions
<1>. HAVE position[p] \in Offsets /\ HeadDead(p)
<1>1. \A o \in 0 .. position[p] : o \in Offsets /\ dlq[<<p, o>>] \in Nat
  <2>1. \A o \in 0 .. position[p] : o \in Offsets
    BY DeliveryAssumption DEF Offsets
  <2>. QED
    BY <2>1, HostNumbers
<1>2. position'[p] = position[p] + 1 /\ position[p] \in Nat
  BY DeliveryAssumption DEF HeadDead, Offsets
<1>3. \A o \in 0 .. position[p] :
        dlq'[<<p, o>>] = IF o = position[p] THEN dlq[<<p, o>>] + 1 ELSE dlq[<<p, o>>]
  BY <1>1 DEF HeadDead
<1>4. \A o : o \in 0 .. position[p] + 1 - 1 /\ dlq'[<<p, o>>] = 0
               <=> o \in 0 .. position[p] - 1 /\ dlq[<<p, o>>] = 0
  BY <1>1, <1>2, <1>3
<1>5. Owed(p, position[p])' = {o \in 0 .. position[p] + 1 - 1 : dlq'[<<p, o>>] = 0}
  BY <1>2 DEF Owed
<1>. QED
  BY <1>4, <1>5 DEF Owed

\* How far a partition of ST-05 is done with and counted, in numbers.
LEMMA WorkNumbers ==
  TypeOK => \A p \in Partitions :
    /\ work[p].at \in Int /\ folded[p].consumed \in Nat /\ missed[p] \in BOOLEAN
    /\ CallAt(p) => /\ Handled(p) \in 0 .. LogLen /\ Reported(p) \in 0 .. LogLen
                    /\ Handled(p) >= position[p] /\ Reported(p) >= position[p]
                    /\ ~Idle(p) =>
                         /\ work[p].at \in position[p] .. call[p].last + 1
                         /\ work[p].at \in 0 .. LogLen
<1>. HAVE TypeOK
<1>. TAKE p \in Partitions
<1>1. work[p].at \in 0 .. LogLen /\ folded[p].consumed \in Nat /\ missed[p] \in BOOLEAN
  BY DEF TypeOK
<1>2. ASSUME CallAt(p), ~Idle(p)
      PROVE  work[p].at \in position[p] .. call[p].last + 1
  <2>1. call[p].first = position[p]
    BY <1>2, HostNumbers DEF CallAt, TypeOK
  <2>. QED
    BY <1>2, <2>1 DEF CallAt
<1>3. position[p] \in 0 .. LogLen /\ (Idle(p) <=> work[p].pc = "idle")
  BY DEF TypeOK, HostTypeOK
<1>4. ASSUME CallAt(p) PROVE ~Idle(p) => call[p].last \in Nat
  BY <1>4, HostNumbers DEF CallAt, TypeOK
<1>. QED
  BY <1>1, <1>2, <1>3, <1>4, DeliveryAssumption DEF Handled, Reported

\* The others keep their part of the invariant.
LEMMA OthersKeep ==
  TypeOK => \A p \in Partitions : Others(p) =>
    \A q \in Partitions \ {p} : PartInv(q) => PartInv(q)'
<1>. HAVE TypeOK
<1>. TAKE p \in Partitions
<1>. HAVE Others(p)
<1>. TAKE q \in Partitions \ {p}
<1>. HAVE PartInv(q)
<1>1. /\ position'[q] = position[q] /\ committed'[q] = committed[q] /\ call'[q] = call[q]
      /\ work'[q] = work[q] /\ folded'[q] = folded[q] /\ missed'[q] = missed[q] /\ log' = log
      /\ \A o \in Offsets : dlq'[<<q, o>>] = dlq[<<q, o>>] /\ results'[<<q, o>>] = results[<<q, o>>]
      /\ faults' = 0 => faults = 0
  BY DEF Others, HostKeeps
<1>2. CallAt(q)'
  BY <1>1 DEF PartInv, CallAt, HandAt, Idle
<1>3. Handled(q)' = Handled(q) /\ Reported(q)' = Reported(q)
  BY <1>1 DEF Handled, Reported
<1>4. SettledAt(q)'
  <2>1. \A o \in Offsets : <<q, o>> \in Settled' <=> <<q, o>> \in Settled
    BY <1>1, SettledDef, SettledDefNext
  <2>. QED
    BY <1>3, <2>1 DEF PartInv, SettledAt
<1>5. OnceAt(q)'
  BY <1>1, <1>3 DEF PartInv, OnceAt
<1>6. CountAt(q)'
  <2>1. Reported(q) \in 0 .. LogLen
    BY WorkNumbers DEF PartInv
  <2>2. Owed(q, Reported(q))' = Owed(q, Reported(q))
    <3>. DEFINE n == Reported(q)
    <3>1. Owed(q, Reported(q))' = {o \in 0 .. n - 1 : dlq'[<<q, o>>] = 0}
      BY <1>3 DEF Owed
    <3>2. \A o \in 0 .. n - 1 : o \in Offsets
      BY <2>1, DeliveryAssumption DEF Offsets
    <3>. QED
      BY <1>1, <3>1, <3>2 DEF Owed
  <2>. QED
    BY <1>1, <2>2 DEF PartInv, CountAt
<1>. QED
  BY <1>2, <1>4, <1>5, <1>6 DEF PartInv

\* A non-empty set of naturals has a least element.
LEMMA LeastNat ==
  ASSUME NEW T \in SUBSET Nat, T # {}
  PROVE  \E n \in T : \A m \in T : n <= m
<1>. DEFINE R == OpToRel(<, Nat)
<1>1. \E n \in T : \A m \in T : ~(<<m, n>> \in R)
  <2>1. IsWellFoundedOn(R, Nat)
    BY NatLessThanWellFounded
  <2>. HIDE DEF R
  <2>. QED
    BY <2>1, WFMin
<1>2. PICK n \in T : \A m \in T : ~(<<m, n>> \in R)
  BY <1>1
<1>3. ASSUME NEW m \in T PROVE n <= m
  <2>1. m \in Nat /\ n \in Nat /\ (<<m, n>> \in R <=> m < n)
    BY DEF OpToRel
  <2>. HIDE DEF R
  <2>. QED
    BY <1>2, <2>1
<1>. QED
  BY <1>3

\* A loop over a batch stops at the first record of a kind, or behind the batch.
LEMMA FirstOf ==
  ASSUME NEW first \in Nat, NEW last \in Nat, first <= last, NEW B
  PROVE  \E at \in first .. last + 1 :
           /\ at = last + 1 \/ at \in B
           /\ \A o \in first .. at - 1 : o \notin B
<1>. DEFINE T == {n \in first .. last + 1 : n = last + 1 \/ n \in B}
<1>1. PICK at \in T : \A m \in T : at <= m
  <2>1. T \in SUBSET Nat /\ last + 1 \in T
    OBVIOUS
  <2>. HIDE DEF T
  <2>. QED
    BY <2>1, LeastNat
<1>2. ASSUME NEW o \in first .. at - 1 PROVE o \notin B
  <2>1. o \in first .. last + 1 /\ ~(at <= o)
    OBVIOUS
  <2>. QED
    BY <1>1, <2>1
<1>. QED
  BY <1>2

\* Where ST-05's loop stops.
LEMMA StopsAtFact ==
  \A p \in Partitions : \A first, last \in Nat : first <= last =>
    /\ StopsAt(p, first, last) \in first .. last + 1
    /\ \/ StopsAt(p, first, last) = last + 1
       \/ log[<<p, StopsAt(p, first, last)>>] = Malformed
    /\ \A o \in first .. StopsAt(p, first, last) - 1 : log[<<p, o>>] # Malformed
<1>. TAKE p \in Partitions
<1>. TAKE first, last \in Nat
<1>. HAVE first <= last
<1>. DEFINE B == {o \in first .. last + 1 : log[<<p, o>>] = Malformed}
            F(at) == /\ at = last + 1 \/ log[<<p, at>>] = Malformed
                     /\ \A o \in first .. at - 1 : log[<<p, o>>] # Malformed
<1>1. PICK at \in first .. last + 1 :
        (at = last + 1 \/ at \in B) /\ \A o \in first .. at - 1 : o \notin B
  <2>. HIDE DEF B
  <2>. QED
    BY FirstOf
<1>2. \A o \in first .. at - 1 : o \in first .. last + 1
  OBVIOUS
<1>3. F(at)
  BY <1>1, <1>2
<1>4. StopsAt(p, first, last) = CHOOSE x \in first .. last + 1 : F(x)
  BY DEF StopsAt
<1>. HIDE DEF F
<1>5. StopsAt(p, first, last) \in first .. last + 1 /\ F(StopsAt(p, first, last))
  BY <1>3, <1>4
<1>. QED
  BY <1>5 DEF F

\* The types of ST-05's own state.
WorkType == [Partitions -> [pc : {"idle", "profiles", "metrics", "answer"}, at : 0 .. LogLen]]
ResultsType == [Records -> SUBSET SUBSET Offsets]
FoldedType == [Partitions -> [hw : {-1}, consumed : Nat, redelivered : {0}]]

\* A step of one partition keeps the types if it keeps its own.
LEMMA TypeStep ==
  TypeOK => \A p \in Partitions :
    /\ HostTypeOK' /\ Others(p)
    /\ work' \in WorkType /\ results' \in ResultsType /\ folded' \in FoldedType
    /\ missed' \in [Partitions -> BOOLEAN]
    /\ Idle(p)' <=> work'[p].pc = "idle"
    /\ Idle(p)' => work'[p] = NoWork
    => TypeOK'
<1>. HAVE TypeOK
<1>. TAKE p \in Partitions
<1>. HAVE /\ HostTypeOK' /\ Others(p)
          /\ work' \in WorkType /\ results' \in ResultsType /\ folded' \in FoldedType
          /\ missed' \in [Partitions -> BOOLEAN]
          /\ Idle(p)' <=> work'[p].pc = "idle"
          /\ Idle(p)' => work'[p] = NoWork
<1>1. \A q \in Partitions \ {p} :
        /\ Idle(q)' <=> work'[q].pc = "idle"
        /\ Idle(q)' => work'[q] = NoWork
  BY DEF Others, HostKeeps, Idle, TypeOK
<1>2. log' \in [Records -> Kinds]
  BY DEF Others, TypeOK
<1>. QED
  BY <1>1, <1>2 DEF TypeOK, WorkType, ResultsType, FoldedType

\* Publishing windows adds to each of the partition's samples those it is in.
LEMMA PublishEffect ==
  TypeOK => \A p \in Partitions : \A W \in SUBSET SUBSET Offsets : Publish(p, W) =>
    /\ results' \in ResultsType
    /\ \A q \in Partitions \ {p}, o \in Offsets : results'[<<q, o>>] = results[<<q, o>>]
    /\ \A o \in Offsets : results'[<<p, o>>] = results[<<p, o>>] \cup {w \in W : o \in w}
<1>. HAVE TypeOK
<1>. TAKE p \in Partitions
<1>. TAKE W \in SUBSET SUBSET Offsets
<1>. HAVE Publish(p, W)
<1>1. \A q \in Partitions, o \in Offsets :
        <<q, o>> \in Records /\ <<q, o>>[1] = q /\ <<q, o>>[2] = o
  BY DEF Records
<1>2. results' = [r \in Records |->
        results[r] \cup IF r[1] = p THEN {w \in W : r[2] \in w} ELSE {}]
  BY DEF Publish
<1>. HIDE DEF Records
<1>3. results' \in ResultsType
  BY <1>2 DEF TypeOK, ResultsType
<1>. QED
  BY <1>1, <1>2, <1>3

\* A window of a call in hand is of offsets, and a sample is in the one of its press.
LEMMA WindowsFact ==
  TypeOK => \A p \in Partitions : CallAt(p) /\ ~Idle(p) =>
    /\ Windows(p) \in SUBSET SUBSET Offsets
    /\ \A w \in Windows(p) : \A o \in w : o >= position[p] /\ o < work[p].at
    /\ \A o \in Offsets :
         o >= position[p] /\ o < work[p].at /\ log[<<p, o>>] \in Presses =>
           \E w \in Windows(p) : {v \in Windows(p) : o \in v} = {w}
    /\ \A o \in Offsets : log[<<p, o>>] \notin Presses => {v \in Windows(p) : o \in v} = {}
<1>. HAVE TypeOK
<1>. TAKE p \in Partitions
<1>. HAVE CallAt(p) /\ ~Idle(p)
<1>. DEFINE Of(s) == {o \in call[p].first .. work[p].at - 1 : log[<<p, o>>] = s}
<1>1. call[p].first = position[p] /\ position[p] \in Nat /\ work[p].at \in 0 .. LogLen
  BY HostNumbers, WorkNumbers DEF TypeOK, CallAt
<1>2. Windows(p) = {Of(s) : s \in Presses} \ {{}}
  BY DEF Windows
<1>3. \A s \in Presses : Of(s) \in SUBSET Offsets
  BY <1>1, DeliveryAssumption DEF Offsets
<1>4. \A s \in Presses : \A o \in Of(s) : o >= position[p] /\ o < work[p].at /\ log[<<p, o>>] = s
  BY <1>1
<1>5. \A o \in Offsets : o >= position[p] /\ o < work[p].at => o \in Of(log[<<p, o>>])
  BY <1>1 DEF Offsets
<1>. HIDE DEF Of
<1>6. ASSUME NEW o \in Offsets, o >= position[p], o < work[p].at, log[<<p, o>>] \in Presses
      PROVE  \E w \in Windows(p) : {v \in Windows(p) : o \in v} = {w}
  <2>1. Of(log[<<p, o>>]) \in Windows(p) /\ o \in Of(log[<<p, o>>])
    BY <1>2, <1>5, <1>6
  <2>2. \A v \in Windows(p) : o \in v => v = Of(log[<<p, o>>])
    BY <1>2, <1>4
  <2>3. {v \in Windows(p) : o \in v} = {Of(log[<<p, o>>])}
    BY <2>1, <2>2
  <2>. QED
    BY <2>1, <2>3
<1>7. \A o \in Offsets : log[<<p, o>>] \notin Presses => {v \in Windows(p) : o \in v} = {}
  BY <1>2, <1>4
<1>8. Windows(p) \in SUBSET SUBSET Offsets
  BY <1>2, <1>3
<1>9. \A w \in Windows(p) : \A o \in w : o >= position[p] /\ o < work[p].at
  BY <1>2, <1>4
<1>. QED
  BY <1>6, <1>7, <1>8, <1>9

\* Nothing of p is taken back.
Forward(p) ==
  /\ position[p] <= position'[p]
  /\ \A o \in Offsets : /\ dlq[<<p, o>>] > 0 => dlq'[<<p, o>>] > 0
                        /\ results[<<p, o>>] \subseteq results'[<<p, o>>]

\* What is shown of each step of a partition.
Keeps(p) == TypeOK' /\ Others(p) /\ PartInv(p)' /\ Forward(p)

\* The loop.
LEMMA HandleKeeps == TypeOK => \A p \in Partitions : PartInv(p) /\ Handle(p) => Keeps(p)
<1>. HAVE TypeOK
<1>. TAKE p \in Partitions
<1>. HAVE PartInv(p) /\ Handle(p)
<1>1. PICK last \in Offsets :
        /\ Hand(p, last)
        /\ work' = [work EXCEPT ![p] = [pc |-> "profiles", at |-> StopsAt(p, position[p], last)]]
  BY DEF Handle
<1>2. log' = log /\ results' = results /\ folded' = folded /\ missed' = missed /\ faults' = faults
  BY DEF Handle
<1>3. /\ HostTypeOK' /\ HandAt(p)' /\ ~Idle(p)' /\ HostKeeps(p) /\ MovedTo(p, position[p])
      /\ call'[p] = [first |-> position[p], last |-> last] /\ position[p] <= last
  BY <1>1, <1>2, HandEffect DEF TypeOK, PartInv, CallAt
<1>4. position[p] \in Nat /\ last \in Nat /\ last + 1 <= LogLen
  BY DeliveryAssumption DEF TypeOK, HostTypeOK, Offsets
<1>. DEFINE at == StopsAt(p, position[p], last)
<1>5. /\ at \in position[p] .. last + 1 /\ (at = last + 1 \/ log[<<p, at>>] = Malformed)
      /\ \A o \in position[p] .. at - 1 : log[<<p, o>>] # Malformed
  BY <1>3, <1>4, StopsAtFact
<1>. HIDE DEF at
<1>6. at \in 0 .. LogLen
  BY <1>4, <1>5, DeliveryAssumption
<1>7. /\ work'[p] = [pc |-> "profiles", at |-> at] /\ work' \in WorkType
      /\ \A q \in Partitions \ {p} : work'[q] = work[q]
  BY <1>1, <1>6 DEF TypeOK, WorkType, at
<1>8. Others(p)
  BY <1>2, <1>3, <1>7 DEF Others, TypeOK, HostTypeOK
<1>9. TypeOK'
  BY <1>2, <1>3, <1>7, <1>8, TypeStep DEF TypeOK, ResultsType, FoldedType
<1>10. CallAt(p)'
  BY <1>2, <1>3, <1>5, <1>7 DEF CallAt
<1>11. /\ work[p] = NoWork /\ Handled(p) = position[p] /\ Reported(p) = position[p]
       /\ Handled(p)' = position[p] /\ Reported(p)' = position[p]
       /\ position'[p] = position[p] /\ \A o \in Offsets : dlq'[<<p, o>>] = dlq[<<p, o>>]
  <2>1. Idle(p)
    BY <1>1 DEF Hand
  <2>2. work[p] = NoWork
    BY <2>1 DEF TypeOK
  <2>. QED
    BY <1>3, <1>7, <2>2 DEF Handled, Reported, NoWork, MovedTo
<1>12. SettledAt(p)'
  <2>1. \A o \in Offsets : <<p, o>> \in Settled' <=> <<p, o>> \in Settled
    BY <1>2, <1>11, SettledDef, SettledDefNext
  <2>. QED
    BY <1>11, <2>1 DEF SettledAt, PartInv
<1>13. OnceAt(p)'
  BY <1>2, <1>11 DEF OnceAt, PartInv
<1>14. Owed(p, Reported(p))' = Owed(p, Reported(p))
  <2>1. \A o \in 0 .. position[p] - 1 : o \in Offsets
    BY <1>4, DeliveryAssumption DEF Offsets, TypeOK, HostTypeOK
  <2>. QED
    BY <1>11, <2>1 DEF Owed
<1>15. CountAt(p)'
  BY <1>2, <1>14 DEF CountAt, PartInv
<1>16. Forward(p)
  BY <1>2, <1>4, <1>11 DEF Forward
<1>. QED
  BY <1>8, <1>9, <1>10, <1>12, <1>13, <1>15, <1>16 DEF Keeps, PartInv

\* The summaries are all on mold.profile.
LEMMA SendProfilesKeeps ==
  TypeOK => \A p \in Partitions : PartInv(p) /\ SendProfiles(p) => Keeps(p)
<1>. HAVE TypeOK
<1>. TAKE p \in Partitions
<1>. HAVE PartInv(p) /\ SendProfiles(p)
<1>1. /\ work[p].pc = "profiles" /\ Publish(p, Windows(p))
      /\ work' = [work EXCEPT ![p].pc = "metrics"]
      /\ UNCHANGED <<log, position, committed, call, traps, dlq, folded, missed, faults>>
  BY DEF SendProfiles, host
<1>2. ~Idle(p) /\ CallAt(p) /\ HandAt(p)
  BY <1>1 DEF TypeOK, PartInv, CallAt
<1>3. /\ Windows(p) \in SUBSET SUBSET Offsets
      /\ \A w \in Windows(p) : \A o \in w : o >= position[p] /\ o < work[p].at
      /\ \A o \in Offsets :
           o >= position[p] /\ o < work[p].at /\ log[<<p, o>>] \in Presses =>
             \E w \in Windows(p) : {v \in Windows(p) : o \in v} = {w}
  BY <1>2, WindowsFact
<1>4. /\ results' \in ResultsType
      /\ \A q \in Partitions \ {p}, o \in Offsets : results'[<<q, o>>] = results[<<q, o>>]
      /\ \A o \in Offsets : results'[<<p, o>>] = results[<<p, o>>] \cup {w \in Windows(p) : o \in w}
  BY <1>1, <1>3, PublishEffect
<1>5. /\ work'[p] = [work[p] EXCEPT !.pc = "metrics"] /\ work' \in WorkType
      /\ work'[p].pc = "metrics" /\ work'[p].at = work[p].at
      /\ \A q \in Partitions \ {p} : work'[q] = work[q]
  BY <1>1 DEF TypeOK, WorkType
<1>6. HostTypeOK' /\ HostKeeps(p) /\ Others(p) /\ ~Idle(p)'
  BY <1>1, <1>2, <1>4, <1>5 DEF Others, HostKeeps, TypeOK, HostTypeOK, Idle
<1>7. TypeOK'
  BY <1>1, <1>4, <1>5, <1>6, TypeStep DEF TypeOK, FoldedType
<1>8. CallAt(p)'
  BY <1>1, <1>2, <1>5 DEF CallAt, HandAt, Idle
<1>9. /\ Handled(p) = position[p] /\ Reported(p) = position[p]
      /\ Handled(p)' = work[p].at /\ Reported(p)' = position[p]
      /\ position[p] \in Nat /\ work[p].at \in Nat /\ work[p].at >= position[p]
      /\ call[p].first = position[p]
  <2>1. work[p].at \in position[p] .. call[p].last + 1 /\ position[p] \in Nat /\ call[p].first = position[p]
    BY <1>2, WorkNumbers, HostNumbers DEF TypeOK
  <2>. QED
    BY <1>1, <1>5, <2>1 DEF Handled, Reported
<1>10. SettledAt(p)'
  <2>. SUFFICES ASSUME NEW o \in Offsets, o < work[p].at PROVE <<p, o>> \in Settled'
    BY <1>9 DEF SettledAt
  <2>0. o \in Nat
    BY DEF Offsets
  <2>1. CASE o < position[p]
    <3>1. <<p, o>> \in Settled
      BY <1>9, <2>1 DEF PartInv, SettledAt
    <3>. QED
      BY <1>1, <1>4, <3>1, SettledDef, SettledDefNext
  <2>2. CASE o >= position[p]
    <3>1. log[<<p, o>>] # Malformed /\ log[<<p, o>>] \in Kinds
      <4>1. o \in call[p].first .. work[p].at - 1
        BY <1>9, <2>0, <2>2
      <4>. QED
        BY <1>2, <4>1, HostNumbers DEF CallAt, TypeOK
    <3>2. CASE log[<<p, o>>] = Tombstone
      BY <1>1, <3>2, SettledDefNext
    <3>3. CASE log[<<p, o>>] \in Presses
      <4>1. results'[<<p, o>>] # {}
        BY <1>3, <1>4, <2>2, <3>3
      <4>. QED
        BY <1>1, <3>3, <4>1, SettledDefNext
    <3>. QED
      BY <3>1, <3>2, <3>3 DEF Kinds
  <2>. QED
    BY <2>0, <2>1, <2>2, <1>9
<1>11. OnceAt(p)'
  <2>. SUFFICES ASSUME faults = 0, NEW o \in Offsets
                PROVE  /\ Cardinality(results'[<<p, o>>]) <= 1
                       /\ o >= work[p].at => results'[<<p, o>>] = {}
    BY <1>1, <1>9 DEF OnceAt, PartInv
  <2>0. o \in Nat
    BY DEF Offsets
  <2>1. /\ Cardinality(results[<<p, o>>]) <= 1
        /\ o >= position[p] => results[<<p, o>>] = {}
    BY <1>9 DEF PartInv, OnceAt
  <2>2. CASE {w \in Windows(p) : o \in w} = {}
    <3>1. results'[<<p, o>>] = results[<<p, o>>]
      BY <1>4, <2>2
    <3>. QED
      BY <1>9, <2>0, <2>1, <3>1
  <2>3. CASE {w \in Windows(p) : o \in w} # {}
    <3>1. o >= position[p] /\ o < work[p].at
      BY <1>3, <2>3
    <3>2. log[<<p, o>>] \in Presses
      BY <1>2, <2>3, WindowsFact
    <3>3. PICK w \in Windows(p) : {v \in Windows(p) : o \in v} = {w}
      BY <1>3, <3>1, <3>2
    <3>4. results'[<<p, o>>] = {w}
      BY <1>4, <2>1, <3>1, <3>3
    <3>. QED
      BY <1>9, <2>0, <3>1, <3>4, FS_Singleton
  <2>. QED
    BY <2>2, <2>3
<1>12. Owed(p, Reported(p))' = Owed(p, Reported(p))
  BY <1>1, <1>9 DEF Owed
<1>13. CountAt(p)'
  BY <1>1, <1>12 DEF CountAt, PartInv
<1>14. Forward(p)
  BY <1>1, <1>4, <1>9 DEF Forward
<1>. QED
  BY <1>6, <1>7, <1>8, <1>10, <1>11, <1>13, <1>14 DEF Keeps, PartInv

\* How a call of partition p can end: a failure behind the position it
\* had, the head given up, or all that was handled.
EndsWith(p) ==
  \/ MovedTo(p, position[p]) /\ faults' = faults + 1
  \/ /\ HeadDead(p)
     /\ \/ faults' = faults + 1
        \/ /\ work[p].pc = "answer" /\ work[p].at = position[p]
           /\ log[<<p, position[p]>>] = Malformed
  \/ MovedTo(p, work[p].at) /\ work[p].pc = "answer"

CallOver(p) ==
  /\ HostTypeOK' /\ HandAt(p)' /\ Idle(p)' /\ HostKeeps(p)
  /\ UNCHANGED <<log, folded, missed>>
  /\ faults' \in {faults, faults + 1} /\ (faults' = faults => results' = results)
  /\ \A q \in Partitions \ {p}, o \in Offsets : results'[<<q, o>>] = results[<<q, o>>]
  /\ \A o \in Offsets : results[<<p, o>>] \subseteq results'[<<p, o>>]
  /\ EndsWith(p)

Ends(p) == CallOver(p) /\ work' = [work EXCEPT ![p] = NoWork] /\ results' \in ResultsType

\* The end of a call, however it comes.
LEMMA EndKeeps == TypeOK => \A p \in Partitions : PartInv(p) /\ ~Idle(p) /\ Ends(p) => Keeps(p)
<1>. HAVE TypeOK
<1>. TAKE p \in Partitions
<1>. HAVE PartInv(p) /\ ~Idle(p) /\ Ends(p)
<1>1. /\ work'[p] = NoWork /\ work' \in WorkType
      /\ \A q \in Partitions \ {p} : work'[q] = work[q]
  <2>1. NoWork \in [pc : {"idle", "profiles", "metrics", "answer"}, at : 0 .. LogLen]
    BY DeliveryAssumption DEF NoWork
  <2>. QED
    BY <2>1 DEF Ends, CallOver, TypeOK, WorkType
<1>2. faults \in Nat /\ faults + 1 # faults /\ faults + 1 # 0
  BY DeliveryAssumption DEF TypeOK, HostTypeOK
<1>3. Others(p)
  BY <1>1, <1>2 DEF Ends, CallOver, Others
<1>4. TypeOK'
  BY <1>1, <1>3, TypeStep DEF Ends, CallOver, TypeOK, FoldedType, NoWork
<1>5. CallAt(p)'
  BY DEF Ends, CallOver, CallAt
<1>6. /\ position[p] \in Nat /\ position[p] \in Offsets /\ work[p].at \in Int
      /\ work[p].at >= position[p] /\ work[p].at <= LogLen
      /\ Handled(p) \in Nat /\ Handled(p) >= position[p]
      /\ Reported(p) \in Nat /\ Reported(p) >= position[p]
      /\ work[p].pc = "answer" => Handled(p) = work[p].at /\ Reported(p) = work[p].at
      /\ Handled(p)' = position'[p] /\ Reported(p)' = position'[p] /\ position'[p] \in Nat
  <2>0. position'[p] \in Nat
    BY <1>4, DeliveryAssumption DEF TypeOK, HostTypeOK
  <2>1. position[p] \in Nat /\ position[p] \in Offsets
    BY HostNumbers DEF TypeOK, PartInv, CallAt
  <2>2. /\ Handled(p) \in 0 .. LogLen /\ Handled(p) >= position[p] /\ work[p].at \in 0 .. LogLen
        /\ Reported(p) \in 0 .. LogLen /\ Reported(p) >= position[p]
        /\ work[p].at \in position[p] .. call[p].last + 1
    BY WorkNumbers DEF PartInv
  <2>3. Handled(p)' = position'[p] /\ Reported(p)' = position'[p]
    BY <1>1 DEF Handled, Reported, NoWork
  <2>. QED
    BY <2>0, <2>1, <2>2, <2>3, DeliveryAssumption DEF Handled, Reported
<1>7. \A o \in Offsets : /\ dlq'[<<p, o>>] \in Nat /\ dlq[<<p, o>>] \in Nat /\ o \in Nat
                         /\ dlq'[<<p, o>>] >= dlq[<<p, o>>]
  <2>1. \A o \in Offsets : /\ dlq[<<p, o>>] \in Nat /\ o \in Nat
                           /\ dlq'[<<p, o>>] \in {dlq[<<p, o>>], dlq[<<p, o>>] + 1}
    BY HostNumbers DEF Ends, CallOver, EndsWith, MovedTo, HeadDead, TypeOK
  <2>. QED
    BY <2>1
<1>e. HeadDead(p) => \A o : ~MovedTo(p, o)
  <2>1. dlq[<<p, position[p]>>] + 1 # dlq[<<p, position[p]>>]
    BY <1>6, <1>7
  <2>. QED
    BY <1>6, <2>1 DEF HeadDead, MovedTo
<1>8. SettledAt(p)'
  <2>1. ASSUME NEW o \in Offsets, <<p, o>> \in Settled PROVE <<p, o>> \in Settled'
    BY <2>1, <1>7, SettledDef, SettledDefNext DEF Ends, CallOver
  <2>. SUFFICES ASSUME NEW o \in Offsets, o < position'[p] PROVE <<p, o>> \in Settled'
    BY <1>6 DEF SettledAt
  <2>2. o < Handled(p) => <<p, o>> \in Settled
    BY DEF PartInv, SettledAt
  <2>3. CASE position'[p] = position[p] + 1 /\ HeadDead(p)
    <3>1. CASE o = position[p]
      <4>1. dlq'[<<p, o>>] > 0
        BY <1>7, <2>3, <3>1 DEF HeadDead
      <4>. QED
        BY <4>1, SettledDefNext
    <3>2. CASE o # position[p]
      BY <1>6, <1>7, <2>1, <2>2, <2>3, <3>2
    <3>. QED
      BY <3>1, <3>2
  <2>4. CASE position'[p] <= Handled(p)
    BY <1>6, <1>7, <2>1, <2>2, <2>4 DEF Ends, CallOver, EndsWith, MovedTo
  <2>. QED
    BY <1>6, <2>3, <2>4 DEF Ends, CallOver, EndsWith, MovedTo, HeadDead
<1>9. OnceAt(p)'
  <2>. SUFFICES ASSUME faults' = 0, NEW o \in Offsets
                PROVE  /\ Cardinality(results'[<<p, o>>]) <= 1 /\ dlq'[<<p, o>>] <= 1
                       /\ o >= position'[p] => results'[<<p, o>>] = {}
                       /\ dlq'[<<p, o>>] > 0 => log'[<<p, o>>] = Malformed /\ o < position'[p]
    BY <1>6 DEF OnceAt
  <2>1. faults' = faults /\ results' = results /\ log' = log /\ faults = 0
    BY <1>2 DEF Ends, CallOver
  <2>2. /\ Cardinality(results[<<p, o>>]) <= 1 /\ dlq[<<p, o>>] <= 1
        /\ o >= Handled(p) => results[<<p, o>>] = {}
        /\ dlq[<<p, o>>] > 0 => log[<<p, o>>] = Malformed /\ o < position[p]
    BY <2>1 DEF PartInv, OnceAt
  <2>3. CASE HeadDead(p)
    <3>1. Handled(p) = position[p] /\ log[<<p, position[p]>>] = Malformed
      BY <1>2, <1>6, <1>e, <2>1, <2>3 DEF Ends, CallOver, EndsWith
    <3>2. /\ position'[p] = position[p] + 1
          /\ dlq'[<<p, o>>] = IF o = position[p] THEN dlq[<<p, o>>] + 1 ELSE dlq[<<p, o>>]
      BY <2>3 DEF HeadDead
    <3>. QED
      BY <1>6, <1>7, <2>1, <2>2, <3>1, <3>2
  <2>4. CASE MovedTo(p, work[p].at) /\ work[p].pc = "answer"
    BY <1>6, <1>7, <2>1, <2>2, <2>4 DEF MovedTo
  <2>. QED
    BY <1>2, <2>1, <2>3, <2>4 DEF Ends, CallOver, EndsWith
<1>10. CountAt(p)'
  <2>. DEFINE owed == Cardinality(Owed(p, Reported(p)))
              left == Cardinality(Owed(p, Reported(p)))'
  <2>1. /\ ~missed[p] => folded[p].consumed >= owed
        /\ faults = 0 => folded[p].consumed = owed
    BY DEF PartInv, CountAt
  <2>2. \A n \in 0 .. LogLen : n <= Reported(p) =>
          Cardinality(Owed(p, n)) <= owed /\ owed \in Nat /\ Cardinality(Owed(p, n)) \in Nat
    BY <1>6, OwedType
  <2>3. CASE HeadDead(p)
    <3>1. Owed(p, position[p])' = Owed(p, position[p])
      BY <1>6, <2>3, OwedHeadDead DEF TypeOK
    <3>2. Owed(p, Reported(p))' = Owed(p, position[p])
      BY <1>6, <3>1 DEF Owed
    <3>3. faults' = 0 => Reported(p) = position[p] /\ faults = 0
      BY <1>2, <1>6, <1>e, <2>3 DEF Ends, CallOver, EndsWith
    <3>4. left <= owed /\ (faults' = 0 => left = owed /\ faults = 0) /\ left \in Nat /\ owed \in Nat
      BY <1>6, <2>2, <3>2, <3>3, DeliveryAssumption DEF TypeOK, HostTypeOK
    <3>. HIDE DEF left, owed
    <3>5. /\ ~missed'[p] => folded'[p].consumed >= left
          /\ faults' = 0 => folded'[p].consumed = left
      BY <2>1, <3>4, WorkNumbers DEF Ends, CallOver
    <3>. QED
      BY <3>5 DEF CountAt, left
  <2>4. CASE ~HeadDead(p)
    <3>1. /\ \A o \in Offsets : dlq'[<<p, o>>] = dlq[<<p, o>>]
          /\ position'[p] <= Reported(p) /\ position'[p] \in 0 .. LogLen
          /\ faults' = 0 => position'[p] = Reported(p) /\ faults = 0
      BY <1>2, <1>4, <1>6, <2>4 DEF Ends, CallOver, EndsWith, MovedTo, TypeOK, HostTypeOK
    <3>. DEFINE n == position'[p]
    <3>2. Owed(p, Reported(p))' = Owed(p, n)
      <4>1. Owed(p, Reported(p))' = {o \in 0 .. n - 1 : dlq'[<<p, o>>] = 0}
        BY <1>6 DEF Owed
      <4>2. \A o \in 0 .. n - 1 : o \in Offsets
        BY <3>1, DeliveryAssumption DEF Offsets
      <4>. QED
        BY <3>1, <4>1, <4>2 DEF Owed
    <3>. HIDE DEF n
    <3>3. n \in 0 .. LogLen /\ n <= Reported(p) /\ (faults' = 0 => n = Reported(p) /\ faults = 0)
      BY <3>1 DEF n
    <3>4. left <= owed /\ (faults' = 0 => left = owed /\ faults = 0) /\ left \in Nat /\ owed \in Nat
      BY <2>2, <3>2, <3>3
    <3>. HIDE DEF left, owed
    <3>5. /\ ~missed'[p] => folded'[p].consumed >= left
          /\ faults' = 0 => folded'[p].consumed = left
      BY <2>1, <3>4, WorkNumbers DEF Ends, CallOver
    <3>. QED
      BY <3>5 DEF CountAt, left
  <2>. QED
    BY <2>3, <2>4
<1>11. Forward(p)
  <2>1. position[p] <= position'[p]
    BY <1>6 DEF Ends, CallOver, EndsWith, MovedTo, HeadDead
  <2>2. \A o \in Offsets : dlq[<<p, o>>] > 0 => dlq'[<<p, o>>] > 0
    BY <1>7
  <2>. QED
    BY <2>1, <2>2 DEF Forward, Ends, CallOver
<1>. QED
  BY <1>3, <1>4, <1>5, <1>8, <1>9, <1>10, <1>11 DEF Keeps, PartInv

\* A failed send of summaries, an answer and a trap each end the call.
LEMMA CallsEnd ==
  TypeOK => \A p \in Partitions : PartInv(p) =>
    /\ ProfilesFail(p) => ~Idle(p) /\ Ends(p)
    /\ Answer(p) => ~Idle(p) /\ Ends(p)
    /\ Trap(p) => ~Idle(p) /\ Ends(p)
<1>. HAVE TypeOK
<1>. TAKE p \in Partitions
<1>. HAVE PartInv(p)
<1>0. /\ HostTypeOK /\ HandAt(p) /\ faults \in Nat /\ results \in ResultsType
      /\ Fault => faults' = faults + 1 /\ faults' \in 0 .. MaxFaults
      /\ Idle(p) => work[p] = NoWork /\ work[p].pc = "idle"
      /\ "transient" \in Verdicts /\ Verdict(p) \in Verdicts
  BY DeliveryAssumption
     DEF PartInv, CallAt, TypeOK, HostTypeOK, Fault, ResultsType, Verdicts, Verdict
<1>1. ASSUME ProfilesFail(p) PROVE ~Idle(p) /\ Ends(p)
  <2>1. PICK kept \in SUBSET Windows(p) : Publish(p, kept)
    BY <1>1 DEF ProfilesFail
  <2>2. /\ work[p].pc = "profiles" /\ Fault /\ Answered(p, "transient", 0)
        /\ work' = [work EXCEPT ![p] = NoWork] /\ UNCHANGED <<log, folded, missed>>
    BY <1>1 DEF ProfilesFail
  <2>3. ~Idle(p) /\ kept \in SUBSET SUBSET Offsets
    <3>1. ~Idle(p)
      BY <1>0, <2>2
    <3>2. Windows(p) \in SUBSET SUBSET Offsets
      BY <3>1, WindowsFact DEF PartInv
    <3>. QED
      BY <2>1, <3>1, <3>2
  <2>4. /\ results' \in ResultsType
        /\ \A q \in Partitions \ {p}, o \in Offsets : results'[<<q, o>>] = results[<<q, o>>]
        /\ \A o \in Offsets : results[<<p, o>>] \subseteq results'[<<p, o>>]
    <3>1. \A o \in Offsets : results'[<<p, o>>] = results[<<p, o>>] \cup {w \in kept : o \in w}
      BY <2>1, <2>3, PublishEffect
    <3>. QED
      BY <2>1, <2>3, <3>1, PublishEffect
  <2>5. HostTypeOK' /\ HandAt(p)' /\ Idle(p)' /\ HostKeeps(p) /\ MovedTo(p, position[p])
    BY <1>0, <2>2, <2>3, AnswerEffect
  <2>. QED
    BY <1>0, <2>2, <2>3, <2>4, <2>5 DEF Ends, CallOver, EndsWith
<1>2. ASSUME Answer(p) PROVE ~Idle(p) /\ Ends(p)
  <2>1. /\ work[p].pc = "answer" /\ Answered(p, Verdict(p), work[p].at - 1)
        /\ work' = [work EXCEPT ![p] = NoWork]
        /\ UNCHANGED <<log, results, folded, missed, faults>>
    BY <1>2 DEF Answer
  <2>2. ~Idle(p)
    BY <1>0, <2>1
  <2>3. /\ work[p].at \in position[p] .. call[p].last + 1 /\ call[p].last \in Nat
        /\ position[p] \in Nat /\ call[p].first = position[p] /\ work[p].at \in Int
        /\ work[p].at = call[p].last + 1 \/ log[<<p, work[p].at>>] = Malformed
    BY <1>0, <2>2, WorkNumbers, HostNumbers DEF PartInv, CallAt
  <2>4. faults' \in 0 .. MaxFaults
    BY <2>1 DEF TypeOK, HostTypeOK
  <2>5. /\ Verdict(p) = "all" => work[p].at = call[p].last + 1
        /\ Verdict(p) = "permanent" => /\ work[p].at = position[p]
                                       /\ log[<<p, position[p]>>] = Malformed
        /\ Verdict(p) # "transient"
        /\ Verdict(p) = "through" =>
             position[p] <= work[p].at - 1 + 1 /\ work[p].at - 1 <= call[p].last
        /\ work[p].at - 1 \in Int /\ work[p].at - 1 + 1 = work[p].at
    BY <2>3 DEF Verdict
  <2>6. /\ HostTypeOK' /\ HandAt(p)' /\ Idle(p)' /\ HostKeeps(p)
        /\ Verdict(p) = "all" => MovedTo(p, call[p].last + 1)
        /\ Verdict(p) = "through" => MovedTo(p, work[p].at - 1 + 1)
        /\ Verdict(p) = "permanent" => HeadDead(p)
    <3>. DEFINE v == Verdict(p)
                o == work[p].at - 1
    <3>1. v \in Verdicts /\ o \in Int /\ Answered(p, v, o)
          /\ (v = "through" => position[p] <= o + 1 /\ o <= call[p].last)
      BY <1>0, <2>1, <2>5
    <3>. HIDE DEF v, o
    <3>2. /\ HostTypeOK' /\ HandAt(p)' /\ Idle(p)' /\ HostKeeps(p)
          /\ v = "all" => MovedTo(p, call[p].last + 1)
          /\ v = "through" => MovedTo(p, o + 1)
          /\ v = "permanent" => HeadDead(p)
      BY <1>0, <2>2, <2>4, <3>1, AnswerEffect
    <3>. QED
      BY <3>2 DEF v, o
  <2>7. EndsWith(p)
    BY <1>0, <2>1, <2>5, <2>6 DEF EndsWith, Verdicts
  <2>. QED
    BY <1>0, <2>1, <2>2, <2>6, <2>7 DEF Ends, CallOver
<1>3. ASSUME Trap(p) PROVE ~Idle(p) /\ Ends(p)
  <2>1. /\ work[p] # NoWork /\ Fault /\ Trapped(p)
        /\ work' = [work EXCEPT ![p] = NoWork]
        /\ UNCHANGED <<log, results, folded, missed>>
    BY <1>3 DEF Trap
  <2>2. ~Idle(p)
    BY <1>0, <2>1
  <2>3. /\ HostTypeOK' /\ HandAt(p)' /\ Idle(p)' /\ HostKeeps(p)
        /\ MovedTo(p, position[p]) \/ HeadDead(p)
    BY <1>0, <2>1, <2>2, TrapEffect
  <2>. QED
    BY <1>0, <2>1, <2>2, <2>3 DEF Ends, CallOver, EndsWith
<1>. QED
  BY <1>1, <1>2, <1>3

\* The metrics: counted on the dashboard, or lost.
LEMMA MetricsKeep ==
  TypeOK => \A p \in Partitions : PartInv(p) /\ (SendMetrics(p) \/ MetricsLost(p)) => Keeps(p)
<1>. HAVE TypeOK
<1>. TAKE p \in Partitions
<1>. HAVE PartInv(p) /\ (SendMetrics(p) \/ MetricsLost(p))
<1>1. /\ work[p].pc = "metrics" /\ work' = [work EXCEPT ![p].pc = "answer"]
      /\ UNCHANGED <<log, position, committed, call, traps, dlq, results>>
      /\ \/ /\ folded' = [folded EXCEPT ![p] = FoldUnranged(@, work[p].at - call[p].first)]
            /\ UNCHANGED <<missed, faults>>
         \/ Fault /\ missed' = [missed EXCEPT ![p] = TRUE] /\ folded' = folded
  BY DEF SendMetrics, MetricsLost, Miss, host
<1>2. ~Idle(p) /\ CallAt(p) /\ HandAt(p)
  BY <1>1 DEF TypeOK, PartInv, CallAt
<1>3. /\ work[p].at \in position[p] .. call[p].last + 1 /\ position[p] \in Nat
      /\ call[p].first = position[p] /\ work[p].at \in 0 .. LogLen /\ position[p] \in 0 .. LogLen
      /\ faults \in Nat /\ work[p].at - position[p] \in Nat /\ work[p].at \in Nat
  <2>1. /\ work[p].at \in position[p] .. call[p].last + 1 /\ position[p] \in Nat
        /\ call[p].first = position[p] /\ work[p].at \in 0 .. LogLen /\ position[p] \in 0 .. LogLen
        /\ faults \in Nat
    BY <1>2, WorkNumbers, HostNumbers, DeliveryAssumption DEF TypeOK, HostTypeOK
  <2>. QED
    BY <2>1
<1>4. /\ work'[p].pc = "answer" /\ work'[p].at = work[p].at /\ work' \in WorkType
      /\ \A q \in Partitions \ {p} : work'[q] = work[q]
  BY <1>1 DEF TypeOK, WorkType
<1>5. /\ folded' \in FoldedType /\ missed' \in [Partitions -> BOOLEAN]
      /\ \A q \in Partitions \ {p} : folded'[q] = folded[q] /\ missed'[q] = missed[q]
      /\ \/ /\ folded'[p].consumed = folded[p].consumed + (work[p].at - position[p])
            /\ missed'[p] = missed[p] /\ faults' = faults
         \/ faults' = faults + 1 /\ missed'[p]
  <2>1. CASE /\ folded' = [folded EXCEPT ![p] = FoldUnranged(@, work[p].at - call[p].first)]
             /\ UNCHANGED <<missed, faults>>
    <3>. DEFINE n == work[p].at - position[p]
                e == FoldUnranged(folded[p], n)
    <3>1. n \in Nat /\ folded[p] \in [hw : {-1}, consumed : Nat, redelivered : {0}]
      BY <1>3 DEF TypeOK
    <3>. HIDE DEF n
    <3>2. e \in [hw : {-1}, consumed : Nat, redelivered : {0}] /\ e.consumed = folded[p].consumed + n
      BY <3>1 DEF FoldUnranged
    <3>3. folded' = [folded EXCEPT ![p] = e]
      BY <1>3, <2>1 DEF n
    <3>. HIDE DEF e
    <3>. QED
      BY <2>1, <3>2, <3>3 DEF TypeOK, FoldedType, n
  <2>2. CASE Fault /\ missed' = [missed EXCEPT ![p] = TRUE] /\ folded' = folded
    BY <2>2 DEF Fault, TypeOK, FoldedType
  <2>. QED
    BY <1>1, <2>1, <2>2
<1>6. HostTypeOK' /\ HostKeeps(p) /\ Others(p) /\ ~Idle(p)'
  <2>1. faults' \in 0 .. MaxFaults
    BY <1>1, DeliveryAssumption DEF Fault, TypeOK, HostTypeOK
  <2>. QED
    BY <1>1, <1>2, <1>3, <1>4, <1>5, <2>1 DEF Others, HostKeeps, TypeOK, HostTypeOK, Idle
<1>7. TypeOK'
  BY <1>1, <1>4, <1>5, <1>6, TypeStep DEF TypeOK, ResultsType
<1>8. CallAt(p)'
  BY <1>1, <1>2, <1>4 DEF CallAt, HandAt, Idle
<1>9. /\ Handled(p) = work[p].at /\ Reported(p) = position[p]
      /\ Handled(p)' = work[p].at /\ Reported(p)' = work[p].at
  BY <1>1, <1>4 DEF Handled, Reported
<1>10. SettledAt(p)'
  <2>1. Settled' = Settled
    BY <1>1 DEF Settled, Samples
  <2>. QED
    BY <1>9, <2>1 DEF PartInv, SettledAt
<1>11. OnceAt(p)'
  BY <1>1, <1>3, <1>5, <1>9 DEF PartInv, OnceAt
<1>12. CountAt(p)'
  <2>. DEFINE owed == Cardinality(Owed(p, position[p]))
              now  == Cardinality(Owed(p, work[p].at))
              n    == work[p].at - position[p]
  <2>1. /\ ~missed[p] => folded[p].consumed >= owed
        /\ faults = 0 => folded[p].consumed = owed
    BY <1>9 DEF PartInv, CountAt
  <2>2. /\ Owed(p, work[p].at) \subseteq Owed(p, position[p]) \cup (position[p] .. work[p].at - 1)
        /\ Owed(p, position[p]) \cap (position[p] .. work[p].at - 1) = {}
        /\ faults = 0 =>
             Owed(p, work[p].at) = Owed(p, position[p]) \cup (position[p] .. work[p].at - 1)
    <3>1. \A o \in position[p] .. work[p].at - 1 : o \in Offsets
      BY <1>3, DeliveryAssumption DEF Offsets
    <3>2. \A o \in Offsets : o \in Nat /\ dlq[<<p, o>>] \in Nat
      BY HostNumbers DEF TypeOK
    <3>3. faults = 0 => \A o \in position[p] .. work[p].at - 1 : dlq[<<p, o>>] = 0
      BY <1>3, <3>1, <3>2 DEF PartInv, OnceAt
    <3>. QED
      BY <1>3, <3>3 DEF Owed
  <2>3. /\ IsFiniteSet(position[p] .. work[p].at - 1)
        /\ Cardinality(position[p] .. work[p].at - 1) = n
    <3>1. position[p] \in Int /\ work[p].at - 1 \in Int
      BY <1>3
    <3>2. Cardinality(position[p] .. work[p].at - 1)
            = IF position[p] > work[p].at - 1 THEN 0 ELSE work[p].at - 1 - position[p] + 1
      BY <3>1, FS_Interval
    <3>3. IsFiniteSet(position[p] .. work[p].at - 1)
      BY <3>1, FS_Interval
    <3>4. work[p].at >= position[p] /\ work[p].at \in Int /\ position[p] \in Int
      BY <1>3
    <3>. QED
      BY <3>2, <3>3, <3>4
  <2>4. /\ IsFiniteSet(Owed(p, position[p])) /\ IsFiniteSet(Owed(p, work[p].at))
        /\ owed \in Nat /\ now \in Nat
    BY <1>3, OwedType
  <2>5. /\ IsFiniteSet(Owed(p, position[p]) \cup (position[p] .. work[p].at - 1))
        /\ Cardinality(Owed(p, position[p]) \cup (position[p] .. work[p].at - 1)) = owed + n
    <3>1. Cardinality(Owed(p, position[p]) \cup (position[p] .. work[p].at - 1))
            = owed + Cardinality(position[p] .. work[p].at - 1)
              - Cardinality(Owed(p, position[p]) \cap (position[p] .. work[p].at - 1))
      BY <2>3, <2>4, FS_Union
    <3>2. Cardinality(Owed(p, position[p]) \cap (position[p] .. work[p].at - 1)) = 0
      BY <2>2, FS_EmptySet
    <3>3. IsFiniteSet(Owed(p, position[p]) \cup (position[p] .. work[p].at - 1))
      BY <2>3, <2>4, FS_Union
    <3>4. n \in Nat
      BY <1>3
    <3>. HIDE DEF owed, n
    <3>. QED
      BY <2>3, <2>4, <3>1, <3>2, <3>3, <3>4
  <2>6. now <= owed + n /\ (faults = 0 => now = owed + n)
    <3>1. now <= Cardinality(Owed(p, position[p]) \cup (position[p] .. work[p].at - 1))
      BY <2>2, <2>5, FS_Subset
    <3>. HIDE DEF owed, n
    <3>. QED
      BY <2>2, <2>5, <3>1
  <2>7. Cardinality(Owed(p, Reported(p)))' = now
    BY <1>1, <1>9 DEF Owed
  <2>. HIDE DEF owed, now
  <2>8. /\ ~missed'[p] => folded'[p].consumed >= now
        /\ faults' = 0 => folded'[p].consumed = now
    <3>1. folded[p].consumed \in Nat /\ missed[p] \in BOOLEAN
      BY WorkNumbers
    <3>. QED
      BY <1>3, <1>5, <2>1, <2>4, <2>6, <3>1
  <2>. QED
    BY <2>7, <2>8 DEF CountAt
<1>13. Forward(p)
  BY <1>1, <1>3 DEF Forward
<1>. QED
  BY <1>6, <1>7, <1>8, <1>10, <1>11, <1>12, <1>13 DEF Keeps, PartInv

\* A commit.
LEMMA CommitKeeps == TypeOK => \A p \in Partitions : PartInv(p) /\ Commit(p) => Keeps(p)
<1>. HAVE TypeOK
<1>. TAKE p \in Partitions
<1>. HAVE PartInv(p) /\ Commit(p)
<1>1. /\ CommitPosition(p) /\ UNCHANGED <<log, work, results, folded, missed, faults>>
      /\ UNCHANGED <<position, call, dlq>>
  BY DEF Commit, CommitPosition
<1>2. /\ HostTypeOK' /\ HandAt(p)' /\ HostKeeps(p) /\ (Idle(p)' <=> Idle(p))
  BY <1>1, CommitEffect DEF TypeOK, PartInv, CallAt
<1>3. Others(p)
  BY <1>1, <1>2, DeliveryAssumption DEF Others, TypeOK, HostTypeOK
<1>4. TypeOK'
  BY <1>1, <1>2, <1>3, TypeStep DEF TypeOK, WorkType, ResultsType, FoldedType
<1>5. CallAt(p)'
  BY <1>1, <1>2 DEF PartInv, CallAt
<1>6. Handled(p)' = Handled(p) /\ Reported(p)' = Reported(p) /\ Settled' = Settled
  BY <1>1 DEF Handled, Reported, Settled, Samples
<1>7. SettledAt(p)' /\ OnceAt(p)'
  BY <1>1, <1>6 DEF PartInv, SettledAt, OnceAt
<1>8. CountAt(p)'
  BY <1>1, <1>6 DEF PartInv, CountAt, Owed
<1>9. Forward(p)
  BY <1>1, DeliveryAssumption DEF Forward, TypeOK, HostTypeOK
<1>. QED
  BY <1>3, <1>4, <1>5, <1>7, <1>8, <1>9 DEF Keeps, PartInv

\* A restart: every partition is back at what was committed.
LEMMA RestartKeeps ==
  Inv /\ Restart =>
    Inv' /\ position' = committed /\ Settled' = Settled
<1>. HAVE Inv /\ Restart
<1>1. /\ HostRestarts /\ faults \in Nat /\ faults' = faults + 1 /\ faults' \in 0 .. MaxFaults
      /\ work' = [p \in Partitions |-> NoWork] /\ UNCHANGED <<log, results, folded, missed>>
  BY DeliveryAssumption DEF Inv, Restart, Fault, TypeOK, HostTypeOK
<1>2. /\ HostTypeOK' /\ position' = committed /\ dlq' = dlq
      /\ \A p \in Partitions : HandAt(p)' /\ Idle(p)'
  BY <1>1, RestartEffect DEF Inv, TypeOK
<1>3. Settled' = Settled
  BY <1>1, <1>2 DEF Settled, Samples
<1>4. TypeOK'
  <2>1. NoWork \in [pc : {"idle", "profiles", "metrics", "answer"}, at : 0 .. LogLen]
        /\ NoWork.pc = "idle"
    BY DeliveryAssumption DEF NoWork
  <2>. QED
    BY <1>1, <1>2, <2>1 DEF Inv, TypeOK
<1>5. ASSUME NEW p \in Partitions PROVE PartInv(p)'
  <2>1. /\ PartInv(p) /\ TypeOK /\ work'[p] = NoWork /\ position'[p] = committed[p]
        /\ committed[p] \in 0 .. LogLen
    BY <1>1, <1>2 DEF Inv, TypeOK, HostTypeOK
  <2>2. /\ Handled(p) \in 0 .. LogLen /\ Handled(p) >= position[p]
        /\ Reported(p) \in 0 .. LogLen /\ Reported(p) >= position[p]
        /\ committed[p] <= position[p] /\ position[p] \in Nat
        /\ folded[p].consumed \in Nat
    BY <2>1, WorkNumbers, HostNumbers DEF PartInv, CallAt, HandAt, TypeOK
  <2>3. Handled(p)' = committed[p] /\ Reported(p)' = committed[p]
    BY <2>1 DEF Handled, Reported, NoWork
  <2>4. CallAt(p)'
    BY <1>2 DEF CallAt
  <2>5. SettledAt(p)'
    <3>1. \A o \in Offsets : o < committed[p] => o < Handled(p)
      BY <2>1, <2>2, DeliveryAssumption DEF Offsets
    <3>. QED
      BY <1>3, <2>1, <2>3, <3>1 DEF PartInv, SettledAt
  <2>6. OnceAt(p)'
    BY <1>1 DEF OnceAt
  <2>7. CountAt(p)'
    <3>. DEFINE now == Cardinality(Owed(p, committed[p]))
                owed == Cardinality(Owed(p, Reported(p)))
    <3>1. now <= owed /\ now \in Nat /\ owed \in Nat
      <4>1. committed[p] \in Int /\ Reported(p) \in Int /\ committed[p] <= Reported(p)
        BY <2>1, <2>2
      <4>. QED
        BY <4>1, OwedType
    <3>2. Cardinality(Owed(p, Reported(p)))' = now
      BY <1>2, <2>3 DEF Owed
    <3>3. ~missed[p] => folded[p].consumed >= owed
      BY <2>1 DEF PartInv, CountAt
    <3>. HIDE DEF now, owed
    <3>4. /\ ~missed'[p] => folded'[p].consumed >= now
          /\ faults' # 0
      BY <1>1, <2>2, <3>1, <3>3
    <3>. QED
      BY <3>2, <3>4 DEF CountAt
  <2>. QED
    BY <2>4, <2>5, <2>6, <2>7 DEF PartInv
<1>. QED
  BY <1>2, <1>3, <1>4, <1>5 DEF Inv

\* ST-05's step: the invariant is kept, nothing settled is lost, and a position
\* falls back only to what is committed.
LEMMA MoldCureStep ==
  Inv /\ [Next]_vars =>
    /\ Inv' /\ Settled \subseteq Settled'
    /\ \/ position' = committed /\ Settled' = Settled
       \/ \A p \in Partitions : position[p] <= position'[p]
<1>. HAVE Inv /\ [Next]_vars
<1>0. TypeOK /\ \A p \in Partitions : PartInv(p) /\ position[p] \in Nat
  BY DeliveryAssumption DEF Inv, TypeOK, HostTypeOK
<1>1. ASSUME NEW p \in Partitions, Keeps(p)
      PROVE  /\ Inv' /\ Settled \subseteq Settled'
             /\ \A q \in Partitions : position[q] <= position'[q]
  <2>1. \A q \in Partitions : PartInv(q)'
    BY <1>0, <1>1, OthersKeep DEF Keeps
  <2>2. ASSUME NEW r \in Settled PROVE r \in Settled'
    <3>1. PICK q \in Partitions, o \in Offsets : r = <<q, o>>
      BY DEF Settled, Records
    <3>2. /\ log' = log /\ (dlq[<<q, o>>] > 0 => dlq'[<<q, o>>] > 0)
          /\ results[<<q, o>>] \subseteq results'[<<q, o>>]
      <4>1. CASE q = p
        BY <1>1, <4>1 DEF Keeps, Others, Forward
      <4>2. CASE q # p
        <5>1. dlq'[<<q, o>>] = dlq[<<q, o>>] /\ results'[<<q, o>>] = results[<<q, o>>] /\ log' = log
          BY <1>1, <4>2 DEF Keeps, Others, HostKeeps
        <5>. QED
          BY <5>1
      <4>. QED
        BY <4>1, <4>2
    <3>. QED
      BY <2>2, <3>1, <3>2, SettledDef, SettledDefNext
  <2>3. \A q \in Partitions : position[q] <= position'[q]
    BY <1>0, <1>1 DEF Keeps, Others, HostKeeps, Forward
  <2>. QED
    BY <1>1, <2>1, <2>2, <2>3 DEF Inv, Keeps
<1>2. CASE Restart
  BY <1>2, RestartKeeps
<1>3. ASSUME NEW p \in Partitions,
             \/ Handle(p) \/ SendProfiles(p) \/ SendMetrics(p) \/ Answer(p) \/ Commit(p)
             \/ ProfilesFail(p) \/ MetricsLost(p) \/ Trap(p)
      PROVE  Keeps(p)
  BY <1>0, <1>3, HandleKeeps, SendProfilesKeeps, MetricsKeep, CommitKeeps, CallsEnd, EndKeeps
<1>4. CASE UNCHANGED vars
  <2>1. TypeOK' /\ Settled' = Settled /\ position' = position
    BY <1>0, <1>4 DEF vars, host, TypeOK, HostTypeOK, Idle, Settled, Samples
  <2>2. ASSUME NEW p \in Partitions PROVE PartInv(p)'
    <3>1. Handled(p)' = Handled(p) /\ Reported(p)' = Reported(p)
      BY <1>4 DEF vars, host, Handled, Reported
    <3>2. CallAt(p)'
      BY <1>0, <1>4 DEF vars, host, PartInv, CallAt, HandAt, Idle
    <3>3. SettledAt(p)' /\ OnceAt(p)'
      BY <1>0, <1>4, <2>1, <3>1 DEF vars, host, PartInv, SettledAt, OnceAt
    <3>4. CountAt(p)'
      BY <1>0, <1>4, <3>1 DEF vars, host, PartInv, CountAt, Owed
    <3>. QED
      BY <3>2, <3>3, <3>4 DEF PartInv
  <2>. QED
    BY <1>0, <2>1, <2>2 DEF Inv
<1>. QED
  BY <1>1, <1>2, <1>3, <1>4 DEF Next

\* A fresh ST-05.
LEMMA MoldCureStarts == Init => Inv
<1>. HAVE Init
<1>1. /\ HostTypeOK /\ HostInit
      /\ \A p \in Partitions : HandAt(p) /\ Idle(p) /\ position[p] = 0
  BY HostStarts DEF Init
<1>2. NoWork \in [pc : {"idle", "profiles", "metrics", "answer"}, at : 0 .. LogLen]
      /\ NoWork.pc = "idle"
      /\ NothingFolded \in [hw : {-1}, consumed : Nat, redelivered : {0}]
      /\ NothingFolded.consumed = 0
  BY DeliveryAssumption DEF NoWork, NothingFolded
<1>3. TypeOK
  BY <1>1, <1>2 DEF Init, TypeOK
<1>4. ASSUME NEW p \in Partitions PROVE PartInv(p)
  <2>1. /\ work[p] = NoWork /\ position[p] = 0 /\ folded[p].consumed = 0
        /\ \A o \in Offsets : <<p, o>> \in Records /\ o \in Nat
        /\ \A r \in Records : dlq[r] = 0 /\ results[r] = {}
    BY <1>1, <1>2 DEF Init, HostInit, Records, Offsets
  <2>2. Handled(p) = 0 /\ Reported(p) = 0
    BY <2>1 DEF Handled, Reported, NoWork
  <2>3. CallAt(p) /\ SettledAt(p)
    BY <1>1, <2>1, <2>2 DEF CallAt, SettledAt
  <2>4. OnceAt(p)
    BY <2>1, FS_EmptySet DEF OnceAt
  <2>5. Owed(p, Reported(p)) = {}
    BY <2>2 DEF Owed
  <2>6. CountAt(p)
    BY <2>1, <2>5, FS_EmptySet DEF CountAt
  <2>. QED
    BY <2>3, <2>4, <2>6 DEF PartInv
<1>. QED
  BY <1>3, <1>4 DEF Inv

\* The dead-letter topic holds a record of its own for every dead letter, so
\* at least as many as there are records dead-lettered, and as many exactly
\* when none was dead-lettered again.
LEMMA DeadLetterCount ==
  HostTypeOK => \A p \in Partitions :
    LET dead    == Cardinality(DeadLetters(p))
        written == Cardinality(DlqRecords(p))
    IN  /\ dead \in Nat /\ written \in Nat /\ written >= dead
        /\ written = dead <=> \A o \in Offsets : dlq[<<p, o>>] <= 1
<1>. HAVE HostTypeOK
<1>. TAKE p \in Partitions
<1>n. PICK n \in [Offsets -> Nat] : \A o \in Offsets : n[o] = dlq[<<p, o>>]
  <2>. DEFINE m == [o \in Offsets |-> dlq[<<p, o>>]]
  <2>1. m \in [Offsets -> Nat] /\ \A o \in Offsets : m[o] = dlq[<<p, o>>]
    BY HostNumbers
  <2>. QED
    BY <2>1
<1>. DEFINE F(o) == {o} \X (1 .. n[o])
            D    == DeadLetters(p)
            W    == DlqRecords(p)
            f    == [o \in D |-> <<o, 1>>]
<1>1. \A o \in Offsets : n[o] \in Nat
  OBVIOUS
<1>2. IsFiniteSet(Offsets)
  BY DeliveryAssumption, FS_Interval DEF Offsets
<1>3. D = {o \in Offsets : n[o] > 0} /\ W = UNION {F(o) : o \in Offsets}
  BY <1>n DEF DeadLetters, DlqRecords
<1>4. \A o \in Offsets : IsFiniteSet(F(o))
  <2>. TAKE o \in Offsets
  <2>1. IsFiniteSet(1 .. n[o])
    BY <1>1, FS_Interval
  <2>2. IsFiniteSet({o})
    BY FS_Singleton
  <2>. QED
    BY <2>1, <2>2, FS_Product
<1>5. \A w : w \in W <=> \E o \in Offsets : \E i \in 1 .. n[o] : w = <<o, i>>
  BY <1>3
<1>. HIDE DEF F
<1>6. IsFiniteSet(W)
  <2>. DEFINE g == [o \in Offsets |-> F(o)]
              T == {F(o) : o \in Offsets}
  <2>1. g \in Surjection(Offsets, T)
    BY DEF Surjection
  <2>. HIDE DEF g, T
  <2>2. IsFiniteSet(T)
    BY <1>2, <2>1, FS_Surjection
  <2>. QED
    BY <1>3, <1>4, <2>2, FS_UNION DEF T
<1>7. IsFiniteSet(D)
  BY <1>2, <1>3, FS_Subset
<1>. HIDE DEF D, W
<1>8. /\ f \in Injection(D, W)
      /\ f \in Surjection(D, W) <=> \A o \in Offsets : n[o] <= 1
  <2>1. \A o \in D : <<o, 1>> \in W
    BY <1>1, <1>3, <1>5
  <2>2. f \in [D -> W] /\ \A o \in D : f[o] = <<o, 1>>
    BY <2>1
  <2>. HIDE DEF f
  <2>3. f \in Injection(D, W)
    BY <2>2 DEF Injection, IsInjective
  <2>4. ASSUME \A o \in Offsets : n[o] <= 1, NEW w \in W PROVE \E o \in D : f[o] = w
    <3>1. PICK o \in Offsets : \E i \in 1 .. n[o] : w = <<o, i>>
      BY <1>5
    <3>2. w = <<o, 1>> /\ n[o] > 0
      BY <1>1, <2>4, <3>1
    <3>. QED
      BY <1>3, <2>2, <3>2
  <2>5. ASSUME NEW o \in Offsets, n[o] > 1 PROVE \E w \in W : \A e \in D : f[e] # w
    <3>1. <<o, 2>> \in W
      BY <1>1, <1>5, <2>5
    <3>. QED
      BY <2>2, <3>1
  <2>6. \A o \in Offsets : n[o] <= 1 <=> ~(n[o] > 1)
    BY <1>1
  <2>. QED
    BY <2>2, <2>3, <2>4, <2>5, <2>6 DEF Surjection
<1>. HIDE DEF f
<1>9. Cardinality(D) \in Nat /\ Cardinality(W) \in Nat
  BY <1>6, <1>7, FS_CardinalityType
<1>10. /\ Cardinality(D) <= Cardinality(W)
       /\ Cardinality(D) = Cardinality(W) <=> f \in Surjection(D, W)
  BY <1>6, <1>7, <1>8, FS_Injection
<1>. QED
  BY <1>n, <1>8, <1>9, <1>10 DEF D, W

\* The windows of ST-05 while nothing fails, and its sum.
LEMMA MoldCureResults == Inv => WindowsPartition /\ Balanced
<1>. HAVE Inv
<1>0. TypeOK /\ \A p \in Partitions : PartInv(p)
  BY DEF Inv
<1>1. WindowsPartition
  <2>. SUFFICES ASSUME faults = 0, NEW r \in Samples
                PROVE  /\ Cardinality(results[r]) <= 1
                       /\ r[2] < position[r[1]] => results[r] # {}
    BY DEF WindowsPartition
  <2>1. PICK p \in Partitions, o \in Offsets : r = <<p, o>>
    BY DEF Samples, Records
  <2>2. log[<<p, o>>] \in Presses
    BY <2>1 DEF Samples
  <2>3. /\ Cardinality(results[<<p, o>>]) <= 1
        /\ dlq[<<p, o>>] > 0 => log[<<p, o>>] = Malformed
    BY <1>0 DEF PartInv, OnceAt
  <2>4. ASSUME o < position[p] PROVE results[<<p, o>>] # {}
    <3>1. o < Handled(p)
      <4>1. Handled(p) >= position[p] /\ Handled(p) \in 0 .. LogLen
        BY <1>0, WorkNumbers DEF PartInv
      <4>2. position[p] \in Nat /\ o \in Nat
        BY <1>0, HostNumbers DEF TypeOK
      <4>. QED
        BY <2>4, <4>1, <4>2
    <3>2. <<p, o>> \in Settled
      BY <1>0, <3>1 DEF PartInv, SettledAt
    <3>. QED
      BY <2>2, <2>3, <3>2, SettledDef, PressAssumption
  <2>. QED
    BY <2>1, <2>3, <2>4
<1>2. ASSUME NEW p \in Partitions, position[p] = LogLen, Idle(p)
      PROVE  /\ faults = 0 => folded[p].consumed + Cardinality(DlqRecords(p)) = LogLen
             /\ ~missed[p] => folded[p].consumed + Cardinality(DlqRecords(p)) >= LogLen
  <2>. DEFINE owed    == Cardinality(Owed(p, LogLen))
              dead    == Cardinality(DeadLetters(p))
              written == Cardinality(DlqRecords(p))
  <2>1. Reported(p) = LogLen
    BY <1>0, <1>2 DEF TypeOK, Reported
  <2>2. /\ ~missed[p] => folded[p].consumed >= owed
        /\ faults = 0 => folded[p].consumed = owed
    BY <1>0, <2>1 DEF PartInv, CountAt
  <2>3. Owed(p, LogLen) \cup DeadLetters(p) = Offsets /\ Owed(p, LogLen) \cap DeadLetters(p) = {}
    <3>1. \A o \in Offsets : dlq[<<p, o>>] \in Nat
      BY <1>0, HostNumbers DEF TypeOK
    <3>. QED
      BY <3>1 DEF Owed, DeadLetters, Offsets
  <2>4. IsFiniteSet(Offsets) /\ Cardinality(Offsets) = LogLen
    BY DeliveryAssumption, FS_Interval DEF Offsets
  <2>5. IsFiniteSet(Owed(p, LogLen)) /\ IsFiniteSet(DeadLetters(p))
    BY <2>3, <2>4, FS_Subset
  <2>6. owed \in Nat /\ dead \in Nat
    BY <2>5, FS_CardinalityType
  <2>7. Cardinality(Owed(p, LogLen) \cup DeadLetters(p))
          = owed + dead - Cardinality(Owed(p, LogLen) \cap DeadLetters(p))
    BY <2>5, FS_Union
  <2>8. Cardinality(Owed(p, LogLen) \cap DeadLetters(p)) = 0
    BY <2>3, FS_EmptySet
  <2>9. folded[p].consumed \in Nat
    BY <1>0, WorkNumbers
  <2>10. Cardinality(Owed(p, LogLen) \cup DeadLetters(p)) = LogLen
    BY <2>3, <2>4
  <2>11. written \in Nat /\ written >= dead /\ (faults = 0 => written = dead)
    <3>1. HostTypeOK /\ (faults = 0 => \A o \in Offsets : dlq[<<p, o>>] <= 1)
      BY <1>0 DEF TypeOK, PartInv, OnceAt
    <3>. QED
      BY <3>1, DeadLetterCount
  <2>. HIDE DEF owed, dead, written
  <2>12. owed + dead = LogLen
    BY <2>6, <2>7, <2>8, <2>10
  <2>13. /\ faults = 0 => folded[p].consumed + written = LogLen
         /\ ~missed[p] => folded[p].consumed + written >= LogLen
    BY <2>2, <2>6, <2>9, <2>11, <2>12
  <2>. QED
    BY <2>13 DEF written
<1>3. Balanced
  BY <1>2 DEF Balanced
<1>. QED
  BY <1>1, <1>3

-----------------------------------------------------------------------------
(***************************************************************************)
(* ST-04.  Its host is the same host with batches of one, so what was shown *)
(* of the host's steps holds here too.                                     *)
(***************************************************************************)

\* Its sizes of sets are the same sizes.
LEMMA SameSize == \A S : I!Cardinality(S) = Cardinality(S)
BY DEF I!Cardinality, Cardinality

\* ST-04 is on the same host.
LEMMA SameHost ==
  /\ I!Offsets = Offsets /\ I!Records = Records
  /\ I!HostTypeOK <=> HostTypeOK
  /\ I!HostInit <=> HostInit
  /\ I!HostRestarts <=> HostRestarts
  /\ I!Fault <=> Fault
  /\ \A p : /\ I!Idle(p) <=> Idle(p)
            /\ I!Trapped(p) <=> Trapped(p)
            /\ I!CommitPosition(p) <=> CommitPosition(p)
            /\ I!DeadLetters(p) = DeadLetters(p)
            /\ I!DlqRecords(p) = DlqRecords(p)
  /\ \A p, v, o : I!Answered(p, v, o) <=> Answered(p, v, o)
<1>1. I!Offsets = Offsets /\ I!Records = Records
  BY DEF I!Offsets, Offsets, I!Records, Records
<1>2. I!HostTypeOK <=> HostTypeOK
  BY <1>1 DEF I!HostTypeOK, HostTypeOK
<1>3. I!HostInit <=> HostInit
  BY <1>1 DEF I!HostInit, HostInit, I!NoCall, NoCall
<1>4. I!HostRestarts <=> HostRestarts
  BY DEF I!HostRestarts, HostRestarts, I!NoCall, NoCall
<1>5. I!Fault <=> Fault
  BY DEF I!Fault, Fault
<1>6. \A p : /\ I!Idle(p) <=> Idle(p)
             /\ I!CommitPosition(p) <=> CommitPosition(p)
             /\ I!DeadLetters(p) = DeadLetters(p)
             /\ I!DlqRecords(p) = DlqRecords(p)
  BY <1>1 DEF I!Idle, Idle, I!NoCall, NoCall, I!CommitPosition, CommitPosition,
              I!DeadLetters, DeadLetters, I!DlqRecords, DlqRecords
<1>7. \A p, o : I!MoveTo(p, o) <=> MoveTo(p, o)
  BY DEF I!MoveTo, MoveTo, I!NoCall, NoCall
<1>8. \A p : I!DeadLetterHead(p) <=> DeadLetterHead(p)
  BY <1>7 DEF I!DeadLetterHead, DeadLetterHead
<1>9. \A p : I!Trapped(p) <=> Trapped(p)
  BY <1>7, <1>8 DEF I!Trapped, Trapped
<1>10. \A p, v, o : I!Answered(p, v, o) <=> Answered(p, v, o)
  BY <1>7, <1>8 DEF I!Answered, Answered
<1>. QED
  BY <1>1, <1>2, <1>3, <1>4, <1>5, <1>6, <1>9, <1>10

\* The same of what a step leads to.
LEMMA SameHostNext ==
  /\ I!HostTypeOK' <=> HostTypeOK'
  /\ \A p : I!Idle(p)' <=> Idle(p)'
<1>1. I!Offsets = Offsets /\ I!Records = Records
  BY SameHost
<1>2. I!HostTypeOK' <=> HostTypeOK'
  BY <1>1 DEF I!HostTypeOK, HostTypeOK, I!Records, Records, I!Offsets, Offsets
<1>3. \A p : I!Idle(p)' <=> Idle(p)'
  BY DEF I!Idle, Idle, I!NoCall, NoCall
<1>. QED
  BY <1>2, <1>3

\* A call of ST-04 holds the one record at the position.
LEMMA OneRecord ==
  HostTypeOK => \A p \in Partitions :
    /\ I!HandAt(p) <=> HandAt(p) /\ (~Idle(p) => call[p].last = position[p])
    /\ \A last \in Offsets : I!Hand(p, last) => Hand(p, last) /\ last = position[p]
<1>. HAVE HostTypeOK
<1>. TAKE p \in Partitions
<1>1. position[p] \in Nat /\ BatchMax \in Nat /\ BatchMax >= 1
  BY DeliveryAssumption DEF HostTypeOK
<1>2. call[p].last \in Int /\ (I!Idle(p) <=> Idle(p))
  BY SameHost, DeliveryAssumption DEF HostTypeOK
<1>3. I!HandAt(p) <=> HandAt(p) /\ (~Idle(p) => call[p].last = position[p])
  BY <1>1, <1>2 DEF I!HandAt, HandAt
<1>4. ASSUME NEW last \in Offsets, I!Hand(p, last) PROVE Hand(p, last) /\ last = position[p]
  <2>1. last \in position[p] .. position[p] + 1 - 1 /\ last \in Int
    BY <1>4 DEF I!Hand, Offsets
  <2>2. last = position[p] /\ last \in position[p] .. position[p] + BatchMax - 1
    BY <1>1, <2>1
  <2>. QED
    BY <1>2, <1>4, <2>2 DEF I!Hand, Hand
<1>. QED
  BY <1>3, <1>4

\* The same of what a step leads to.
LEMMA OneRecordNext ==
  HostTypeOK' => \A p \in Partitions :
    I!HandAt(p)' <=> HandAt(p)' /\ (~Idle(p)' => call'[p].last = position'[p])
<1>. HAVE HostTypeOK'
<1>. TAKE p \in Partitions
<1>1. position'[p] \in Nat /\ BatchMax \in Nat /\ BatchMax >= 1
  BY DeliveryAssumption DEF HostTypeOK
<1>2. call'[p].last \in Int /\ (I!Idle(p)' <=> Idle(p)')
  BY SameHostNext, DeliveryAssumption DEF HostTypeOK
<1>. QED
  BY <1>1, <1>2 DEF I!HandAt, HandAt

\* The types of ST-04's own state.
ClassesOf == UNION {[S -> Classes] : S \in SUBSET Offsets}
JobType == [Partitions -> [pc : {"idle", "results", "metrics", "answer"}, at : 0 .. LogLen,
                           verdict : ClassesOf]]
VerdictType == [Records -> SUBSET Classes]
MarkedType == [Partitions -> [hw : -1 .. LogLen - 1, consumed : Nat, redelivered : Nat]]

\* The types of ST-04, with the host's names.
LEMMA JobTypes ==
  I!TypeOK <=>
    /\ log \in [Records -> I!Kinds] /\ HostTypeOK /\ work \in JobType
    /\ \A p \in Partitions : /\ Idle(p) <=> work[p].pc = "idle"
                             /\ Idle(p) => work[p] = I!NoWork
    /\ results \in VerdictType /\ folded \in MarkedType
    /\ missed \in [Partitions -> BOOLEAN]
BY SameHost DEF I!TypeOK, JobType, ClassesOf, VerdictType, MarkedType

\* The same of what a step leads to.
LEMMA JobTypesNext ==
  I!TypeOK' <=>
    /\ log' \in [Records -> I!Kinds] /\ HostTypeOK' /\ work' \in JobType
    /\ \A p \in Partitions : /\ Idle(p)' <=> work'[p].pc = "idle"
                             /\ Idle(p)' => work'[p] = I!NoWork
    /\ results' \in VerdictType /\ folded' \in MarkedType
    /\ missed' \in [Partitions -> BOOLEAN]
BY SameHost, SameHostNext DEF I!TypeOK, JobType, ClassesOf, VerdictType, MarkedType

\* Being settled, record by record.
LEMMA JobSettled ==
  \A p \in Partitions, o \in Offsets :
    <<p, o>> \in I!Settled <=>
      \/ log[<<p, o>>] = "tombstone" \/ dlq[<<p, o>>] > 0
      \/ log[<<p, o>>] = "job" /\ results[<<p, o>>] # {}
BY SameHost DEF I!Settled, Records

\* The same after a step.
LEMMA JobSettledNext ==
  \A p \in Partitions, o \in Offsets :
    <<p, o>> \in I!Settled' <=>
      \/ log'[<<p, o>>] = "tombstone" \/ dlq'[<<p, o>>] > 0
      \/ log'[<<p, o>>] = "job" /\ results'[<<p, o>>] # {}
BY SameHost DEF I!Settled, Records

\* Where ST-04's loop stops, over its one record.
LEMMA JobStop ==
  \A p \in Partitions : \A o \in Nat :
    I!StopsAt(p, o, o) = IF log[<<p, o>>] = "malformed" THEN o ELSE o + 1
<1>. TAKE p \in Partitions
<1>. TAKE o \in Nat
<1>. DEFINE F(at) == /\ at = o + 1 \/ log[<<p, at>>] = "malformed"
                     /\ \A k \in o .. at - 1 : log[<<p, k>>] # "malformed"
            to == IF log[<<p, o>>] = "malformed" THEN o ELSE o + 1
<1>1. o .. o + 1 = {o, o + 1} /\ o .. o + 1 - 1 = {o} /\ o .. o - 1 = {} /\ o # o + 1
  OBVIOUS
<1>2. F(to) /\ to \in o .. o + 1
  BY <1>1
<1>3. \A at \in o .. o + 1 : F(at) => at = to
  BY <1>1
<1>4. I!StopsAt(p, o, o) = CHOOSE x \in o .. o + 1 : F(x)
  BY DEF I!StopsAt
<1>. HIDE DEF F, to
<1>5. I!StopsAt(p, o, o) = to
  BY <1>2, <1>3, <1>4
<1>. QED
  BY <1>5 DEF to

\* A call of ST-04: past its loop it stands at its record or behind it, with a
\* class for it if it is a job.
LEMMA JobCall ==
  I!TypeOK => \A p \in Partitions : I!CallAt(p) =>
    /\ HandAt(p) /\ position[p] \in Nat /\ position[p] <= LogLen
    /\ ~Idle(p) =>
         /\ position[p] \in Offsets /\ call[p].first = position[p] /\ call[p].last = position[p]
         /\ work[p].at = IF log[<<p, position[p]>>] = "malformed" THEN position[p]
                                                                 ELSE position[p] + 1
         /\ work[p].verdict \in [DOMAIN work[p].verdict -> Classes]
         /\ DOMAIN work[p].verdict = IF log[<<p, position[p]>>] = "job" THEN {position[p]}
                                                                       ELSE {}
<1>. HAVE I!TypeOK
<1>. TAKE p \in Partitions
<1>. HAVE I!CallAt(p)
<1>0. HostTypeOK
  BY JobTypes
<1>1. HandAt(p) /\ (~Idle(p) => call[p].last = position[p])
  BY <1>0, OneRecord DEF I!CallAt
<1>2. position[p] \in Nat /\ position[p] <= LogLen
  BY <1>0, HostNumbers
<1>3. ASSUME ~Idle(p)
      PROVE  /\ position[p] \in Offsets /\ call[p].first = position[p]
             /\ work[p].at = IF log[<<p, position[p]>>] = "malformed" THEN position[p]
                                                                     ELSE position[p] + 1
             /\ work[p].verdict \in [DOMAIN work[p].verdict -> Classes]
             /\ DOMAIN work[p].verdict = IF log[<<p, position[p]>>] = "job" THEN {position[p]}
                                                                           ELSE {}
  <2>1. position[p] \in Offsets /\ call[p].first = position[p] /\ call[p].last = position[p]
    BY <1>0, <1>1, <1>3, HostNumbers
  <2>2. /\ work[p].at \in position[p] .. position[p] + 1
        /\ \A o \in position[p] .. work[p].at - 1 : log[<<p, o>>] # "malformed"
        /\ work[p].at = position[p] + 1 \/ log[<<p, work[p].at>>] = "malformed"
        /\ work[p].verdict \in [I!Jobs(p, position[p], work[p].at - 1) -> Classes]
    BY <1>3, <2>1, SameHost DEF I!CallAt
  <2>3. work[p].at = IF log[<<p, position[p]>>] = "malformed" THEN position[p]
                                                             ELSE position[p] + 1
    BY <1>2, <2>2
  <2>4. I!Jobs(p, position[p], work[p].at - 1)
          = IF log[<<p, position[p]>>] = "job" THEN {position[p]} ELSE {}
    BY <1>2, <2>3 DEF I!Jobs
  <2>. QED
    BY <2>1, <2>2, <2>3, <2>4
<1>. QED
  BY <1>1, <1>2, <1>3

\* How far a partition of ST-04 is done with and counted, in numbers.
LEMMA JobNumbers ==
  I!TypeOK => \A p \in Partitions : I!CallAt(p) =>
    /\ I!Handled(p) \in {position[p], position[p] + 1}
    /\ I!Reported(p) \in {position[p], position[p] + 1}
    /\ I!Reported(p) <= LogLen
<1>. HAVE I!TypeOK
<1>. TAKE p \in Partitions
<1>. HAVE I!CallAt(p)
<1>1. /\ position[p] \in Nat /\ position[p] <= LogLen
      /\ ~Idle(p) => work[p].at \in {position[p], position[p] + 1} /\ position[p] \in Offsets
  BY JobCall
<1>2. Idle(p) <=> work[p].pc = "idle"
  BY JobTypes
<1>. QED
  BY <1>1, <1>2, DeliveryAssumption DEF I!Handled, I!Reported, Offsets

\* The others keep their part of ST-04's invariant.
LEMMA JobOthersKeep ==
  I!TypeOK /\ HostTypeOK' => \A p \in Partitions : Others(p) =>
    \A q \in Partitions \ {p} : I!PartInv(q) => I!PartInv(q)'
<1>. HAVE I!TypeOK /\ HostTypeOK'
<1>. TAKE p \in Partitions
<1>. HAVE Others(p)
<1>. TAKE q \in Partitions \ {p}
<1>. HAVE I!PartInv(q)
<1>1. /\ position'[q] = position[q] /\ committed'[q] = committed[q] /\ call'[q] = call[q]
      /\ work'[q] = work[q] /\ folded'[q] = folded[q] /\ missed'[q] = missed[q] /\ log' = log
      /\ \A o \in Offsets : dlq'[<<q, o>>] = dlq[<<q, o>>] /\ results'[<<q, o>>] = results[<<q, o>>]
      /\ faults' = 0 => faults = 0
  BY DEF Others, HostKeeps
<1>2. I!CallAt(q)'
  BY <1>1 DEF I!PartInv, I!CallAt, I!HandAt, I!Idle, I!Jobs
<1>3. I!Handled(q)' = I!Handled(q) /\ I!Reported(q)' = I!Reported(q)
  BY <1>1 DEF I!Handled, I!Reported
<1>4. I!SettledAt(q)'
  <2>1. \A o \in Offsets : <<q, o>> \in I!Settled' <=> <<q, o>> \in I!Settled
    BY <1>1, JobSettled, JobSettledNext
  <2>. QED
    BY <1>3, <2>1, SameHost DEF I!PartInv, I!SettledAt
<1>5. I!OnceAt(q)'
  BY <1>1, <1>3, SameHost DEF I!PartInv, I!OnceAt
<1>6. I!CountAt(q)'
  <2>1. I!DeadLetters(q)' = I!DeadLetters(q)
    BY <1>1, SameHost DEF I!DeadLetters
  <2>2. \A a, b : I!Jobs(q, a, b)' = I!Jobs(q, a, b)
    BY <1>1 DEF I!Jobs
  <2>3. I!DeadLetters(q) = DeadLetters(q) /\ DeadLetters(q) \subseteq Offsets
    BY SameHost DEF DeadLetters
  <2>. QED
    BY <1>1, <1>3, <2>1, <2>2, <2>3 DEF I!PartInv, I!CountAt, I!Jobs
<1>. QED
  BY <1>2, <1>4, <1>5, <1>6 DEF I!PartInv

\* A step of one partition keeps the types if it keeps its own.
LEMMA JobTypeStep ==
  I!TypeOK => \A p \in Partitions :
    /\ HostTypeOK' /\ Others(p)
    /\ work' \in JobType /\ results' \in VerdictType /\ folded' \in MarkedType
    /\ missed' \in [Partitions -> BOOLEAN]
    /\ Idle(p)' <=> work'[p].pc = "idle"
    /\ Idle(p)' => work'[p] = I!NoWork
    => I!TypeOK'
<1>. HAVE I!TypeOK
<1>. TAKE p \in Partitions
<1>. HAVE /\ HostTypeOK' /\ Others(p)
          /\ work' \in JobType /\ results' \in VerdictType /\ folded' \in MarkedType
          /\ missed' \in [Partitions -> BOOLEAN]
          /\ Idle(p)' <=> work'[p].pc = "idle"
          /\ Idle(p)' => work'[p] = I!NoWork
<1>1. \A q \in Partitions : /\ Idle(q) <=> work[q].pc = "idle"
                            /\ Idle(q) => work[q] = I!NoWork
  BY JobTypes
<1>2. \A q \in Partitions \ {p} :
        /\ Idle(q)' <=> work'[q].pc = "idle"
        /\ Idle(q)' => work'[q] = I!NoWork
  BY <1>1 DEF Others, HostKeeps, Idle
<1>3. log' \in [Records -> I!Kinds]
  BY JobTypes DEF Others
<1>. QED
  BY <1>2, <1>3, JobTypesNext

\* What is shown of each step of a partition.
JobKeeps(p) == I!TypeOK' /\ Others(p) /\ I!PartInv(p)' /\ Forward(p)

\* ST-04's loop.
LEMMA JobHandleKeeps ==
  I!TypeOK => \A p \in Partitions : I!PartInv(p) /\ I!Handle(p) => JobKeeps(p)
<1>. HAVE I!TypeOK
<1>. TAKE p \in Partitions
<1>. HAVE I!PartInv(p) /\ I!Handle(p)
<1>. DEFINE at == I!StopsAt(p, position[p], position[p])
            jobs == I!Jobs(p, position[p], at - 1)
<1>1. PICK v \in [jobs -> Classes] :
        /\ Hand(p, position[p]) /\ position[p] \in Offsets
        /\ work' = [work EXCEPT ![p] = [at |-> at, verdict |-> v,
                      pc |-> IF jobs = {} THEN "metrics" ELSE "results"]]
  BY SameHost, OneRecord, JobTypes DEF I!Handle
<1>2. log' = log /\ results' = results /\ folded' = folded /\ missed' = missed /\ faults' = faults
  BY DEF I!Handle
<1>3. /\ HostTypeOK' /\ HandAt(p)' /\ ~Idle(p)' /\ HostKeeps(p) /\ MovedTo(p, position[p])
      /\ call'[p] = [first |-> position[p], last |-> position[p]]
  BY <1>1, <1>2, HandEffect, JobTypes, JobCall DEF I!PartInv
<1>4. position[p] \in Nat /\ position[p] + 1 <= LogLen /\ LogLen \in Nat
  BY <1>1, DeliveryAssumption DEF Offsets
<1>5. at = IF log[<<p, position[p]>>] = "malformed" THEN position[p] ELSE position[p] + 1
  BY <1>4, JobStop
<1>. HIDE DEF at
<1>6. at \in 0 .. LogLen /\ at \in position[p] .. position[p] + 1 /\ at \in Nat
  BY <1>4, <1>5
<1>7. jobs \in SUBSET Offsets
  BY <1>4, <1>6 DEF I!Jobs, Offsets
<1>8. jobs # {} => log[<<p, position[p]>>] = "job"
  <2>1. \A o \in position[p] .. at - 1 : o = position[p]
    BY <1>4, <1>6
  <2>2. \A o \in jobs : o \in position[p] .. at - 1 /\ log[<<p, o>>] = "job"
    BY DEF I!Jobs
  <2>. QED
    BY <2>1, <2>2
<1>. HIDE DEF jobs
<1>9. v \in ClassesOf
  BY <1>7 DEF ClassesOf
<1>10. /\ work'[p].at = at /\ work'[p].verdict = v
       /\ work'[p].pc = IF jobs = {} THEN "metrics" ELSE "results"
       /\ work' \in JobType
       /\ \A q \in Partitions \ {p} : work'[q] = work[q]
  <2>. DEFINE w == [at |-> at, verdict |-> v, pc |-> IF jobs = {} THEN "metrics" ELSE "results"]
  <2>1. /\ w \in [pc : {"idle", "results", "metrics", "answer"}, at : 0 .. LogLen,
                  verdict : ClassesOf]
        /\ w.at = at /\ w.verdict = v /\ w.pc = IF jobs = {} THEN "metrics" ELSE "results"
    BY <1>6, <1>9
  <2>. HIDE DEF w
  <2>2. work' = [work EXCEPT ![p] = w] /\ work \in JobType
    BY <1>1, JobTypes DEF w
  <2>. QED
    BY <2>1, <2>2 DEF JobType
<1>11. Others(p)
  BY <1>2, <1>3, <1>10, JobTypes, DeliveryAssumption DEF Others, HostTypeOK
<1>12. I!TypeOK'
  BY <1>2, <1>3, <1>10, <1>11, JobTypeStep, JobTypes
<1>13. I!CallAt(p)'
  <2>1. I!HandAt(p)'
    BY <1>3, OneRecordNext DEF MovedTo
  <2>2. /\ at \in position[p] .. position[p] + 1
        /\ \A o \in position[p] .. at - 1 : log[<<p, o>>] # "malformed"
        /\ at = position[p] + 1 \/ log[<<p, at>>] = "malformed"
    BY <1>4, <1>5
  <2>3. I!Jobs(p, position[p], at - 1)' = jobs'
    BY <1>2 DEF I!Jobs, jobs
  <2>4. call'[p].first = position[p] /\ call'[p].last = position[p]
    BY <1>3
  <2>5. work'[p].verdict \in [I!Jobs(p, call[p].first, work[p].at - 1)' -> Classes]
    <3>1. I!Jobs(p, call[p].first, work[p].at - 1)' = jobs
      BY <1>2, <1>10, <2>4 DEF I!Jobs, jobs
    <3>. QED
      BY <1>10, <3>1
  <2>. QED
    BY <1>2, <1>10, <2>1, <2>2, <2>4, <2>5 DEF I!CallAt
<1>14. /\ I!Handled(p) = position[p] /\ I!Reported(p) = position[p]
       /\ I!Reported(p)' = position[p] /\ I!Handled(p)' \in {position[p], position[p] + 1}
       /\ I!Handled(p)' # position[p] => log[<<p, position[p]>>] = "tombstone"
       /\ position'[p] = position[p] /\ \A o \in Offsets : dlq'[<<p, o>>] = dlq[<<p, o>>]
  <2>1. Idle(p) /\ work[p].pc = "idle"
    BY <1>1, JobTypes DEF Hand
  <2>2. position'[p] = position[p] /\ \A o \in Offsets : dlq'[<<p, o>>] = dlq[<<p, o>>]
    BY <1>3 DEF MovedTo
  <2>3. I!Reported(p)' = position[p]
    BY <1>10, <2>2 DEF I!Reported
  <2>4. I!Handled(p)' = IF jobs = {} THEN at ELSE position[p]
    BY <1>10, <2>2 DEF I!Handled
  <2>5. at # position[p] /\ jobs = {} => log[<<p, position[p]>>] = "tombstone"
    <3>1. log[<<p, position[p]>>] \in I!Kinds
      BY <1>1, JobTypes DEF Records
    <3>2. at = position[p] + 1 => position[p] \in position[p] .. at - 1
      BY <1>4
    <3>. QED
      BY <1>5, <3>1, <3>2 DEF I!Kinds, jobs, I!Jobs
  <2>. QED
    BY <1>5, <2>1, <2>2, <2>3, <2>4, <2>5 DEF I!Handled, I!Reported
<1>15. I!SettledAt(p)'
  <2>. SUFFICES ASSUME NEW o \in Offsets, o < I!Handled(p)' PROVE <<p, o>> \in I!Settled'
    BY SameHost DEF I!SettledAt
  <2>1. CASE o < position[p]
    <3>1. <<p, o>> \in I!Settled
      BY <1>14, <2>1, SameHost DEF I!PartInv, I!SettledAt
    <3>. QED
      BY <1>2, <1>14, <3>1, JobSettled, JobSettledNext
  <2>2. CASE ~(o < position[p])
    <3>1. o = position[p] /\ I!Handled(p)' # position[p]
      BY <1>4, <1>14, <2>2 DEF Offsets
    <3>. QED
      BY <1>2, <1>14, <3>1, JobSettledNext
  <2>. QED
    BY <2>1, <2>2
<1>16. I!OnceAt(p)'
  <2>1. \A o \in Offsets : o >= I!Handled(p)' => o >= position[p]
    BY <1>4, <1>14 DEF Offsets
  <2>. QED
    BY <1>2, <1>14, <2>1, SameHost DEF I!OnceAt, I!PartInv
<1>17. I!CountAt(p)'
  <2>1. DeadLetters(p)' = DeadLetters(p)
    BY <1>14 DEF DeadLetters
  <2>2. I!DeadLetters(p)' = DeadLetters(p)'
    BY SameHost DEF I!DeadLetters, DeadLetters
  <2>3. \A a, b : I!Jobs(p, a, b)' = I!Jobs(p, a, b)
    BY <1>2 DEF I!Jobs
  <2>. QED
    BY <1>2, <1>14, <2>1, <2>2, <2>3, SameHost DEF I!CountAt, I!PartInv, I!Jobs
<1>18. Forward(p)
  BY <1>2, <1>4, <1>14 DEF Forward
<1>. QED
  BY <1>11, <1>12, <1>13, <1>15, <1>16, <1>17, <1>18 DEF JobKeeps, I!PartInv

\* Publishing a call's results adds its class to the job's, or nothing.
LEMMA JobPublish ==
  I!TypeOK => \A p \in Partitions : \A J \in SUBSET (DOMAIN work[p].verdict) :
    I!CallAt(p) /\ ~Idle(p) /\ I!Publish(p, J) =>
      /\ results' \in VerdictType
      /\ \A q \in Partitions \ {p}, o \in Offsets : results'[<<q, o>>] = results[<<q, o>>]
      /\ \A o \in Offsets :
           IF o \in J THEN /\ o = position[p] /\ log[<<p, o>>] = "job"
                           /\ \E c \in Classes : results'[<<p, o>>] = results[<<p, o>>] \cup {c}
           ELSE results'[<<p, o>>] = results[<<p, o>>]
<1>. HAVE I!TypeOK
<1>. TAKE p \in Partitions
<1>. TAKE J \in SUBSET (DOMAIN work[p].verdict)
<1>. HAVE I!CallAt(p) /\ ~Idle(p) /\ I!Publish(p, J)
<1>1. /\ \A o \in J : o = position[p] /\ log[<<p, o>>] = "job" /\ work[p].verdict[o] \in Classes
      /\ results \in VerdictType
  <2>1. /\ work[p].verdict \in [DOMAIN work[p].verdict -> Classes]
        /\ DOMAIN work[p].verdict = IF log[<<p, position[p]>>] = "job" THEN {position[p]} ELSE {}
    BY JobCall
  <2>2. \A o \in J : o = position[p] /\ log[<<p, o>>] = "job"
    BY <2>1
  <2>3. \A o \in J : work[p].verdict[o] \in Classes
    BY <2>1
  <2>. QED
    BY <2>2, <2>3, JobTypes
<1>2. \A q \in Partitions, o \in Offsets :
        <<q, o>> \in Records /\ <<q, o>>[1] = q /\ <<q, o>>[2] = o
  BY DEF Records
<1>3. results' = [r \in Records |-> IF r[1] = p /\ r[2] \in J
                                    THEN results[r] \cup {work[p].verdict[r[2]]} ELSE results[r]]
  BY SameHost DEF I!Publish
<1>. HIDE DEF Records
<1>4. results' \in VerdictType
  BY <1>1, <1>3 DEF VerdictType
<1>5. \A q \in Partitions, o \in Offsets :
        results'[<<q, o>>] = IF q = p /\ o \in J THEN results[<<q, o>>] \cup {work[p].verdict[o]}
                                                 ELSE results[<<q, o>>]
  BY <1>2, <1>3
<1>. QED
  BY <1>1, <1>4, <1>5

\* The result is on the topic.
LEMMA SendResultsKeeps ==
  I!TypeOK => \A p \in Partitions : I!PartInv(p) /\ I!SendResults(p) => JobKeeps(p)
<1>. HAVE I!TypeOK
<1>. TAKE p \in Partitions
<1>. HAVE I!PartInv(p) /\ I!SendResults(p)
<1>. DEFINE J == DOMAIN work[p].verdict
<1>1. /\ work[p].pc = "results" /\ I!Publish(p, J)
      /\ work' = [work EXCEPT ![p].pc = "metrics"]
      /\ UNCHANGED <<log, position, committed, call, traps, dlq, folded, missed, faults>>
  BY DEF I!SendResults, I!host
<1>2. ~Idle(p) /\ I!CallAt(p)
  BY <1>1, JobTypes DEF I!PartInv
<1>3. /\ results' \in VerdictType
      /\ \A q \in Partitions \ {p}, o \in Offsets : results'[<<q, o>>] = results[<<q, o>>]
      /\ \A o \in Offsets :
           IF o \in J THEN /\ o = position[p] /\ log[<<p, o>>] = "job"
                           /\ \E c \in Classes : results'[<<p, o>>] = results[<<p, o>>] \cup {c}
           ELSE results'[<<p, o>>] = results[<<p, o>>]
  BY <1>1, <1>2, JobPublish
<1>4. /\ position[p] \in Nat /\ position[p] \in Offsets /\ HandAt(p)
      /\ work[p].at = IF log[<<p, position[p]>>] = "malformed" THEN position[p]
                                                              ELSE position[p] + 1
      /\ J = IF log[<<p, position[p]>>] = "job" THEN {position[p]} ELSE {}
  BY <1>2, JobCall
<1>. HIDE DEF J
<1>5. /\ work'[p].pc = "metrics" /\ work'[p].at = work[p].at
      /\ work'[p].verdict = work[p].verdict /\ work' \in JobType
      /\ \A q \in Partitions \ {p} : work'[q] = work[q]
  <2>1. work \in JobType
    BY JobTypes
  <2>. QED
    BY <1>1, <2>1 DEF JobType
<1>6. HostTypeOK' /\ HostKeeps(p) /\ Others(p) /\ ~Idle(p)'
  BY <1>1, <1>2, <1>3, <1>5, JobTypes, DeliveryAssumption DEF Others, HostKeeps, HostTypeOK, Idle
<1>7. I!TypeOK'
  BY <1>1, <1>3, <1>5, <1>6, JobTypeStep, JobTypes
<1>8. I!CallAt(p)'
  BY <1>1, <1>2, <1>5 DEF I!CallAt, I!HandAt, I!Idle, I!Jobs
<1>9. /\ I!Handled(p) = position[p] /\ I!Reported(p) = position[p]
      /\ I!Handled(p)' = work[p].at /\ I!Reported(p)' = position[p]
  BY <1>1, <1>5 DEF I!Handled, I!Reported
<1>10. I!SettledAt(p)'
  <2>. SUFFICES ASSUME NEW o \in Offsets, o < work[p].at PROVE <<p, o>> \in I!Settled'
    BY <1>9, SameHost DEF I!SettledAt
  <2>1. CASE o < position[p]
    <3>1. <<p, o>> \in I!Settled
      BY <1>9, <2>1, SameHost DEF I!PartInv, I!SettledAt
    <3>2. results[<<p, o>>] \subseteq results'[<<p, o>>]
      BY <1>3
    <3>. QED
      BY <1>1, <3>1, <3>2, JobSettled, JobSettledNext
  <2>2. CASE ~(o < position[p])
    <3>1. o = position[p] /\ log[<<p, o>>] # "malformed"
      BY <1>4, <2>2 DEF Offsets
    <3>2. log[<<p, o>>] \in I!Kinds
      BY JobTypes DEF Records
    <3>3. log[<<p, o>>] = "job" => results'[<<p, o>>] # {}
      BY <1>3, <1>4, <3>1
    <3>. QED
      BY <1>1, <3>1, <3>2, <3>3, JobSettledNext DEF I!Kinds
  <2>. QED
    BY <2>1, <2>2
<1>11. I!OnceAt(p)'
  <2>. SUFFICES ASSUME faults = 0, NEW o \in Offsets
                PROVE  /\ Cardinality(results'[<<p, o>>]) <= 1 /\ dlq[<<p, o>>] <= 1
                       /\ o >= work[p].at => results'[<<p, o>>] = {}
                       /\ o >= position[p] => dlq[<<p, o>>] = 0
    BY <1>1, <1>9, SameHost, SameSize DEF I!OnceAt
  <2>1. /\ Cardinality(results[<<p, o>>]) <= 1 /\ dlq[<<p, o>>] <= 1
        /\ o >= position[p] => results[<<p, o>>] = {} /\ dlq[<<p, o>>] = 0
    BY <1>9, SameHost, SameSize DEF I!PartInv, I!OnceAt
  <2>2. CASE o \notin J
    BY <1>3, <1>4, <2>1, <2>2 DEF Offsets
  <2>3. CASE o \in J
    <3>1. o = position[p] /\ log[<<p, o>>] = "job"
      BY <1>3, <2>3
    <3>2. results[<<p, o>>] = {}
      BY <1>4, <2>1, <3>1
    <3>3. \E c \in Classes : results'[<<p, o>>] = {c}
      BY <1>3, <2>3, <3>2
    <3>4. Cardinality(results'[<<p, o>>]) = 1
      BY <3>3, FS_Singleton
    <3>. QED
      BY <1>4, <2>1, <3>1, <3>4
  <2>. QED
    BY <2>2, <2>3
<1>12. I!CountAt(p)'
  BY <1>1, <1>9 DEF I!PartInv, I!CountAt, I!DeadLetters, I!Jobs
<1>13. Forward(p)
  BY <1>1, <1>3, <1>4 DEF Forward
<1>. QED
  BY <1>6, <1>7, <1>8, <1>10, <1>11, <1>12, <1>13 DEF JobKeeps, I!PartInv

\* The end of a call of ST-04.
JobEnds(p) == CallOver(p) /\ work' = [work EXCEPT ![p] = I!NoWork] /\ results' \in VerdictType

LEMMA JobEndKeeps ==
  I!TypeOK => \A p \in Partitions : I!PartInv(p) /\ ~Idle(p) /\ JobEnds(p) => JobKeeps(p)
<1>. HAVE I!TypeOK
<1>. TAKE p \in Partitions
<1>. HAVE I!PartInv(p) /\ ~Idle(p) /\ JobEnds(p)
<1>1. /\ work'[p] = I!NoWork /\ work' \in JobType /\ work'[p].pc = "idle"
      /\ \A q \in Partitions \ {p} : work'[q] = work[q]
  <2>1. <<>> \in ClassesOf
    BY DEF ClassesOf
  <2>2. /\ I!NoWork \in [pc : {"idle", "results", "metrics", "answer"}, at : 0 .. LogLen,
                         verdict : ClassesOf]
        /\ I!NoWork.pc = "idle"
    BY <2>1, DeliveryAssumption DEF I!NoWork
  <2>. QED
    BY <2>2, JobTypes DEF JobEnds, JobType
<1>2. faults \in Nat /\ faults + 1 # faults /\ faults + 1 # 0
  BY DeliveryAssumption, JobTypes DEF HostTypeOK
<1>3. Others(p)
  BY <1>1, <1>2 DEF JobEnds, CallOver, Others
<1>4. I!TypeOK'
  BY <1>1, <1>3, JobTypeStep, JobTypes DEF JobEnds, CallOver
<1>5. I!CallAt(p)'
  BY OneRecordNext, SameHostNext DEF JobEnds, CallOver, I!CallAt
<1>6. /\ position[p] \in Nat /\ position[p] \in Offsets
      /\ work[p].at \in {position[p], position[p] + 1}
      /\ I!Handled(p) \in {position[p], position[p] + 1}
      /\ I!Reported(p) \in {position[p], position[p] + 1}
      /\ work[p].pc = "answer" => I!Handled(p) = work[p].at /\ I!Reported(p) = work[p].at
      /\ I!Handled(p)' = position'[p] /\ I!Reported(p)' = position'[p]
  <2>1. I!CallAt(p)
    BY DEF I!PartInv
  <2>2. I!Handled(p)' = position'[p] /\ I!Reported(p)' = position'[p]
    BY <1>1 DEF I!Handled, I!Reported
  <2>. QED
    BY <2>1, <2>2, JobCall, JobNumbers DEF I!Handled, I!Reported
<1>7. \A o \in Offsets : /\ dlq'[<<p, o>>] \in Nat /\ dlq[<<p, o>>] \in Nat /\ o \in Nat
                         /\ dlq'[<<p, o>>] >= dlq[<<p, o>>]
  <2>1. \A o \in Offsets : /\ dlq[<<p, o>>] \in Nat /\ o \in Nat
                           /\ dlq'[<<p, o>>] \in {dlq[<<p, o>>], dlq[<<p, o>>] + 1}
    BY HostNumbers, JobTypes DEF JobEnds, CallOver, EndsWith, MovedTo, HeadDead
  <2>. QED
    BY <2>1
<1>8. HeadDead(p) => \A o : ~MovedTo(p, o)
  <2>1. dlq[<<p, position[p]>>] + 1 # dlq[<<p, position[p]>>]
    BY <1>6, <1>7
  <2>. QED
    BY <1>6, <2>1 DEF HeadDead, MovedTo
<1>9. I!SettledAt(p)'
  <2>1. ASSUME NEW o \in Offsets, <<p, o>> \in I!Settled PROVE <<p, o>> \in I!Settled'
    BY <2>1, <1>7, JobSettled, JobSettledNext DEF JobEnds, CallOver
  <2>. SUFFICES ASSUME NEW o \in Offsets, o < position'[p] PROVE <<p, o>> \in I!Settled'
    BY <1>6, SameHost DEF I!SettledAt
  <2>2. o < I!Handled(p) => <<p, o>> \in I!Settled
    BY SameHost DEF I!PartInv, I!SettledAt
  <2>3. CASE position'[p] = position[p] + 1 /\ HeadDead(p)
    <3>1. CASE o = position[p]
      <4>1. dlq'[<<p, o>>] > 0
        BY <1>7, <2>3, <3>1 DEF HeadDead
      <4>. QED
        BY <4>1, JobSettledNext
    <3>2. CASE o # position[p]
      BY <1>6, <1>7, <2>1, <2>2, <2>3, <3>2
    <3>. QED
      BY <3>1, <3>2
  <2>4. CASE position'[p] \in Nat /\ position'[p] <= I!Handled(p)
    BY <1>6, <1>7, <2>1, <2>2, <2>4
  <2>. QED
    BY <1>6, <2>3, <2>4 DEF JobEnds, CallOver, EndsWith, MovedTo, HeadDead
<1>10. I!OnceAt(p)'
  <2>. SUFFICES ASSUME faults' = 0, NEW o \in Offsets
                PROVE  /\ Cardinality(results'[<<p, o>>]) <= 1 /\ dlq'[<<p, o>>] <= 1
                       /\ o >= position'[p] => results'[<<p, o>>] = {} /\ dlq'[<<p, o>>] = 0
    BY <1>6, SameHost, SameSize DEF I!OnceAt
  <2>1. faults' = faults /\ results' = results /\ faults = 0
    BY <1>2 DEF JobEnds, CallOver
  <2>2. /\ Cardinality(results[<<p, o>>]) <= 1 /\ dlq[<<p, o>>] <= 1
        /\ o >= I!Handled(p) => results[<<p, o>>] = {}
        /\ o >= position[p] => dlq[<<p, o>>] = 0
    BY <2>1, SameHost, SameSize DEF I!PartInv, I!OnceAt
  <2>3. position'[p] \in Nat /\ position'[p] >= I!Handled(p)
    <3>1. CASE HeadDead(p)
      BY <1>6, <3>1 DEF HeadDead
    <3>2. CASE MovedTo(p, work[p].at) /\ work[p].pc = "answer"
      BY <1>6, <3>2 DEF MovedTo
    <3>. QED
      BY <1>2, <2>1, <3>1, <3>2 DEF JobEnds, CallOver, EndsWith
  <2>4. o >= position'[p] => results'[<<p, o>>] = {}
    BY <1>6, <1>7, <2>1, <2>2, <2>3
  <2>5. dlq'[<<p, o>>] <= 1 /\ (o >= position'[p] => dlq'[<<p, o>>] = 0)
    <3>1. CASE HeadDead(p)
      <4>1. /\ position'[p] = position[p] + 1
            /\ dlq'[<<p, o>>] = IF o = position[p] THEN dlq[<<p, o>>] + 1 ELSE dlq[<<p, o>>]
        BY <3>1 DEF HeadDead
      <4>. QED
        BY <1>6, <1>7, <2>2, <4>1
    <3>2. CASE ~HeadDead(p)
      <4>1. dlq'[<<p, o>>] = dlq[<<p, o>>]
        BY <1>2, <2>1, <3>2 DEF JobEnds, CallOver, EndsWith, MovedTo
      <4>. QED
        BY <1>6, <1>7, <2>2, <2>3, <4>1
    <3>. QED
      BY <3>1, <3>2
  <2>. QED
    BY <2>1, <2>2, <2>4, <2>5
<1>11. I!CountAt(p)'
  <2>1. /\ \A a, b : I!Jobs(p, a, b)' = I!Jobs(p, a, b)
        /\ folded' = folded /\ missed' = missed /\ log' = log
    BY DEF JobEnds, CallOver, I!Jobs
  <2>2. /\ I!DeadLetters(p) = {o \in Offsets : dlq[<<p, o>>] > 0}
        /\ I!DeadLetters(p)' = {o \in Offsets : dlq'[<<p, o>>] > 0}
    BY SameHost DEF I!DeadLetters
  <2>. SUFFICES ASSUME ~missed[p], \A o \in I!DeadLetters(p)' : log[<<p, o>>] = "malformed"
                PROVE  /\ folded[p].consumed = Cardinality(I!Jobs(p, 0, folded[p].hw))
                       /\ \A o \in I!Jobs(p, 0, position'[p] - 1) : o <= folded[p].hw
    <3>1. I!CountAt(p)' <=>
            (~missed[p] /\ (\A o \in I!DeadLetters(p)' : log[<<p, o>>] = "malformed") =>
               /\ folded[p].consumed = Cardinality(I!Jobs(p, 0, folded[p].hw)')
               /\ \A o \in I!Jobs(p, 0, position'[p] - 1) : o <= folded[p].hw)
      BY <1>6, <2>1, SameSize DEF I!CountAt, I!Jobs
    <3>. QED
      BY <2>1, <3>1 DEF I!Jobs
  <2>3. \A o \in I!DeadLetters(p) : log[<<p, o>>] = "malformed"
    BY <1>7, <2>2
  <2>4. /\ folded[p].consumed = Cardinality(I!Jobs(p, 0, folded[p].hw))
        /\ \A o \in I!Jobs(p, 0, I!Reported(p) - 1) : o <= folded[p].hw
    BY <2>3, SameSize DEF I!PartInv, I!CountAt
  <2>5. ASSUME NEW o \in I!Jobs(p, 0, position'[p] - 1) PROVE o \in I!Jobs(p, 0, I!Reported(p) - 1)
    <3>1. o \in 0 .. position'[p] - 1 /\ log[<<p, o>>] = "job"
      BY DEF I!Jobs
    <3>2. CASE HeadDead(p)
      <4>1. position'[p] = position[p] + 1 /\ position[p] \in I!DeadLetters(p)'
        BY <1>6, <1>7, <2>2, <3>2 DEF HeadDead
      <4>2. o # position[p]
        BY <3>1, <4>1
      <4>. QED
        BY <1>6, <3>1, <4>1, <4>2 DEF I!Jobs
    <3>3. CASE ~HeadDead(p)
      BY <1>6, <3>1, <3>3 DEF JobEnds, CallOver, EndsWith, MovedTo, I!Jobs
    <3>. QED
      BY <3>2, <3>3
  <2>. QED
    BY <2>4, <2>5
<1>12. Forward(p)
  <2>1. position[p] <= position'[p]
    BY <1>6 DEF JobEnds, CallOver, EndsWith, MovedTo, HeadDead
  <2>2. \A o \in Offsets : dlq[<<p, o>>] > 0 => dlq'[<<p, o>>] > 0
    BY <1>7
  <2>. QED
    BY <2>1, <2>2 DEF Forward, JobEnds, CallOver
<1>. QED
  BY <1>3, <1>4, <1>5, <1>9, <1>10, <1>11, <1>12 DEF JobKeeps, I!PartInv

\* A failed send of results, an answer and a trap each end the call.
LEMMA JobCallsEnd ==
  I!TypeOK => \A p \in Partitions : I!PartInv(p) =>
    /\ I!ResultsFail(p) => ~Idle(p) /\ JobEnds(p)
    /\ I!Answer(p) => ~Idle(p) /\ JobEnds(p)
    /\ I!Trap(p) => ~Idle(p) /\ JobEnds(p)
<1>. HAVE I!TypeOK
<1>. TAKE p \in Partitions
<1>. HAVE I!PartInv(p)
<1>0. /\ HostTypeOK /\ HandAt(p) /\ faults \in Nat /\ results \in VerdictType
      /\ Fault => faults' = faults + 1 /\ faults' \in 0 .. MaxFaults
      /\ faults \in 0 .. MaxFaults
      /\ Idle(p) => work[p] = I!NoWork /\ work[p].pc = "idle"
      /\ "transient" \in Verdicts /\ I!CallAt(p)
  <2>1. I!CallAt(p) /\ HostTypeOK /\ results \in VerdictType /\ (Idle(p) <=> work[p].pc = "idle")
        /\ (Idle(p) => work[p] = I!NoWork)
    BY JobTypes DEF I!PartInv
  <2>2. HandAt(p)
    BY <2>1, JobCall
  <2>3. /\ faults \in Nat /\ faults \in 0 .. MaxFaults
        /\ Fault => faults' = faults + 1 /\ faults' \in 0 .. MaxFaults
    BY <2>1, DeliveryAssumption DEF HostTypeOK, Fault
  <2>. QED
    BY <2>1, <2>2, <2>3 DEF Verdicts
<1>1. ASSUME I!ResultsFail(p) PROVE ~Idle(p) /\ JobEnds(p)
  <2>1. PICK kept \in SUBSET DOMAIN work[p].verdict : I!Publish(p, kept)
    BY <1>1 DEF I!ResultsFail
  <2>2. /\ work[p].pc = "results" /\ Fault /\ Answered(p, "transient", 0)
        /\ work' = [work EXCEPT ![p] = I!NoWork] /\ UNCHANGED <<log, folded, missed>>
    BY <1>1, SameHost DEF I!ResultsFail
  <2>3. ~Idle(p)
    BY <1>0, <2>2
  <2>4. /\ results' \in VerdictType
        /\ \A q \in Partitions \ {p}, o \in Offsets : results'[<<q, o>>] = results[<<q, o>>]
        /\ \A o \in Offsets : results[<<p, o>>] \subseteq results'[<<p, o>>]
    <3>1. \A o \in Offsets :
            \/ results'[<<p, o>>] = results[<<p, o>>]
            \/ \E c \in Classes : results'[<<p, o>>] = results[<<p, o>>] \cup {c}
      BY <1>0, <2>1, <2>3, JobPublish
    <3>. QED
      BY <1>0, <2>1, <2>3, <3>1, JobPublish
  <2>5. HostTypeOK' /\ HandAt(p)' /\ Idle(p)' /\ HostKeeps(p) /\ MovedTo(p, position[p])
    BY <1>0, <2>2, <2>3, AnswerEffect
  <2>. QED
    BY <1>0, <2>2, <2>3, <2>4, <2>5 DEF JobEnds, CallOver, EndsWith
<1>2. ASSUME I!Answer(p) PROVE ~Idle(p) /\ JobEnds(p)
  <2>. DEFINE v == IF work[p].at > call[p].last THEN "all"
                   ELSE IF work[p].at > call[p].first THEN "through" ELSE "permanent"
              o == work[p].at - 1
  <2>1. /\ work[p].pc = "answer" /\ Answered(p, v, o)
        /\ work' = [work EXCEPT ![p] = I!NoWork]
        /\ UNCHANGED <<log, results, folded, missed, faults>>
    BY <1>2, SameHost DEF I!Answer
  <2>2. ~Idle(p)
    BY <1>0, <2>1
  <2>3. /\ position[p] \in Nat /\ call[p].first = position[p] /\ call[p].last = position[p]
        /\ work[p].at = IF log[<<p, position[p]>>] = "malformed" THEN position[p]
                                                                ELSE position[p] + 1
    BY <1>0, <2>2, JobCall
  <2>4. /\ v \in Verdicts /\ o \in Int /\ v # "through" /\ v # "transient"
        /\ v = "all" => work[p].at = call[p].last + 1
        /\ v = "permanent" => work[p].at = position[p] /\ log[<<p, position[p]>>] = Malformed
    BY <2>3 DEF Verdicts, Malformed
  <2>. HIDE DEF v, o
  <2>5. /\ HostTypeOK' /\ HandAt(p)' /\ Idle(p)' /\ HostKeeps(p)
        /\ v = "all" => MovedTo(p, call[p].last + 1)
        /\ v = "permanent" => HeadDead(p)
    BY <1>0, <2>1, <2>2, <2>4, AnswerEffect
  <2>6. EndsWith(p)
    BY <2>1, <2>4, <2>5 DEF EndsWith, Verdicts
  <2>. QED
    BY <1>0, <2>1, <2>2, <2>5, <2>6 DEF JobEnds, CallOver
<1>3. ASSUME I!Trap(p) PROVE ~Idle(p) /\ JobEnds(p)
  <2>1. /\ work[p] # I!NoWork /\ Fault /\ Trapped(p)
        /\ work' = [work EXCEPT ![p] = I!NoWork]
        /\ UNCHANGED <<log, results, folded, missed>>
    BY <1>3, SameHost DEF I!Trap
  <2>2. ~Idle(p)
    BY <1>0, <2>1
  <2>3. /\ HostTypeOK' /\ HandAt(p)' /\ Idle(p)' /\ HostKeeps(p)
        /\ MovedTo(p, position[p]) \/ HeadDead(p)
    BY <1>0, <2>1, <2>2, TrapEffect
  <2>. QED
    BY <1>0, <2>1, <2>2, <2>3 DEF JobEnds, CallOver, EndsWith
<1>. QED
  BY <1>1, <1>2, <1>3

\* How the dashboard folds the report of one job: counted if it is ahead of the
\* partition's mark, which it then moves to, or a redelivery.
LEMMA FoldOne ==
  \A d \in [hw : -1 .. LogLen - 1, consumed : Nat, redelivered : Nat] : \A o \in Offsets :
    /\ I!FoldConsumed(d, 1, o, o) \in [hw : -1 .. LogLen - 1, consumed : Nat, redelivered : Nat]
    /\ o > d.hw => /\ I!FoldConsumed(d, 1, o, o).hw = o
                   /\ I!FoldConsumed(d, 1, o, o).consumed = d.consumed + 1
    /\ o <= d.hw => /\ I!FoldConsumed(d, 1, o, o).hw = d.hw
                    /\ I!FoldConsumed(d, 1, o, o).consumed = d.consumed
<1>. TAKE d \in [hw : -1 .. LogLen - 1, consumed : Nat, redelivered : Nat]
<1>. TAKE o \in Offsets
<1>. DEFINE span    == I!Positive(o - o + 1)
            newSpan == I!Positive(o - I!Higher(o, d.hw + 1) + 1)
            fresh   == IF span > 0 THEN (1 * newSpan) \div span ELSE 1
            e == I!FoldConsumed(d, 1, o, o)
<1>1. /\ o \in -1 .. LogLen - 1 /\ d.hw \in -1 .. LogLen - 1 /\ d.consumed \in Nat
      /\ d.redelivered \in Nat /\ o \in Int /\ d.hw \in Int
  BY DeliveryAssumption DEF Offsets
<1>2. span = 1
  BY <1>1 DEF I!Positive
<1>3. newSpan = IF o > d.hw THEN 1 ELSE 0
  BY <1>1 DEF I!Positive, I!Higher
<1>. HIDE DEF span, newSpan
<1>4. fresh = IF o > d.hw THEN 1 ELSE 0
  BY <1>2, <1>3
<1>5. e = [hw |-> I!Higher(d.hw, o), consumed |-> d.consumed + fresh,
           redelivered |-> d.redelivered + (1 - fresh)]
  BY DEF I!FoldConsumed, span, newSpan
<1>. HIDE DEF e, fresh
<1>6. e.hw = IF d.hw > o THEN d.hw ELSE o
  BY <1>5 DEF I!Higher
<1>7. e.consumed = d.consumed + fresh /\ e.redelivered = d.redelivered + (1 - fresh)
  BY <1>5
<1>8. e.hw \in -1 .. LogLen - 1 /\ e.consumed \in Nat /\ e.redelivered \in Nat
  BY <1>1, <1>4, <1>6, <1>7
<1>9. e \in [hw : -1 .. LogLen - 1, consumed : Nat, redelivered : Nat]
  BY <1>5, <1>8
<1>. QED
  BY <1>1, <1>4, <1>6, <1>7, <1>9 DEF e

\* The metrics of ST-04: counted on the dashboard, or lost.
LEMMA JobMetricsKeep ==
  I!TypeOK => \A p \in Partitions :
    I!PartInv(p) /\ (I!SendMetrics(p) \/ I!MetricsLost(p)) => JobKeeps(p)
<1>. HAVE I!TypeOK
<1>. TAKE p \in Partitions
<1>. HAVE I!PartInv(p) /\ (I!SendMetrics(p) \/ I!MetricsLost(p))
<1>. DEFINE J == DOMAIN work[p].verdict
            d == folded[p]
            n == position[p]
<1>1. /\ work[p].pc = "metrics" /\ work' = [work EXCEPT ![p].pc = "answer"]
      /\ UNCHANGED <<log, position, committed, call, traps, dlq, results>>
      /\ \/ /\ J # {} => folded' = [folded EXCEPT ![p] =
                            I!FoldConsumed(@, I!Cardinality(J), call[p].first, call[p].last)]
            /\ J = {} => folded' = folded
            /\ UNCHANGED <<missed, faults>>
         \/ Fault /\ missed' = [missed EXCEPT ![p] = TRUE] /\ folded' = folded
  BY SameHost DEF I!SendMetrics, I!MetricsLost, I!Miss, I!host
<1>2. ~Idle(p) /\ I!CallAt(p)
  BY <1>1, JobTypes DEF I!PartInv
<1>3. /\ n \in Nat /\ n \in Offsets /\ HandAt(p)
      /\ work[p].at = IF log[<<p, n>>] = "malformed" THEN n ELSE n + 1
      /\ J = IF log[<<p, n>>] = "job" THEN {n} ELSE {}
      /\ call[p].first = n /\ call[p].last = n
  BY <1>2, JobCall
<1>4. /\ work'[p].pc = "answer" /\ work'[p].at = work[p].at
      /\ work'[p].verdict = work[p].verdict /\ work' \in JobType
      /\ \A q \in Partitions \ {p} : work'[q] = work[q]
  <2>1. work \in JobType
    BY JobTypes
  <2>. QED
    BY <1>1, <2>1 DEF JobType
<1>. HIDE DEF J
<1>5. d \in [hw : -1 .. LogLen - 1, consumed : Nat, redelivered : Nat]
  BY JobTypes DEF MarkedType
<1>6. /\ folded' \in MarkedType /\ missed' \in [Partitions -> BOOLEAN]
      /\ \A q \in Partitions \ {p} : folded'[q] = folded[q] /\ missed'[q] = missed[q]
      /\ faults' \in {faults, faults + 1} /\ faults' \in 0 .. MaxFaults
      /\ \/ /\ missed'[p] = missed[p] /\ J # {}
            /\ folded'[p] = I!FoldConsumed(d, 1, n, n)
         \/ missed'[p] = missed[p] /\ J = {} /\ folded'[p] = d
         \/ missed'[p]
  <2>0. /\ folded \in MarkedType /\ missed \in [Partitions -> BOOLEAN] /\ faults \in 0 .. MaxFaults
    BY JobTypes DEF HostTypeOK
  <2>1. CASE /\ J # {}
             /\ folded' = [folded EXCEPT ![p] =
                             I!FoldConsumed(@, I!Cardinality(J), call[p].first, call[p].last)]
             /\ UNCHANGED <<missed, faults>>
    <3>. DEFINE e == I!FoldConsumed(d, 1, n, n)
    <3>1. I!Cardinality(J) = 1
      BY <1>3, <2>1, SameSize, FS_Singleton
    <3>2. e \in [hw : -1 .. LogLen - 1, consumed : Nat, redelivered : Nat]
      BY <1>3, <1>5, FoldOne
    <3>3. folded' = [folded EXCEPT ![p] = e]
      BY <1>3, <2>1, <3>1
    <3>. HIDE DEF e
    <3>4. folded' \in MarkedType /\ folded'[p] = e
          /\ \A q \in Partitions \ {p} : folded'[q] = folded[q]
      BY <2>0, <3>2, <3>3 DEF MarkedType
    <3>. QED
      BY <2>0, <2>1, <3>4 DEF e
  <2>2. CASE J = {} /\ folded' = folded /\ UNCHANGED <<missed, faults>>
    BY <2>0, <2>2
  <2>3. CASE Fault /\ missed' = [missed EXCEPT ![p] = TRUE] /\ folded' = folded
    BY <2>0, <2>3, DeliveryAssumption DEF Fault
  <2>. QED
    BY <1>1, <2>1, <2>2, <2>3
<1>7. HostTypeOK' /\ HostKeeps(p) /\ Others(p) /\ ~Idle(p)'
  BY <1>1, <1>2, <1>4, <1>6, JobTypes, DeliveryAssumption DEF Others, HostKeeps, HostTypeOK, Idle
<1>8. I!TypeOK'
  BY <1>1, <1>4, <1>6, <1>7, JobTypeStep, JobTypes
<1>9. I!CallAt(p)'
  BY <1>1, <1>2, <1>4 DEF I!CallAt, I!HandAt, I!Idle, I!Jobs
<1>10. /\ I!Handled(p) = work[p].at /\ I!Reported(p) = n
       /\ I!Handled(p)' = work[p].at /\ I!Reported(p)' = work[p].at
  BY <1>1, <1>4 DEF I!Handled, I!Reported
<1>11. I!SettledAt(p)'
  <2>1. I!Settled' = I!Settled
    BY <1>1 DEF I!Settled
  <2>. QED
    BY <1>10, <2>1 DEF I!PartInv, I!SettledAt
<1>12. I!OnceAt(p)'
  <2>1. faults' = 0 => faults = 0
    BY <1>6, JobTypes DEF HostTypeOK
  <2>. QED
    BY <1>1, <1>10, <2>1 DEF I!PartInv, I!OnceAt
<1>13. I!CountAt(p)'
  <2>. DEFINE f == folded'[p]
  <2>1. /\ \A a, b : I!Jobs(p, a, b)' = I!Jobs(p, a, b)
        /\ I!DeadLetters(p)' = I!DeadLetters(p)
    BY <1>1 DEF I!Jobs, I!DeadLetters
  <2>. SUFFICES ASSUME ~missed'[p], \A o \in I!DeadLetters(p) : log[<<p, o>>] = "malformed"
                PROVE  /\ f.consumed = Cardinality(I!Jobs(p, 0, f.hw))
                       /\ \A o \in I!Jobs(p, 0, work[p].at - 1) : o <= f.hw
    <3>1. I!CountAt(p)' <=>
            (~missed'[p] /\ (\A o \in I!DeadLetters(p)' : log'[<<p, o>>] = "malformed") =>
               /\ f.consumed = Cardinality(I!Jobs(p, 0, folded[p].hw)')
               /\ \A o \in I!Jobs(p, 0, I!Reported(p) - 1)' : o <= f.hw)
      BY SameSize DEF I!CountAt
    <3>2. I!Jobs(p, 0, folded[p].hw)' = I!Jobs(p, 0, f.hw)
      BY <1>1 DEF I!Jobs
    <3>3. I!Jobs(p, 0, I!Reported(p) - 1)' = I!Jobs(p, 0, work[p].at - 1)
      BY <1>1, <1>10 DEF I!Jobs
    <3>. HIDE DEF f
    <3>. QED
      BY <1>1, <2>1, <3>1, <3>2, <3>3
  <2>2. ~missed[p] /\ missed'[p] = missed[p]
    BY <1>6
  <2>3. /\ d.consumed = Cardinality(I!Jobs(p, 0, d.hw))
        /\ \A o \in I!Jobs(p, 0, n - 1) : o <= d.hw
    BY <1>10, <2>2, SameSize DEF I!PartInv, I!CountAt
  <2>4. d.hw \in Int /\ d.consumed \in Nat
    BY <1>5
  <2>5. CASE J # {} /\ n > d.hw
    <3>1. f.hw = n /\ f.consumed = d.consumed + 1
      BY <1>3, <1>5, <1>6, <2>2, <2>5, FoldOne
    <3>2. log[<<p, n>>] = "job" /\ work[p].at = n + 1
      BY <1>3, <2>5
    <3>3. I!Jobs(p, 0, n) = I!Jobs(p, 0, d.hw) \cup {n} /\ n \notin I!Jobs(p, 0, d.hw)
      <4>1. \A o \in I!Jobs(p, 0, n) : o = n \/ o \in I!Jobs(p, 0, d.hw)
        <5>. TAKE o \in I!Jobs(p, 0, n)
        <5>1. o \in 0 .. n /\ log[<<p, o>>] = "job"
          BY DEF I!Jobs
        <5>2. CASE o # n
          <6>1. o \in I!Jobs(p, 0, n - 1)
            BY <1>3, <5>1, <5>2 DEF I!Jobs
          <6>. QED
            BY <2>3, <2>4, <5>1, <6>1 DEF I!Jobs
        <5>. QED
          BY <5>2
      <4>2. \A o \in I!Jobs(p, 0, d.hw) : o \in I!Jobs(p, 0, n) /\ o # n
        BY <1>3, <2>4, <2>5 DEF I!Jobs
      <4>3. n \in I!Jobs(p, 0, n)
        BY <1>3, <3>2 DEF I!Jobs
      <4>. QED
        BY <4>1, <4>2, <4>3
    <3>4. IsFiniteSet(I!Jobs(p, 0, d.hw))
      <4>1. I!Jobs(p, 0, d.hw) \subseteq 0 .. d.hw /\ d.hw \in Int /\ 0 \in Int
        BY <2>4 DEF I!Jobs
      <4>2. IsFiniteSet(0 .. d.hw)
        BY <4>1, FS_Interval
      <4>. QED
        BY <4>1, <4>2, FS_Subset
    <3>5. Cardinality(I!Jobs(p, 0, n)) = d.consumed + 1
      BY <2>3, <3>3, <3>4, FS_AddElement
    <3>6. \A o \in I!Jobs(p, 0, n) : o <= n
      BY <1>3 DEF I!Jobs
    <3>7. work[p].at - 1 = n
      BY <1>3, <3>2
    <3>. HIDE DEF f
    <3>. QED
      BY <3>1, <3>5, <3>6, <3>7
  <2>6. CASE ~(J # {} /\ n > d.hw)
    <3>1. f.hw = d.hw /\ f.consumed = d.consumed
      BY <1>3, <1>5, <1>6, <2>2, <2>4, <2>6, FoldOne
    <3>2. \A o \in I!Jobs(p, 0, work[p].at - 1) : o <= d.hw
      <4>. TAKE o \in I!Jobs(p, 0, work[p].at - 1)
      <4>1. o \in 0 .. work[p].at - 1 /\ log[<<p, o>>] = "job"
        BY DEF I!Jobs
      <4>2. o \in 0 .. n
        BY <1>3, <4>1
      <4>3. CASE o = n
        BY <1>3, <2>4, <2>6, <4>1, <4>3
      <4>4. CASE o # n
        <5>1. o \in I!Jobs(p, 0, n - 1)
          BY <1>3, <4>1, <4>2, <4>4 DEF I!Jobs
        <5>. QED
          BY <2>3, <5>1
      <4>. QED
        BY <4>3, <4>4
    <3>. HIDE DEF f
    <3>. QED
      BY <2>3, <3>1, <3>2
  <2>. QED
    BY <2>5, <2>6
<1>14. Forward(p)
  BY <1>1, <1>3 DEF Forward
<1>. QED
  BY <1>7, <1>8, <1>9, <1>11, <1>12, <1>13, <1>14 DEF JobKeeps, I!PartInv

\* A commit.
LEMMA JobCommitKeeps ==
  I!TypeOK => \A p \in Partitions : I!PartInv(p) /\ I!Commit(p) => JobKeeps(p)
<1>. HAVE I!TypeOK
<1>. TAKE p \in Partitions
<1>. HAVE I!PartInv(p) /\ I!Commit(p)
<1>1. /\ CommitPosition(p) /\ UNCHANGED <<log, work, results, folded, missed, faults>>
      /\ UNCHANGED <<position, call, dlq>>
  BY SameHost DEF I!Commit, CommitPosition
<1>2. /\ HandAt(p) /\ position[p] \in Nat /\ (~Idle(p) => call[p].last = position[p])
  BY JobCall DEF I!PartInv
<1>3. /\ HostTypeOK' /\ HandAt(p)' /\ HostKeeps(p) /\ (Idle(p)' <=> Idle(p))
  BY <1>1, <1>2, CommitEffect, JobTypes
<1>4. Others(p)
  BY <1>1, <1>3, DeliveryAssumption, JobTypes DEF Others, HostTypeOK
<1>5. I!TypeOK'
  BY <1>1, <1>3, <1>4, JobTypeStep, JobTypes
<1>6. I!CallAt(p)'
  <2>1. I!HandAt(p)'
    BY <1>1, <1>2, <1>3, OneRecordNext
  <2>. QED
    BY <1>1, <1>3, <2>1, SameHost, SameHostNext DEF I!PartInv, I!CallAt, I!Jobs
<1>7. /\ I!Handled(p)' = I!Handled(p) /\ I!Reported(p)' = I!Reported(p)
      /\ I!Settled' = I!Settled
  BY <1>1 DEF I!Handled, I!Reported, I!Settled
<1>8. I!SettledAt(p)' /\ I!OnceAt(p)'
  BY <1>1, <1>7 DEF I!PartInv, I!SettledAt, I!OnceAt
<1>9. I!CountAt(p)'
  BY <1>1, <1>7 DEF I!PartInv, I!CountAt, I!DeadLetters, I!Jobs
<1>10. Forward(p)
  BY <1>1, <1>2 DEF Forward
<1>. QED
  BY <1>4, <1>5, <1>6, <1>8, <1>9, <1>10 DEF JobKeeps, I!PartInv

\* A restart of ST-04: every partition is back at what was committed.
LEMMA JobRestartKeeps ==
  I!Inv /\ I!Restart =>
    I!Inv' /\ position' = committed /\ I!Settled' = I!Settled
<1>. HAVE I!Inv /\ I!Restart
<1>0. I!TypeOK /\ \A p \in Partitions : I!PartInv(p)
  BY DEF I!Inv
<1>1. /\ HostRestarts /\ faults \in Nat /\ faults' = faults + 1 /\ faults' \in 0 .. MaxFaults
      /\ work' = [p \in Partitions |-> I!NoWork] /\ UNCHANGED <<log, results, folded, missed>>
  BY <1>0, DeliveryAssumption, SameHost, JobTypes DEF I!Restart, Fault, HostTypeOK
<1>2. /\ HostTypeOK' /\ position' = committed /\ dlq' = dlq
      /\ \A p \in Partitions : HandAt(p)' /\ Idle(p)'
  BY <1>0, <1>1, RestartEffect, JobTypes
<1>3. I!Settled' = I!Settled
  BY <1>1, <1>2 DEF I!Settled
<1>4. I!TypeOK'
  <2>1. <<>> \in ClassesOf
    BY DEF ClassesOf
  <2>2. /\ I!NoWork \in [pc : {"idle", "results", "metrics", "answer"}, at : 0 .. LogLen,
                         verdict : ClassesOf]
        /\ I!NoWork.pc = "idle"
    BY <2>1, DeliveryAssumption DEF I!NoWork
  <2>3. work' \in JobType
    BY <1>1, <2>2 DEF JobType
  <2>. QED
    BY <1>0, <1>1, <1>2, <2>2, <2>3, JobTypes, JobTypesNext
<1>5. ASSUME NEW p \in Partitions PROVE I!PartInv(p)'
  <2>1. /\ I!PartInv(p) /\ I!TypeOK /\ work'[p] = I!NoWork /\ position'[p] = committed[p]
        /\ committed[p] \in Nat /\ I!NoWork.pc = "idle"
    BY <1>0, <1>1, <1>2, JobTypes, DeliveryAssumption DEF HostTypeOK, I!NoWork
  <2>2. /\ I!Handled(p) \in {position[p], position[p] + 1}
        /\ I!Reported(p) \in {position[p], position[p] + 1}
        /\ committed[p] <= position[p] /\ position[p] \in Nat
    BY <2>1, JobNumbers, JobCall DEF I!PartInv, HandAt
  <2>3. I!Handled(p)' = committed[p] /\ I!Reported(p)' = committed[p]
    BY <2>1 DEF I!Handled, I!Reported
  <2>4. I!CallAt(p)'
    BY <1>2, OneRecordNext, SameHostNext DEF I!CallAt
  <2>5. I!SettledAt(p)'
    <3>1. \A o \in Offsets : o < committed[p] => o < I!Handled(p)
      BY <2>1, <2>2, DeliveryAssumption DEF Offsets
    <3>. QED
      BY <1>3, <2>1, <2>3, <3>1, SameHost DEF I!PartInv, I!SettledAt
  <2>6. I!OnceAt(p)'
    BY <1>1 DEF I!OnceAt
  <2>7. I!CountAt(p)'
    <3>1. I!DeadLetters(p)' = I!DeadLetters(p)
      BY <1>2 DEF I!DeadLetters
    <3>2. \A a, b : I!Jobs(p, a, b)' = I!Jobs(p, a, b)
      BY <1>1 DEF I!Jobs
    <3>3. \A o \in I!Jobs(p, 0, committed[p] - 1) : o \in I!Jobs(p, 0, I!Reported(p) - 1)
      BY <2>1, <2>2 DEF I!Jobs
    <3>4. I!Jobs(p, 0, I!Reported(p) - 1)' = I!Jobs(p, 0, committed[p] - 1)
      BY <1>1, <2>3 DEF I!Jobs
    <3>5. I!Jobs(p, 0, folded[p].hw)' = I!Jobs(p, 0, folded[p].hw)
      BY <1>1 DEF I!Jobs
    <3>. QED
      BY <1>1, <2>1, <3>1, <3>3, <3>4, <3>5 DEF I!PartInv, I!CountAt
  <2>. QED
    BY <2>4, <2>5, <2>6, <2>7 DEF I!PartInv
<1>. QED
  BY <1>2, <1>3, <1>4, <1>5 DEF I!Inv

\* ST-04's step, in the words of MoldCureStep.
LEMMA InspectionStep ==
  I!Inv /\ (I!Next \/ UNCHANGED vars) =>
    /\ I!Inv' /\ I!Settled \subseteq I!Settled'
    /\ \/ position' = committed /\ I!Settled' = I!Settled
       \/ \A p \in Partitions : position[p] <= position'[p]
<1>. HAVE I!Inv /\ (I!Next \/ UNCHANGED vars)
<1>0. I!TypeOK /\ \A p \in Partitions : I!PartInv(p) /\ position[p] \in Nat
  BY DeliveryAssumption, JobTypes DEF I!Inv, HostTypeOK
<1>1. ASSUME NEW p \in Partitions, JobKeeps(p)
      PROVE  /\ I!Inv' /\ I!Settled \subseteq I!Settled'
             /\ \A q \in Partitions : position[q] <= position'[q]
  <2>1. \A q \in Partitions : I!PartInv(q)'
    BY <1>0, <1>1, JobOthersKeep, JobTypesNext DEF JobKeeps
  <2>2. ASSUME NEW r \in I!Settled PROVE r \in I!Settled'
    <3>1. PICK q \in Partitions, o \in Offsets : r = <<q, o>>
      BY SameHost DEF I!Settled, Records
    <3>2. /\ log' = log /\ (dlq[<<q, o>>] > 0 => dlq'[<<q, o>>] > 0)
          /\ results[<<q, o>>] \subseteq results'[<<q, o>>]
      <4>1. CASE q = p
        BY <1>1, <4>1 DEF JobKeeps, Others, Forward
      <4>2. CASE q # p
        <5>1. dlq'[<<q, o>>] = dlq[<<q, o>>] /\ results'[<<q, o>>] = results[<<q, o>>] /\ log' = log
          BY <1>1, <4>2 DEF JobKeeps, Others, HostKeeps
        <5>. QED
          BY <5>1
      <4>. QED
        BY <4>1, <4>2
    <3>. QED
      BY <2>2, <3>1, <3>2, JobSettled, JobSettledNext
  <2>3. \A q \in Partitions : position[q] <= position'[q]
    BY <1>0, <1>1 DEF JobKeeps, Others, HostKeeps, Forward
  <2>. QED
    BY <1>1, <2>1, <2>2, <2>3 DEF I!Inv, JobKeeps
<1>2. CASE I!Restart
  BY <1>2, JobRestartKeeps
<1>3. ASSUME NEW p \in Partitions,
             \/ I!Handle(p) \/ I!SendResults(p) \/ I!SendMetrics(p) \/ I!Answer(p) \/ I!Commit(p)
             \/ I!ResultsFail(p) \/ I!MetricsLost(p) \/ I!Trap(p)
      PROVE  JobKeeps(p)
  BY <1>0, <1>3, JobHandleKeeps, SendResultsKeeps, JobMetricsKeep, JobCommitKeeps, JobCallsEnd,
     JobEndKeeps
<1>4. CASE UNCHANGED vars
  <2>0. UNCHANGED <<log, position, committed, call, traps, dlq, faults, work, results, folded, missed>>
    BY <1>4 DEF vars, host
  <2>1. I!TypeOK'
    <3>1. HostTypeOK'
      BY <1>0, <2>0, JobTypes DEF HostTypeOK
    <3>2. \A p \in Partitions : Idle(p)' <=> Idle(p)
      BY <2>0 DEF Idle
    <3>. QED
      BY <1>0, <2>0, <3>1, <3>2, JobTypes, JobTypesNext
  <2>2. I!Settled' = I!Settled /\ position' = position
    BY <2>0 DEF I!Settled
  <2>3. ASSUME NEW p \in Partitions PROVE I!PartInv(p)'
    <3>1. I!Handled(p)' = I!Handled(p) /\ I!Reported(p)' = I!Reported(p)
      BY <2>0 DEF I!Handled, I!Reported
    <3>2. I!CallAt(p)'
      BY <1>0, <2>0 DEF I!PartInv, I!CallAt, I!HandAt, I!Idle, I!Jobs
    <3>3. I!SettledAt(p)' /\ I!OnceAt(p)'
      BY <1>0, <2>0, <2>2, <3>1 DEF I!PartInv, I!SettledAt, I!OnceAt
    <3>4. I!CountAt(p)'
      BY <1>0, <2>0, <3>1 DEF I!PartInv, I!CountAt, I!DeadLetters, I!Jobs
    <3>. QED
      BY <3>2, <3>3, <3>4 DEF I!PartInv
  <2>. QED
    BY <1>0, <2>1, <2>2, <2>3 DEF I!Inv
<1>. QED
  BY <1>1, <1>2, <1>3, <1>4 DEF I!Next

\* A fresh ST-04.
LEMMA InspectionStarts == I!Init => I!Inv
<1>. HAVE I!Init
<1>1. /\ HostTypeOK /\ HostInit
      /\ \A p \in Partitions : HandAt(p) /\ Idle(p) /\ position[p] = 0
  BY HostStarts, SameHost DEF I!Init
<1>2. /\ I!NoWork \in [pc : {"idle", "results", "metrics", "answer"}, at : 0 .. LogLen,
                       verdict : ClassesOf]
      /\ I!NoWork.pc = "idle"
      /\ I!NothingFolded.hw = -1 /\ I!NothingFolded.consumed = 0
  <2>1. <<>> \in ClassesOf
    BY DEF ClassesOf
  <2>. QED
    BY <2>1, DeliveryAssumption DEF I!NoWork, I!NothingFolded
<1>3. /\ work = [p \in Partitions |-> I!NoWork] /\ results = [r \in Records |-> {}]
      /\ folded = [p \in Partitions |-> I!NothingFolded]
      /\ missed = [p \in Partitions |-> FALSE] /\ log \in [Records -> I!Kinds]
  BY SameHost DEF I!Init
<1>4. I!TypeOK
  <2>1. I!NothingFolded \in [hw : -1 .. LogLen - 1, consumed : Nat, redelivered : Nat]
    BY DeliveryAssumption DEF I!NothingFolded
  <2>. QED
    BY <1>1, <1>2, <1>3, <2>1, JobTypes DEF JobType, VerdictType, MarkedType
<1>5. ASSUME NEW p \in Partitions PROVE I!PartInv(p)
  <2>1. /\ work[p] = I!NoWork /\ position[p] = 0 /\ folded[p] = I!NothingFolded
        /\ \A o \in Offsets : <<p, o>> \in Records /\ o \in Nat
        /\ \A r \in Records : results[r] = {} /\ dlq[r] = 0
    BY <1>1, <1>3, SameHost DEF I!Init, HostInit, Records, Offsets
  <2>2. I!Handled(p) = 0 /\ I!Reported(p) = 0
    BY <1>2, <2>1 DEF I!Handled, I!Reported
  <2>3. I!CallAt(p) /\ I!SettledAt(p)
    BY <1>1, <2>1, <2>2, OneRecord, SameHost DEF I!CallAt, I!SettledAt
  <2>4. I!OnceAt(p)
    BY <2>1, SameHost, SameSize, FS_EmptySet DEF I!OnceAt
  <2>5. I!CountAt(p)
    <3>1. I!Jobs(p, 0, -1) = {} /\ I!Jobs(p, 0, 0 - 1) = {}
      BY DEF I!Jobs
    <3>. QED
      BY <1>2, <2>1, <2>2, <3>1, SameSize, FS_EmptySet DEF I!CountAt
  <2>. QED
    BY <2>3, <2>4, <2>5 DEF I!PartInv
<1>. QED
  BY <1>4, <1>5 DEF I!Inv

\* ST-04's results while nothing fails, and its sum.
LEMMA InspectionResults == I!Inv => I!OneVerdict /\ I!Balanced
<1>. HAVE I!Inv
<1>0. I!TypeOK /\ \A p \in Partitions : I!PartInv(p)
  BY DEF I!Inv
<1>1. I!OneVerdict
  <2>1. ASSUME faults = 0, NEW p \in Partitions, NEW o \in Offsets
        PROVE  I!Cardinality(results[<<p, o>>]) <= 1
    BY <1>0, <2>1, SameHost DEF I!PartInv, I!OnceAt
  <2>2. \A r \in Records : \E p \in Partitions, o \in Offsets : r = <<p, o>>
    BY DEF Records
  <2>. QED
    BY <2>1, <2>2, SameHost DEF I!OneVerdict
<1>2. ASSUME NEW p \in Partitions, position[p] = LogLen, Idle(p), ~missed[p],
             \A o \in DeadLetters(p) : log[<<p, o>>] = "malformed"
      PROVE  LET sum   == folded[p].consumed + Cardinality(DlqRecords(p))
                 whole == Cardinality({o \in Offsets : log[<<p, o>>] # "tombstone"})
             IN  /\ sum >= whole
                 /\ sum = whole <=> (\A o \in Offsets : dlq[<<p, o>>] <= 1)
                 /\ faults = 0 => sum = whole
  <2>. DEFINE jobs    == I!Jobs(p, 0, folded[p].hw)
              dead    == DeadLetters(p)
              written == Cardinality(DlqRecords(p))
              whole   == Cardinality({o \in Offsets : log[<<p, o>>] # "tombstone"})
              once    == \A o \in Offsets : dlq[<<p, o>>] <= 1
  <2>1. I!Handled(p) = LogLen /\ I!Reported(p) = LogLen
    BY <1>0, <1>2, JobTypes DEF I!Handled, I!Reported
  <2>2. /\ folded[p].consumed = Cardinality(jobs)
        /\ \A o \in I!Jobs(p, 0, LogLen - 1) : o <= folded[p].hw
    BY <1>0, <1>2, <2>1, SameHost, SameSize DEF I!PartInv, I!CountAt
  <2>3. folded[p].hw \in -1 .. LogLen - 1 /\ LogLen \in Nat
    BY <1>0, JobTypes, DeliveryAssumption DEF MarkedType
  <2>4. \A o \in Offsets : o \in jobs <=> log[<<p, o>>] = "job"
    <3>1. \A o \in Offsets : log[<<p, o>>] = "job" => o \in I!Jobs(p, 0, LogLen - 1)
      BY DEF I!Jobs, Offsets
    <3>. QED
      BY <2>2, <2>3, <3>1 DEF I!Jobs, Offsets
  <2>5. \A o \in Offsets : o \in dead <=> log[<<p, o>>] = "malformed"
    <3>1. ASSUME NEW o \in Offsets, log[<<p, o>>] = "malformed" PROVE dlq[<<p, o>>] > 0
      <4>1. o < I!Handled(p)
        BY <2>1, <2>3 DEF Offsets
      <4>2. <<p, o>> \in I!Settled
        BY <1>0, <4>1, SameHost DEF I!PartInv, I!SettledAt
      <4>. QED
        BY <3>1, <4>2, JobSettled
    <3>. QED
      BY <1>2, <3>1 DEF DeadLetters
  <2>6. jobs \subseteq Offsets /\ dead \subseteq Offsets
    BY <2>3 DEF I!Jobs, DeadLetters, Offsets
  <2>7. \A o \in Offsets : log[<<p, o>>] \in {"job", "malformed", "tombstone"}
    BY <1>0, JobTypes DEF Records, I!Kinds
  <2>. HIDE DEF jobs, dead
  <2>8. /\ jobs \cup dead = {o \in Offsets : log[<<p, o>>] # "tombstone"}
        /\ jobs \cap dead = {}
    BY <2>4, <2>5, <2>6, <2>7
  <2>9. IsFiniteSet(Offsets)
    BY <2>3, FS_Interval DEF Offsets
  <2>10. IsFiniteSet(jobs) /\ IsFiniteSet(dead)
    BY <2>6, <2>9, FS_Subset
  <2>11. Cardinality(jobs \cup dead)
           = Cardinality(jobs) + Cardinality(dead) - Cardinality(jobs \cap dead)
    BY <2>10, FS_Union
  <2>12. Cardinality(jobs \cap dead) = 0
    BY <2>8, FS_EmptySet
  <2>13. Cardinality(jobs) \in Nat /\ Cardinality(dead) \in Nat
    BY <2>10, FS_CardinalityType
  <2>. HIDE DEF whole, once
  <2>14. whole = Cardinality(jobs) + Cardinality(dead) /\ folded[p].consumed = Cardinality(jobs)
    <3>1. whole = Cardinality(jobs \cup dead)
      BY <2>8 DEF whole
    <3>. QED
      BY <2>2, <2>11, <2>12, <2>13, <3>1
  <2>15. /\ written \in Nat /\ written >= Cardinality(dead)
         /\ written = Cardinality(dead) <=> once
    BY <1>0, JobTypes, DeadLetterCount DEF dead, once
  <2>16. faults = 0 => once
    BY <1>0, SameHost DEF I!PartInv, I!OnceAt, once
  <2>. HIDE DEF written
  <2>17. /\ folded[p].consumed + written >= whole
         /\ folded[p].consumed + written = whole <=> once
    BY <2>13, <2>14, <2>15
  <2>. QED
    BY <2>16, <2>17 DEF written, whole, once
<1>3. I!Balanced
  BY <1>2, SameHost, SameSize DEF I!Balanced
<1>. QED
  BY <1>1, <1>3

-----------------------------------------------------------------------------
(***************************************************************************)
(* Both stations.                                                          *)
(***************************************************************************)

\* The step of either: the invariant is kept, nothing settled is lost, and a
\* position falls back only to what is committed.
LEMMA StationStep ==
  MCInv /\ [MCNext]_<<vars, station>> =>
    /\ MCInv' /\ station' = station /\ MCSettled \subseteq MCSettled'
    /\ \/ position' = committed /\ MCSettled' = MCSettled
       \/ \A p \in Partitions : position[p] <= position'[p]
<1>. HAVE MCInv /\ [MCNext]_<<vars, station>>
<1>1. station' = station
  BY DEF MCNext
<1>2. CASE station = "st04"
  <2>1. I!Inv /\ (I!Next \/ UNCHANGED vars)
    BY <1>2 DEF MCInv, MCNext
  <2>. QED
    BY <1>1, <1>2, <2>1, InspectionStep DEF MCInv, MCSettled
<1>3. CASE station # "st04"
  <2>1. Inv /\ [Next]_vars
    BY <1>3 DEF MCInv, MCNext
  <2>. QED
    BY <1>1, <1>3, <2>1, MoldCureStep DEF MCInv, MCSettled
<1>. QED
  BY <1>2, <1>3

\* What the invariant says of the host and of what lies behind the position.
LEMMA StationFacts ==
  MCInv =>
    /\ MCSettled \in SUBSET Records
    /\ position \in [Partitions -> 0 .. LogLen]
    /\ \A p \in Partitions : /\ committed[p] <= position[p]
                             /\ \A o \in Offsets : o < position[p] => <<p, o>> \in MCSettled
<1>. HAVE MCInv
<1>1. CASE station = "st04"
  <2>0. I!TypeOK /\ \A p \in Partitions : I!PartInv(p)
    BY <1>1 DEF MCInv, I!Inv
  <2>1. ASSUME NEW p \in Partitions
        PROVE  /\ committed[p] <= position[p]
               /\ \A o \in Offsets : o < position[p] => <<p, o>> \in I!Settled
    <3>1. /\ HandAt(p) /\ position[p] \in Nat
          /\ I!Handled(p) \in {position[p], position[p] + 1}
      BY <2>0, JobCall, JobNumbers DEF I!PartInv
    <3>2. \A o \in Offsets : o < position[p] => o < I!Handled(p)
      BY <3>1 DEF Offsets
    <3>. QED
      BY <2>0, <3>1, <3>2, SameHost DEF HandAt, I!PartInv, I!SettledAt
  <2>2. I!Settled \in SUBSET Records
    BY SameHost DEF I!Settled
  <2>. QED
    BY <1>1, <2>0, <2>1, <2>2, JobTypes DEF MCSettled, HostTypeOK
<1>2. CASE station # "st04"
  <2>0. TypeOK /\ \A p \in Partitions : PartInv(p)
    BY <1>2 DEF MCInv, Inv
  <2>1. ASSUME NEW p \in Partitions
        PROVE  /\ committed[p] <= position[p]
               /\ \A o \in Offsets : o < position[p] => <<p, o>> \in Settled
    <3>1. /\ HandAt(p) /\ position[p] \in Nat
          /\ Handled(p) \in 0 .. LogLen /\ Handled(p) >= position[p]
      BY <2>0, WorkNumbers, HostNumbers DEF PartInv, CallAt, TypeOK
    <3>2. \A o \in Offsets : o < position[p] => o < Handled(p)
      BY <3>1 DEF Offsets
    <3>. QED
      BY <2>0, <3>1, <3>2 DEF HandAt, PartInv, SettledAt
  <2>2. Settled \in SUBSET Records
    BY DEF Settled
  <2>. QED
    BY <1>2, <2>0, <2>1, <2>2 DEF MCSettled, TypeOK, HostTypeOK
<1>. QED
  BY <1>1, <1>2

\* A fresh station of either kind.
LEMMA StationStarts == MCInit => MCInv
BY InspectionStarts, MoldCureStarts DEF MCInit, MCInv

\* The inductive invariant of the station at hand: where each partition's call
\* stands, that its records are settled, published and counted as far as it got.
THEOREM StationInvariance == MCSpec => []MCInv
<1>1. MCInv /\ [MCNext]_<<vars, station>> => MCInv'
  BY StationStep
<1>. QED
  BY <1>1, StationStarts, PTL DEF MCSpec

\* The dashboard's count of either station and its dead letters come out at the
\* log, when nothing was missed: Balanced of either module.
THEOREM ResultsBalancedTheorem == MCSpec => []ResultsBalanced
<1>1. MCInv => ResultsBalanced
  BY InspectionResults, MoldCureResults DEF MCInv, ResultsBalanced
<1>. QED
  BY <1>1, StationInvariance, PTL

\* Without a failure no record has two results, and the windows of ST-05 cut each
\* press's samples into pieces.
THEOREM ResultsOnceTheorem == MCSpec => []ResultsOnce
<1>1. MCInv => ResultsOnce
  BY InspectionResults, MoldCureResults DEF MCInv, ResultsOnce
<1>. QED
  BY <1>1, StationInvariance, PTL

\* At least once, of ST-04 and of ST-05: a position passes a record only when it is
\* settled, and falls back only to what was committed, with what is settled kept.
THEOREM ResultsAtLeastOnceTheorem == MCSpec => ResultsAtLeastOnce
<1>0. Promise!Records = Records
  BY DEF Records, Offsets, Promise!Records
<1>1. MCInit => Promise!Init
  <2>. HAVE MCInit
  <2>1. position = [p \in Partitions |-> 0]
    BY SameHost DEF MCInit, I!Init, Init, HostInit
  <2>2. MCSettled \in SUBSET Records
    BY StationStarts, StationFacts
  <2>. QED
    BY <1>0, <2>1, <2>2 DEF Promise!Init
<1>2. (MCInv => /\ MCSettled \in SUBSET Records
                /\ position \in [Partitions -> 0 .. LogLen]
                /\ \A p \in Partitions :
                     /\ committed[p] <= position[p]
                     /\ \A o \in Offsets : o < position[p] => <<p, o>> \in MCSettled)'
  BY StationFacts, PTL
<1>3. ASSUME MCInv, [MCNext]_<<vars, station>>
      PROVE  [Promise!Next]_<<position, MCSettled>>
  <2>1. /\ MCInv' /\ MCSettled \subseteq MCSettled'
        /\ \/ position' = committed /\ MCSettled' = MCSettled
           \/ \A p \in Partitions : position[p] <= position'[p]
    BY <1>3, StationStep
  <2>2. MCSettled' \in SUBSET Records /\ position' \in [Partitions -> 0 .. LogLen]
    BY <1>2, <2>1
  <2>3. CASE position' = committed /\ MCSettled' = MCSettled
    <3>1. \A p \in Partitions : position'[p] <= position[p]
      BY <1>3, <2>3, StationFacts
    <3>. QED
      BY <2>2, <2>3, <3>1 DEF Promise!FallBack, Promise!Next
  <2>4. CASE \A p \in Partitions : position[p] <= position'[p]
    <3>1. Promise!Below(position') \subseteq MCSettled'
      BY <1>0, <1>2, <2>1 DEF Records, Promise!Below
    <3>2. Promise!Advance
      BY <1>0, <2>1, <2>2, <2>4, <3>1 DEF Promise!Advance
    <3>. QED
      BY <3>2 DEF Promise!Next
  <2>. QED
    BY <2>1, <2>3, <2>4
<1>. QED
  BY <1>1, <1>3, StationInvariance, PTL DEF MCSpec, ResultsAtLeastOnce, Promise!Spec
=============================================================================
