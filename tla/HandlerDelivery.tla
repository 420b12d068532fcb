-------------------------- MODULE HandlerDelivery --------------------------
(***************************************************************************)
(* The host's side of a handler station (external: the workloads only see  *)
(* `handle`).  The host owns the consumer, calls the handler with a batch  *)
(* of consecutive records of one partition, one call at a time per         *)
(* partition, and acts on the answer as the stations' headers say:         *)
(*   all        the position moves past the batch                          *)
(*   through o  past o; what follows o is handed over again                *)
(*   transient  the batch is handed over again                             *)
(*   permanent  the head record goes to the dead-letter topic              *)
(*   trap       the head record alone is tried again, and dead-lettered    *)
(*              after TrapLimit traps                                      *)
(* Positions are committed behind the answers; restarts go back to them.   *)
(***************************************************************************)
EXTENDS Integers

CONSTANTS Partitions,      \* partitions of the station's input topic
          LogLen,          \* records on each partition
          BatchMax,        \* the host hands over at most so many records
          TrapLimit,       \* traps of one head record before it is given up
          MaxFaults        \* bound: failures of all kinds in one behaviour

Offsets == 0 .. LogLen - 1
Records == Partitions \X Offsets

ASSUME DeliveryAssumption ==
  /\ LogLen \in Nat /\ BatchMax \in Nat \ {0}
  /\ TrapLimit \in Nat \ {0} /\ MaxFaults \in Nat

VARIABLES position,        \* next record to hand over, per partition
          committed,       \* what a restart comes back to
          call,            \* the batch a partition's call holds, or NoCall
          traps,           \* traps of the head record in a row
          dlq,             \* how often each record was dead-lettered
          faults           \* failures so far, the handler's included

host == <<position, committed, call, traps, dlq>>

NoCall == [first |-> 0, last |-> -1]
Idle(p) == call[p] = NoCall

Verdicts == {"all", "through", "transient", "permanent"}

HostTypeOK ==
  /\ position \in [Partitions -> 0 .. LogLen]
  /\ committed \in [Partitions -> 0 .. LogLen]
  /\ call \in [Partitions -> [first : 0 .. LogLen, last : -1 .. LogLen - 1]]
  /\ traps \in [Partitions -> 0 .. TrapLimit - 1]
  /\ dlq \in [Records -> Nat]
  /\ faults \in 0 .. MaxFaults

HostInit ==
  /\ position = [p \in Partitions |-> 0]
  /\ committed = [p \in Partitions |-> 0]
  /\ call = [p \in Partitions |-> NoCall]
  /\ traps = [p \in Partitions |-> 0]
  /\ dlq = [r \in Records |-> 0]
  /\ faults = 0

Fault == faults < MaxFaults /\ faults' = faults + 1

\* After a trap the head record is handed over alone.
Hand(p, last) ==
  /\ Idle(p)
  /\ last \in position[p] .. position[p] + BatchMax - 1
  /\ last < LogLen
  /\ traps[p] > 0 => last = position[p]
  /\ call' = [call EXCEPT ![p] = [first |-> position[p], last |-> last]]
  /\ UNCHANGED <<position, committed, traps, dlq>>

MoveTo(p, o) ==
  /\ position' = [position EXCEPT ![p] = o]
  /\ call' = [call EXCEPT ![p] = NoCall]
  /\ UNCHANGED committed

DeadLetterHead(p) ==
  /\ dlq' = [dlq EXCEPT ![<<p, call[p].first>>] = @ + 1]
  /\ traps' = [traps EXCEPT ![p] = 0]
  /\ MoveTo(p, call[p].first + 1)

\* The handler answered verdict; o is the offset of "through".
Answered(p, verdict, o) ==
  \/ /\ verdict = "all"
     /\ MoveTo(p, call[p].last + 1)
     /\ traps' = [traps EXCEPT ![p] = 0]
     /\ UNCHANGED dlq
  \/ /\ verdict = "through"
     /\ MoveTo(p, o + 1)
     /\ traps' = [traps EXCEPT ![p] = 0]
     /\ UNCHANGED dlq
  \/ /\ verdict = "transient"
     /\ MoveTo(p, call[p].first)
     /\ UNCHANGED <<traps, dlq>>
  \/ verdict = "permanent" /\ DeadLetterHead(p)

Trapped(p) ==
  IF traps[p] + 1 = TrapLimit
  THEN DeadLetterHead(p)
  ELSE /\ traps' = [traps EXCEPT ![p] = @ + 1]
       /\ MoveTo(p, call[p].first)
       /\ UNCHANGED dlq

CommitPosition(p) ==
  /\ committed[p] # position[p]
  /\ committed' = [committed EXCEPT ![p] = position[p]]
  /\ UNCHANGED <<position, call, traps, dlq>>

\* The daemon restarts, or the workload is applied again: calls are lost.
HostRestarts ==
  /\ position' = committed
  /\ call' = [p \in Partitions |-> NoCall]
  /\ traps' = [p \in Partitions |-> 0]
  /\ UNCHANGED <<committed, dlq>>

\* A call in hand is a batch from the position, which is never behind what is
\* committed.
HandAt(p) ==
  /\ committed[p] <= position[p]
  /\ ~Idle(p) => /\ call[p].first = position[p]
                 /\ call[p].last \in position[p] .. LogLen - 1
                 /\ call[p].last < position[p] + BatchMax

DeadLetters(p) == {o \in Offsets : dlq[<<p, o>>] > 0}

\* The records of the dead-letter topic that come from p: one given up twice is
\* there twice, and the dashboard adds 1 for each (line-dashboard lib.rs:564).
DlqRecords(p) == UNION {{o} \X (1 .. dlq[<<p, o>>]) : o \in Offsets}
=============================================================================
