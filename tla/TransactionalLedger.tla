------------------------ MODULE TransactionalLedger ------------------------
(***************************************************************************)
(* What a station that reads, processes and writes in one transaction      *)
(* promises its readers, whatever crashes behind it.  There is a ledger    *)
(* (how often each record's output is visible on each output topic) and a  *)
(* committed position per partition, and they move in ONE step.  Until a   *)
(* rebalance has rewound a session, a step ships exactly the records it    *)
(* moves the position past, once on every topic that carries them.  After  *)
(* such a rewind "at least once, and the topics agree" is what is left.    *)
(***************************************************************************)
EXTENDS Naturals

CONSTANTS Partitions,      \* partitions of the input topic
          LogLen,          \* records on each partition
          Topics,          \* output topics
          Carries(_, _)    \* Carries(t, r): topic t carries an output of record r

VARIABLES outputs,         \* outputs[t][r]: visible outputs of record r on topic t
          position,        \* the group's committed position per partition
          rewound          \* a rebalance has rewound a session in mid-batch

Records == Partitions \X (0 .. LogLen - 1)

Init ==
  /\ outputs = [t \in Topics |-> [r \in Records |-> 0]]
  /\ position = [p \in Partitions |-> 0]
  /\ rewound = FALSE

Moved(r) == position[r[1]] <= r[2] /\ r[2] < position'[r[1]]

Ship ==
  /\ ~rewound
  /\ position' \in [Partitions -> 0 .. LogLen]
  /\ \A p \in Partitions : position[p] <= position'[p]
  /\ outputs' = [t \in Topics |-> [r \in Records |->
                   IF Moved(r) /\ Carries(t, r) THEN outputs[t][r] + 1
                                                ELSE outputs[t][r]]]
  /\ UNCHANGED rewound

Rewind ==
  /\ rewound' = TRUE
  /\ UNCHANGED <<outputs, position>>

ShipAgain ==
  /\ rewound
  /\ position' \in [Partitions -> 0 .. LogLen]
  /\ \A t \in Topics, r \in Records :
       /\ outputs'[t][r] >= outputs[t][r]
       /\ r[2] < position'[r[1]] /\ Carries(t, r) => outputs'[t][r] >= 1
       /\ \A u \in Topics : Carries(t, r) /\ Carries(u, r) =>
                             outputs'[t][r] = outputs'[u][r]
  /\ UNCHANGED rewound

Next == Ship \/ Rewind \/ ShipAgain

Spec == Init /\ [][Next]_<<outputs, position, rewound>>
=============================================================================
