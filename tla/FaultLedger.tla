---------------------------- MODULE FaultLedger ----------------------------
(***************************************************************************)
(* line-dashboard's push_fault: the rows of the fault ledger, newest       *)
(* first, and when each fault (station and text) was last seen, by which   *)
(* a fault that comes again soon adds no row.                              *)
(***************************************************************************)
EXTENDS Integers, Sequences, FiniteSets, Functions

CONSTANTS FaultWindow,   \* 60 s: the same fault within it is one row
          SeenFor,       \* 600 s: how long a fault is remembered at least
          SeenKept,      \* 500: more faults than that are pruned
          FaultsKept     \* 60: rows

ASSUME FaultLedgerAssumption ==
  /\ {FaultWindow, SeenFor, SeenKept} \subseteq Nat /\ FaultsKept \in Nat \ {0}
  /\ FaultWindow <= SeenFor

NoFaults == [rows |-> <<>>, seen |-> <<>>]

PrunedAll(seen, ts) ==         \* mutant: forgets every other fault
  IF Cardinality(DOMAIN seen) <= SeenKept THEN seen
  ELSE Restrict(seen, {f \in DOMAIN seen : seen[f] > ts})

Pruned(seen, ts) ==
  IF Cardinality(DOMAIN seen) <= SeenKept THEN seen
  ELSE Restrict(seen, {f \in DOMAIN seen : seen[f] >= ts - SeenFor})

Recent(l, text, ts) == text \in DOMAIN l.seen /\ ts - l.seen[text] < FaultWindow

PushFault(l, text, ts) ==
  LET seen == [t \in DOMAIN l.seen \cup {text} |-> IF t = text THEN ts ELSE l.seen[t]]
      rows == <<[text |-> text, ts |-> ts]>> \o l.rows
  IN  IF Recent(l, text, ts) THEN [l EXCEPT !.seen = seen]
      ELSE [rows |-> IF Len(rows) > FaultsKept THEN SubSeq(rows, 1, FaultsKept) ELSE rows,
            seen |-> Pruned(seen, ts)]
=============================================================================
