---------------------------- MODULE ConsumedFold ----------------------------
(***************************************************************************)
(* How line-dashboard folds a `consumed` metric with an offset range: only *)
(* the offsets above the partition's high-water mark are new, n is scaled  *)
(* by their share, and the rest counts as redelivered.                     *)
(***************************************************************************)
EXTENDS Integers

Positive(i) == IF i > 0 THEN i ELSE 0
Higher(i, j) == IF i > j THEN i ELSE j

NothingFolded == [hw |-> -1, consumed |-> 0, redelivered |-> 0]

FoldConsumedTwice(d, n, first, last) ==   \* mutant: no high-water mark
  [hw |-> Higher(d.hw, last), consumed |-> d.consumed + n,
   redelivered |-> d.redelivered]

FoldConsumedNext(d, n, first, last) ==    \* mutant: the mark is the next offset
  LET span    == Positive(last - first + 1)
      newSpan == Positive(last - Higher(first, d.hw + 1) + 1)
      fresh   == IF span > 0 THEN (n * newSpan) \div span ELSE n
  IN  [hw |-> Higher(d.hw, last + 1), consumed |-> d.consumed + fresh,
       redelivered |-> d.redelivered + (n - fresh)]

FoldConsumed(d, n, first, last) ==
  LET span    == Positive(last - first + 1)
      newSpan == Positive(last - Higher(first, d.hw + 1) + 1)
      fresh   == IF span > 0 THEN (n * newSpan) \div span ELSE n
  IN  [hw |-> Higher(d.hw, last), consumed |-> d.consumed + fresh,
       redelivered |-> d.redelivered + (n - fresh)]

\* A `consumed` metric that names no range: all of it is new.
FoldUnranged(d, n) == [d EXCEPT !.consumed = @ + n]

FoldRedelivered(d, n) == [d EXCEPT !.redelivered = @ + n]
=============================================================================
