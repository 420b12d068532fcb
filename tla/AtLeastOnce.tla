---------------------------- MODULE AtLeastOnce ----------------------------
(***************************************************************************)
(* What every station of the line but ST-06 promises for its input topic,  *)
(* whatever crashes behind it: a record is settled (its outputs are on     *)
(* their topics, or it is on the dead-letter topic) before the position    *)
(* that is to survive moves past it, and what is settled stays settled.    *)
(* The position may fall back, and then records are settled again: that is *)
(* not told apart here.                                                    *)
(***************************************************************************)
EXTENDS Naturals

CONSTANTS Partitions,      \* partitions of the input topic
          LogLen           \* records on each partition

VARIABLES position,        \* per partition: what lies below is not read again
          settled          \* the records that need nothing any more

Records == Partitions \X (0 .. LogLen - 1)
Below(at) == {r \in Records : r[2] < at[r[1]]}

\* Some records need no output to begin with.
Init ==
  /\ position = [p \in Partitions |-> 0]
  /\ settled \in SUBSET Records

Settle ==
  /\ settled' \in SUBSET Records
  /\ settled \subseteq settled'
  /\ UNCHANGED position

Advance ==
  /\ settled' \in SUBSET Records
  /\ settled \subseteq settled'
  /\ position' \in [Partitions -> 0 .. LogLen]
  /\ \A p \in Partitions : position[p] <= position'[p]
  /\ Below(position') \subseteq settled'

FallBack ==
  /\ position' \in [Partitions -> 0 .. LogLen]
  /\ \A p \in Partitions : position'[p] <= position[p]
  /\ UNCHANGED settled

Next == Settle \/ Advance \/ FallBack

Spec == Init /\ [][Next]_<<position, settled>>
=============================================================================
