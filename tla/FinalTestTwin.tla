--------------------------- MODULE FinalTestTwin ---------------------------
(***************************************************************************)
(* The ST-06 twin (workloads/st06-final-test-twin): the same dispositions  *)
(* and moves without a transaction.  Outputs are visible as soon as a send *)
(* delivers them, a failed send may have delivered part of its records,    *)
(* and the stored positions are committed only after every COMMIT_EVERY-th *)
(* batch.  In between goes the `consumed` metric, best effort: `make       *)
(* validate` sets it against the duplicates it finds in the twin's ledger. *)
(***************************************************************************)
EXTENDS Integers, FiniteSets

CONSTANTS Partitions,      \* partitions of finaltest.bins
          LogLen,          \* records on each partition
          Malformed,       \* records whose value is not a unit
          BatchSize,       \* BATCH_SIZE
          CommitEvery,     \* COMMIT_EVERY
          MaxFaults        \* bound: failures of all kinds in one behaviour

Offsets == 0 .. LogLen - 1
Records == Partitions \X Offsets
Topics  == {"dispositions", "moves"}

ASSUME TwinAssumption ==
  /\ LogLen \in Nat /\ MaxFaults \in Nat
  /\ Malformed \subseteq Records
  /\ BatchSize \in 1 .. 100 /\ CommitEvery \in 1 .. 100

ASSUME PartitionsAssumption == IsFiniteSet(Partitions)

VARIABLES
  pc,            \* where the process is; "down" when there is none
  pos,           \* next offset of each partition; also the stored position
  batch,         \* how often the in-memory batch holds each record
  held,          \* its length
  sinceCommit,   \* since_commit: batches shipped since the last commit
  committed,     \* committed position of the group
  shipped,       \* outputs of each record on each topic
  counted,       \* how often each record is in a `consumed` metric
  unreported,    \* history: a batch wrote outputs, and no metric tells of it
  faults         \* failures so far

vars == <<pc, pos, batch, held, sinceCommit, committed, shipped, counted, unreported, faults>>

Empty == [r \in Records |-> 0]

TypeOK ==
  /\ pc \in Topics \cup {"down", "read", "metrics", "commit", "close"}
  /\ pos \in [Partitions -> 0 .. LogLen]
  /\ batch \in [Records -> Nat]
  /\ held \in 0 .. BatchSize
  /\ sinceCommit \in 0 .. CommitEvery
  /\ committed \in [Partitions -> 0 .. LogLen]
  /\ shipped \in [Topics -> [Records -> Nat]]
  /\ counted \in [Records -> Nat]
  /\ unreported \in BOOLEAN
  /\ faults \in 0 .. MaxFaults

Init ==
  /\ pc = "down"
  /\ pos = [p \in Partitions |-> 0]
  /\ batch = Empty
  /\ held = 0
  /\ sinceCommit = 0
  /\ committed = [p \in Partitions |-> 0]
  /\ shipped = [t \in Topics |-> Empty]
  /\ counted = Empty
  /\ unreported = FALSE
  /\ faults = 0

Fault == faults < MaxFaults /\ faults' = faults + 1

\* The supervisor starts the service; the stream begins at the committed
\* position and since_commit at zero.
Open ==
  /\ pc = "down"
  /\ pc' = "read"
  /\ pos' = committed
  /\ UNCHANGED <<batch, held, sinceCommit, committed, shipped, counted, unreported, faults>>

Deliver(p) ==
  /\ pc = "read"
  /\ pos[p] < LogLen
  /\ batch' = [batch EXCEPT ![<<p, pos[p]>>] = @ + 1]
  /\ held' = held + 1
  /\ pos' = [pos EXCEPT ![p] = @ + 1]
  /\ pc' = IF held' < BatchSize THEN "read" ELSE "dispositions"
  /\ UNCHANGED <<sinceCommit, committed, shipped, counted, unreported, faults>>

\* The outputs of the batch's units in R reach topic t.
Ship(t, R) ==
  shipped' = [shipped EXCEPT ![t] =
                [r \in Records |-> @[r] + IF r \in R \ Malformed THEN batch[r] ELSE 0]]

\* batch.clear() at the end of the loop's body.
NextBatch ==
  /\ batch' = Empty
  /\ held' = 0
  /\ pc' = "read"

SendDispositions ==
  /\ pc = "dispositions"
  /\ Ship("dispositions", Records)
  /\ pc' = "moves"
  /\ UNCHANGED <<pos, batch, held, sinceCommit, committed, counted, unreported, faults>>

SendMoves ==
  /\ pc = "moves"
  /\ Ship("moves", Records)
  /\ sinceCommit' = sinceCommit + 1
  /\ pc' = "metrics"
  /\ UNCHANGED <<pos, batch, held, committed, counted, unreported, faults>>

CommitDueLate == sinceCommit > CommitEvery     \* mutant: > for >=

CommitDue == sinceCommit >= CommitEvery

AfterMetrics ==
  IF CommitDue THEN pc' = "commit" /\ UNCHANGED <<batch, held>> ELSE NextBatch

SendMetricsParsed ==           \* mutant: only what parsed counts as consumed
  /\ pc = "metrics"
  /\ counted' = [r \in Records |-> counted[r] + IF r \in Malformed THEN 0 ELSE batch[r]]
  /\ AfterMetrics
  /\ UNCHANGED <<pos, sinceCommit, committed, shipped, unreported, faults>>

\* `consumed` names batch.len(): what did not parse and what the batch holds
\* twice included.
SendMetrics ==
  /\ pc = "metrics"
  /\ counted' = [r \in Records |-> counted[r] + batch[r]]
  /\ AfterMetrics
  /\ UNCHANGED <<pos, sinceCommit, committed, shipped, unreported, faults>>

\* `let _ = send_batch(METRICS_TOPIC, ...)`.
MetricsLost ==
  /\ pc = "metrics"
  /\ Fault
  /\ unreported' = TRUE
  /\ AfterMetrics
  /\ UNCHANGED <<pos, sinceCommit, committed, shipped, counted>>

SendFailsIgnored ==            \* mutant: a record's error is not looked for
  /\ pc = "dispositions"
  /\ Fault
  /\ \E R \in SUBSET {r \in Records : batch[r] > 0} : Ship(pc, R)
  /\ pc' = "moves"
  /\ UNCHANGED <<pos, batch, held, sinceCommit, committed, counted, unreported>>

\* send_batch failed as a whole or on one record; some records may be there.
SendFails ==
  /\ pc \in Topics
  /\ Fault
  /\ \E R \in SUBSET {r \in Records : batch[r] > 0} : Ship(pc, R)
  /\ pc' = "close"
  /\ unreported' = TRUE
  /\ UNCHANGED <<pos, batch, held, sinceCommit, committed, counted>>

CommitToNext(Q) ==             \* mutant: one record too far
  committed' = [p \in Partitions |->
                  IF p \in Q /\ pos[p] < LogLen THEN pos[p] + 1 ELSE committed[p]]

CommitTo(Q) == committed' = [p \in Partitions |-> IF p \in Q THEN pos[p] ELSE committed[p]]

\* commit([]) of the stored positions; a partition with none answers NoOffset.
Commit ==
  /\ pc = "commit"
  /\ CommitTo(Partitions)
  /\ NextBatch
  /\ sinceCommit' = 0
  /\ UNCHANGED <<pos, shipped, counted, unreported, faults>>

\* An error, on some partitions or on the call: what was applied stays.
CommitFails ==
  /\ pc = "commit"
  /\ Fault
  /\ \E Q \in SUBSET Partitions : CommitTo(Q)
  /\ pc' = "close"
  /\ UNCHANGED <<pos, batch, held, sinceCommit, shipped, counted, unreported>>

\* The stream ends: the partial batch is dropped.
StreamEnd ==
  /\ pc = "read"
  /\ Fault
  /\ pc' = "close"
  /\ UNCHANGED <<pos, batch, held, sinceCommit, committed, shipped, counted, unreported>>

Exit ==
  /\ pc' = "down"
  /\ batch' = Empty
  /\ held' = 0
  /\ sinceCommit' = 0
  /\ unreported' = (unreported \/ pc \in {"moves", "metrics"})
  /\ UNCHANGED <<pos, committed, shipped, counted>>

CloseStays ==                  \* mutant: the error is logged and the service stays
  pc = "close" /\ UNCHANGED vars

Close == pc = "close" /\ Exit /\ UNCHANGED faults
Crash == pc # "down" /\ Exit /\ Fault

\* rebalances() is not read: the stream moves back to the committed position
\* and the batch stays as it is.
Rebalance ==
  /\ pc \notin {"down", "close"}
  /\ Fault
  /\ pos' = committed
  /\ UNCHANGED <<pc, batch, held, sinceCommit, committed, shipped, counted, unreported>>

Station ==
  \/ Open \/ (\E p \in Partitions : Deliver(p)) \/ SendDispositions \/ SendMoves
  \/ SendFails \/ SendMetrics \/ Commit \/ CommitFails \/ Close

Next == Station \/ MetricsLost \/ StreamEnd \/ Crash \/ Rebalance

Spec == Init /\ [][Next]_vars

\* The process is scheduled and restarted; failures are owed to nobody.
FairSpec == Spec /\ WF_vars(Station)

(***************************************************************************)
(* Properties.                                                             *)
(***************************************************************************)

\* At least once: "explicit commit([]) of the stored positions after the
\* outputs are acked" (lib.rs:16-17) leaves no unit below the committed
\* position without its disposition and its move.
NothingLost ==
  \A t \in Topics, r \in Records \ Malformed :
    r[2] < committed[r[1]] => shipped[t][r] >= 1

\* A move is only written for a disposition that was acked, through partial
\* sends and replays: inventory never runs ahead of the ledger.
MovesFollow ==
  \A r \in Records : shipped["moves"][r] <= shipped["dispositions"][r]

\* "a restart inside that window replays up to 5 x BATCH_SIZE units"
\* (lib.rs:11-12).  What a restart would replay of one partition is bounded
\* so, however many restarts came before it.
ReplayWindow ==
  \A p \in Partitions :
    Cardinality({r \in Records : /\ r[1] = p /\ r[2] >= committed[p]
                                 /\ shipped["dispositions"][r] > 0})
      <= CommitEvery * BatchSize

\* The entries of the `consumed` metrics, and the duplicates the dashboard finds
\* in the twin's ledger: each row of a unit but its first.
Counts == UNION {{r} \X (1 .. counted[r]) : r \in Records}
Again == UNION {{r} \X (2 .. shipped["dispositions"][r]) : r \in Records}

\* produced - (consumed - replayed) - dlq of `make validate`: produced is the
\* whole topic, and the twin has no dead letters.
Pending == Cardinality(Records) - (Cardinality(Counts) - Cardinality(Again))

\* "only the partial batch may be outstanding" (scripts/validate.sh:161-165):
\* when the topic is read out, through replays, partial commits and rebalances,
\* 0 <= pending < batch.  Two things break the sum, and are left out here: a
\* batch whose outputs no metric counts (a crash or a failed send between the
\* two), and a record that does not parse and is replayed, for it counts each
\* time and has no output to show as a duplicate.
Accounted ==
  /\ pc = "read" /\ \A p \in Partitions : pos[p] = LogLen
  /\ ~unreported /\ \A r \in Malformed : counted[r] <= 1
  => Pending \in 0 .. BatchSize - 1

\* The same through everything: per unit, metrics and ledger agree.
CountInv ==
  \A r \in Records \ Malformed :
    /\ counted[r] <= shipped["dispositions"][r]
    /\ pc \in {"moves", "metrics"} => counted[r] + batch[r] <= shipped["dispositions"][r]
    /\ ~unreported =>
         shipped["dispositions"][r]
           = counted[r] + IF pc \in {"moves", "metrics"} THEN batch[r] ELSE 0

(***************************************************************************)
(* The inductive invariant: which topics the batch has reached at each     *)
(* step, and how far records in hand or shipped run past the position.     *)
(***************************************************************************)
LoopInv ==
  /\ pc = "down" => held = 0 /\ sinceCommit = 0
  /\ pc = "read" => held < BatchSize
  /\ pc \in {"read"} \cup Topics => sinceCommit < CommitEvery

MovesInv ==
  /\ MovesFollow
  /\ pc = "moves" => \A r \in Records \ Malformed :
       shipped["moves"][r] + batch[r] <= shipped["dispositions"][r]

SentBefore == [read |-> {}, dispositions |-> {}, moves |-> {"dispositions"},
               metrics |-> Topics, commit |-> Topics]

LossInv ==
  /\ NothingLost
  /\ pc \in DOMAIN SentBefore => \A t \in Topics, r \in Records \ Malformed :
       r[2] < pos[r[1]] =>
         shipped[t][r] >= 1 \/ (t \notin SentBefore[pc] /\ batch[r] > 0)

InWindow(r) == r[2] < committed[r[1]] + CommitEvery * BatchSize

WindowInv ==
  /\ \A p \in Partitions : committed[p] <= pos[p]
  /\ pc \in {"read"} \cup Topics =>
       \A p \in Partitions : pos[p] <= committed[p] + sinceCommit * BatchSize + held
  /\ pc = "metrics" =>
       \A p \in Partitions : pos[p] <= committed[p] + sinceCommit * BatchSize
  /\ \A r \in Records :
       batch[r] > 0 \/ shipped["dispositions"][r] > 0 => InWindow(r)

Held == {r \in Records : batch[r] > 0}

\* While every batch is reported, what lies behind a position is in a metric or
\* in hand.
CoverInv ==
  /\ IsFiniteSet(Held) /\ Cardinality(Held) <= held
  /\ \A t \in Topics, r \in Malformed : shipped[t][r] = 0
  /\ ~unreported => \A r \in Records :
       /\ r[2] < committed[r[1]] => counted[r] > 0
       /\ pc \in DOMAIN SentBefore /\ r[2] < pos[r[1]] =>
            counted[r] > 0 \/ (pc # "commit" /\ r \in Held)

Inv == TypeOK /\ LoopInv /\ MovesInv /\ LossInv /\ WindowInv /\ CountInv /\ CoverInv

Backlog == {r \in Records : r[2] >= committed[r[1]]}

\* Once failures stop less than one commit window stays uncommitted.
BacklogDrains == <>[](Cardinality(Backlog) < CommitEvery * BatchSize)

\* A record is settled when every topic carries its output, or it is no unit.
Settled ==
  Malformed \cup {r \in Records : \A t \in Topics : shipped[t][r] >= 1}

Promise == INSTANCE AtLeastOnce WITH position <- committed, settled <- Settled

\* The twin keeps the promise of the line's other stations.
AtLeastOnceSpec == Promise!Spec
=============================================================================
