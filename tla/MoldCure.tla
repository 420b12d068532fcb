------------------------------ MODULE MoldCure ------------------------------
(***************************************************************************)
(* ST-05, mold and cure (workloads/st05-mold-cure): "one batch is about    *)
(* one window".  Each call of a batch of telemetry sums up, per press, the *)
(* samples it got to, sends one summary per press to mold.profile, then    *)
(* the metrics, then the host has its answer.  No state outlives a call.   *)
(*                                                                         *)
(* A summary is the set of samples it is about; its means, conformance and *)
(* alarm are arithmetic on them and left out, as is the heartbeat.         *)
(***************************************************************************)
EXTENDS HandlerDelivery, ConsumedFold, FiniteSets

CONSTANT Presses           \* the presses that report on the topic

Malformed == "malformed"
Tombstone == "tombstone"
Kinds == Presses \cup {Malformed, Tombstone}

ASSUME PressAssumption == Presses \cap {Malformed, Tombstone} = {}

VARIABLES
  log,         \* per record: the press it is a sample of, or its kind
  work,        \* per partition: the call past its loop, or NoWork
  results,     \* per sample: the windows on mold.profile that include it
  folded,      \* the dashboard's fold of this station, per partition
  missed       \* history: a metrics send of the partition failed

vars == <<log, host, work, results, folded, missed, faults>>

\* at: the record the loop stopped at, one past the batch when it did not;
\* so `handled` is at - 1 and `consumed` is at - first.
NoWork == [pc |-> "idle", at |-> 0]

Init ==
  /\ log \in [Records -> Kinds]
  /\ HostInit
  /\ work = [p \in Partitions |-> NoWork]
  /\ results = [r \in Records |-> {}]
  /\ folded = [p \in Partitions |-> NothingFolded]
  /\ missed = [p \in Partitions |-> FALSE]

Miss(p) == missed' = [missed EXCEPT ![p] = TRUE]

\* The first record of the batch that does not parse, or one past it.
StopsAt(p, first, last) ==
  CHOOSE at \in first .. last + 1 :
    /\ at = last + 1 \/ log[<<p, at>>] = Malformed
    /\ \A o \in first .. at - 1 : log[<<p, o>>] # Malformed

WindowsWhole(p) ==             \* mutant: sums up the batch past the bad record
  {{o \in call[p].first .. call[p].last : log[<<p, o>>] = s} : s \in Presses} \ {{}}

\* The samples of each press in front of the record the loop stopped at.
Windows(p) ==
  {{o \in call[p].first .. work[p].at - 1 : log[<<p, o>>] = s} : s \in Presses} \ {{}}

\* The loop does not suspend.  A window is published before the metrics.
Handle(p) ==
  \E last \in Offsets :
    /\ Hand(p, last)
    /\ work' = [work EXCEPT ![p] = [pc |-> "profiles", at |-> StopsAt(p, position[p], last)]]
    /\ UNCHANGED <<log, results, folded, missed, faults>>

Publish(p, windows) ==
  results' = [r \in Records |->
    results[r] \cup IF r[1] = p THEN {w \in windows : r[2] \in w} ELSE {}]

\* send_batch(PROFILE_TOPIC), if there is any summary.
SendProfiles(p) ==
  /\ work[p].pc = "profiles"
  /\ Publish(p, Windows(p))
  /\ work' = [work EXCEPT ![p].pc = "metrics"]
  /\ UNCHANGED <<log, host, folded, missed, faults>>

ProfilesFailIgnored(p) ==      \* mutant: the call goes on without its summaries
  /\ work[p].pc = "profiles" /\ Windows(p) # {}
  /\ Fault
  /\ \E kept \in SUBSET Windows(p) : Publish(p, kept)
  /\ work' = [work EXCEPT ![p].pc = "metrics"]
  /\ UNCHANGED <<log, host, folded, missed>>

\* It fails as a whole or on one summary: Transient, and nothing is counted.
ProfilesFail(p) ==
  /\ work[p].pc = "profiles" /\ Windows(p) # {}
  /\ Fault
  /\ \E kept \in SUBSET Windows(p) : Publish(p, kept)
  /\ Answered(p, "transient", 0)
  /\ work' = [work EXCEPT ![p] = NoWork]
  /\ UNCHANGED <<log, folded, missed>>

SendMetricsBatch(p) ==         \* mutant: counts records.len()
  /\ work[p].pc = "metrics"
  /\ folded' = [folded EXCEPT ![p] = FoldUnranged(@, call[p].last - call[p].first + 1)]
  /\ work' = [work EXCEPT ![p].pc = "answer"]
  /\ UNCHANGED <<log, host, results, missed, faults>>

\* `consumed` counts what was handled, tombstones included, and names no range.
SendMetrics(p) ==
  /\ work[p].pc = "metrics"
  /\ folded' = [folded EXCEPT ![p] = FoldUnranged(@, work[p].at - call[p].first)]
  /\ work' = [work EXCEPT ![p].pc = "answer"]
  /\ UNCHANGED <<log, host, results, missed, faults>>

\* `let _ = send_batch(METRICS_TOPIC, ...)`.
MetricsLost(p) ==
  /\ work[p].pc = "metrics"
  /\ Fault
  /\ Miss(p)
  /\ work' = [work EXCEPT ![p].pc = "answer"]
  /\ UNCHANGED <<log, host, results, folded>>

VerdictRetries(p) ==           \* mutant: forgets what the batch handled
  IF work[p].at > call[p].last THEN "all"
  ELSE IF work[p].at > call[p].first THEN "transient" ELSE "permanent"

\* Ok(None), Ok(Some(handled)) or Permanent.
Verdict(p) ==
  IF work[p].at > call[p].last THEN "all"
  ELSE IF work[p].at > call[p].first THEN "through" ELSE "permanent"

Answer(p) ==
  /\ work[p].pc = "answer"
  /\ Answered(p, Verdict(p), work[p].at - 1)
  /\ work' = [work EXCEPT ![p] = NoWork]
  /\ UNCHANGED <<log, results, folded, missed, faults>>

\* An instance is lost in the middle of a call.
Trap(p) ==
  /\ work[p] # NoWork
  /\ Fault
  /\ Trapped(p)
  /\ work' = [work EXCEPT ![p] = NoWork]
  /\ UNCHANGED <<log, results, folded, missed>>

Commit(p) ==
  /\ CommitPosition(p)
  /\ UNCHANGED <<log, work, results, folded, missed, faults>>

Restart ==
  /\ Fault
  /\ HostRestarts
  /\ work' = [p \in Partitions |-> NoWork]
  /\ UNCHANGED <<log, results, folded, missed>>

Next ==
  \/ \E p \in Partitions :
       \/ Handle(p) \/ SendProfiles(p) \/ SendMetrics(p) \/ Answer(p) \/ Commit(p)
       \/ ProfilesFail(p) \/ MetricsLost(p) \/ Trap(p)
  \/ Restart

Spec == Init /\ [][Next]_vars

(***************************************************************************)
(* Properties.                                                             *)
(***************************************************************************)

TypeOK ==
  /\ log \in [Records -> Kinds]
  /\ HostTypeOK
  /\ work \in [Partitions -> [pc : {"idle", "profiles", "metrics", "answer"}, at : 0 .. LogLen]]
  /\ \A p \in Partitions : /\ Idle(p) <=> work[p].pc = "idle"
                           /\ Idle(p) => work[p] = NoWork
  /\ results \in [Records -> SUBSET SUBSET Offsets]
  /\ folded \in [Partitions -> [hw : {-1}, consumed : Nat, redelivered : {0}]]
  /\ missed \in [Partitions -> BOOLEAN]

Samples == {r \in Records : log[r] \in Presses}

\* A record is settled when it is a tombstone, in a summary or given up.
Settled ==
  {r \in Records : \/ log[r] = Tombstone \/ dlq[r] > 0
                   \/ r \in Samples /\ results[r] # {}}

\* "One batch is about one window" (lib.rs:7-9): as long as nothing fails the
\* windows on mold.profile cut each press's samples into pieces.  No sample is
\* in two of them and none in front of the position is in none, however the
\* host cuts its batches and wherever in them a record does not parse.
WindowsPartition ==
  faults = 0 => \A r \in Samples :
    /\ Cardinality(results[r]) <= 1
    /\ r[2] < position[r[1]] => results[r] # {}

\* produced == consumed + dlq (scripts/validate.sh:169) for a partition read
\* out: exact as long as nothing fails, a batch cut short by a record that
\* does not parse included, for `consumed` names no range to discount.  Then
\* again nothing tells a repeated call, nor a repeated dead letter: after
\* failures the sum can only run over, unless a metrics send was lost.
Balanced ==
  \A p \in Partitions :
    position[p] = LogLen /\ Idle(p) =>
      LET sum == folded[p].consumed + Cardinality(DlqRecords(p))
      IN  /\ faults = 0 => sum = LogLen
          /\ ~missed[p] => sum >= LogLen

(***************************************************************************)
(* The inductive invariant: how far the records of a partition are done    *)
(* with, and counted, at each point of the handler.                        *)
(***************************************************************************)
Handled(p) == IF work[p].pc \in {"metrics", "answer"} THEN work[p].at ELSE position[p]
Reported(p) == IF work[p].pc = "answer" THEN work[p].at ELSE position[p]

CallAt(p) ==
  /\ HandAt(p)
  /\ ~Idle(p) =>
       /\ work[p].at \in call[p].first .. call[p].last + 1
       /\ \A o \in call[p].first .. work[p].at - 1 : log[<<p, o>>] # Malformed
       /\ work[p].at = call[p].last + 1 \/ log[<<p, work[p].at>>] = Malformed

SettledAt(p) == \A o \in Offsets : o < Handled(p) => <<p, o>> \in Settled

OnceAt(p) ==
  faults = 0 => \A o \in Offsets :
    /\ Cardinality(results[<<p, o>>]) <= 1 /\ dlq[<<p, o>>] <= 1
    /\ o >= Handled(p) => results[<<p, o>>] = {}
    /\ dlq[<<p, o>>] > 0 => log[<<p, o>>] = Malformed /\ o < position[p]

\* What the metrics owe: the records in front of the position that were not
\* dead-lettered, however often they were.
Owed(p, n) == {o \in 0 .. n - 1 : dlq[<<p, o>>] = 0}

CountAt(p) ==
  LET owed == Cardinality(Owed(p, Reported(p)))
  IN  /\ ~missed[p] => folded[p].consumed >= owed
      /\ faults = 0 => folded[p].consumed = owed

PartInv(p) == CallAt(p) /\ SettledAt(p) /\ OnceAt(p) /\ CountAt(p)

Inv == TypeOK /\ \A p \in Partitions : PartInv(p)
=============================================================================
