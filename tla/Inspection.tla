----------------------------- MODULE Inspection -----------------------------
(***************************************************************************)
(* ST-04, inspection (workloads/st04-inspection): one job per call (the    *)
(* deployment's batch size is 1), a verdict per job on inspect.results.    *)
(* The loop over the batch does not suspend; the results are sent once,    *)
(* then the metrics, then the host has its answer.                         *)
(*                                                                         *)
(* inspect() hashes until the job's time is up, so its digest depends on   *)
(* how many rounds the clock allowed; verdict() picks a class from it.     *)
(***************************************************************************)
EXTENDS HandlerDelivery, ConsumedFold, FiniteSets

CONSTANT Classes           \* defect classes verdict() can answer

Kinds == {"job", "malformed", "tombstone"}

VARIABLES
  log,         \* the kind of each record; it never changes
  work,        \* per partition: the call past its loop, or NoWork
  results,     \* per record: the classes published for it on inspect.results
  folded,      \* the dashboard's fold of this station, per partition
  missed       \* history: a metrics send of the partition failed

vars == <<log, host, work, results, folded, missed, faults>>

\* verdict: the class of each job of the batch; at: the record the loop
\* stopped at, one past the batch when it did not.
NoWork == [pc |-> "idle", at |-> 0, verdict |-> <<>>]

Init ==
  /\ log \in [Records -> Kinds]
  /\ HostInit
  /\ work = [p \in Partitions |-> NoWork]
  /\ results = [r \in Records |-> {}]
  /\ folded = [p \in Partitions |-> NothingFolded]
  /\ missed = [p \in Partitions |-> FALSE]

Miss(p) == missed' = [missed EXCEPT ![p] = TRUE]
Jobs(p, first, last) == {o \in first .. last : log[<<p, o>>] = "job"}

StopsAtNext(p, first, last) == \* mutant: one record too far
  1 + CHOOSE at \in first .. last + 1 :
    /\ at = last + 1 \/ log[<<p, at>>] = "malformed"
    /\ \A o \in first .. at - 1 : log[<<p, o>>] # "malformed"

\* The first record of the batch that does not parse, or one past it.
StopsAt(p, first, last) ==
  CHOOSE at \in first .. last + 1 :
    /\ at = last + 1 \/ log[<<p, at>>] = "malformed"
    /\ \A o \in first .. at - 1 : log[<<p, o>>] # "malformed"

\* The loop, up to the first await: a class for every job in front of `at`.
Handle(p) ==
  \E last \in Offsets :
    /\ Hand(p, last)
    /\ LET at   == StopsAt(p, position[p], last)
           jobs == Jobs(p, position[p], at - 1)
       IN \E v \in [jobs -> Classes] :
            work' = [work EXCEPT ![p] = [at |-> at, verdict |-> v,
                       pc |-> IF jobs = {} THEN "metrics" ELSE "results"]]
    /\ UNCHANGED <<log, results, folded, missed, faults>>

Publish(p, jobs) ==
  results' = [r \in Records |-> IF r[1] = p /\ r[2] \in jobs
                                THEN results[r] \cup {work[p].verdict[r[2]]} ELSE results[r]]

SendResults(p) ==
  /\ work[p].pc = "results"
  /\ Publish(p, DOMAIN work[p].verdict)
  /\ work' = [work EXCEPT ![p].pc = "metrics"]
  /\ UNCHANGED <<log, host, folded, missed, faults>>

ResultsFailIgnored(p) ==       \* mutant: the call goes on without its results
  /\ work[p].pc = "results"
  /\ Fault
  /\ \E kept \in SUBSET DOMAIN work[p].verdict : Publish(p, kept)
  /\ work' = [work EXCEPT ![p].pc = "metrics"]
  /\ UNCHANGED <<log, host, folded, missed>>

\* "Nothing is stored until the results are on the topic": Transient, though
\* some of them may be.
ResultsFail(p) ==
  /\ work[p].pc = "results"
  /\ Fault
  /\ \E kept \in SUBSET DOMAIN work[p].verdict : Publish(p, kept)
  /\ Answered(p, "transient", 0)
  /\ work' = [work EXCEPT ![p] = NoWork]
  /\ UNCHANGED <<log, folded, missed>>

SendMetricsUnranged(p) ==      \* mutant: the offset range is left out
  /\ work[p].pc = "metrics"
  /\ folded' = [folded EXCEPT ![p].consumed = @ + Cardinality(DOMAIN work[p].verdict)]
  /\ work' = [work EXCEPT ![p].pc = "answer"]
  /\ UNCHANGED <<log, host, results, missed, faults>>

\* `consumed` counts the results, over the range of the whole batch.
SendMetrics(p) ==
  /\ work[p].pc = "metrics"
  /\ IF DOMAIN work[p].verdict = {} THEN UNCHANGED folded
     ELSE folded' = [folded EXCEPT ![p] = FoldConsumed(@, Cardinality(DOMAIN work[p].verdict),
                                            call[p].first, call[p].last)]
  /\ work' = [work EXCEPT ![p].pc = "answer"]
  /\ UNCHANGED <<log, host, results, missed, faults>>

MetricsLost(p) ==
  /\ work[p].pc = "metrics"
  /\ Fault
  /\ Miss(p)
  /\ work' = [work EXCEPT ![p].pc = "answer"]
  /\ UNCHANGED <<log, host, results, folded>>

Answer(p) ==
  /\ work[p].pc = "answer"
  /\ LET verdict == IF work[p].at > call[p].last THEN "all"
                    ELSE IF work[p].at > call[p].first THEN "through" ELSE "permanent"
     IN  Answered(p, verdict, work[p].at - 1)
  /\ work' = [work EXCEPT ![p] = NoWork]
  /\ UNCHANGED <<log, results, folded, missed, faults>>

\* An instance is lost in the middle of a call.
Trap(p) ==
  /\ work[p] # NoWork
  /\ Fault
  /\ Trapped(p)
  /\ work' = [work EXCEPT ![p] = NoWork]
  /\ UNCHANGED <<log, results, folded, missed>>

Commit(p) ==
  /\ CommitPosition(p)
  /\ UNCHANGED <<log, work, results, folded, missed, faults>>

Restart ==
  /\ Fault
  /\ HostRestarts
  /\ work' = [p \in Partitions |-> NoWork]
  /\ UNCHANGED <<log, results, folded, missed>>

Next ==
  \/ \E p \in Partitions :
       \/ Handle(p) \/ SendResults(p) \/ SendMetrics(p) \/ Answer(p) \/ Commit(p)
       \/ ResultsFail(p) \/ MetricsLost(p) \/ Trap(p)
  \/ Restart

Spec == Init /\ [][Next]_vars

(***************************************************************************)
(* Properties.                                                             *)
(***************************************************************************)

TypeOK ==
  /\ log \in [Records -> Kinds]
  /\ HostTypeOK
  /\ work \in [Partitions -> [pc : {"idle", "results", "metrics", "answer"}, at : 0 .. LogLen,
                              verdict : UNION {[S -> Classes] : S \in SUBSET Offsets}]]
  /\ \A p \in Partitions : /\ Idle(p) <=> work[p].pc = "idle"
                           /\ Idle(p) => work[p] = NoWork
  /\ results \in [Records -> SUBSET Classes]
  /\ folded \in [Partitions -> [hw : -1 .. LogLen - 1, consumed : Nat, redelivered : Nat]]
  /\ missed \in [Partitions -> BOOLEAN]

\* A record is settled when it is a tombstone, has a result or was given up.
Settled ==
  {r \in Records : \/ log[r] = "tombstone" \/ dlq[r] > 0
                   \/ log[r] = "job" /\ results[r] # {}}

\* produced == consumed + dlq (scripts/validate.sh:169) for a partition read
\* out, unless a metrics send was lost or a job was given up: with one record
\* per call the range of a report is what was handled, so through failed sends,
\* traps and restarts `consumed` never runs over.  The dead letters do: the sum
\* is off by one for each that is repeated, which takes a restart between the
\* dead letter and the commit behind it, and by nothing else.  A tombstone
\* counts nowhere.
Balanced ==
  \A p \in Partitions :
    /\ position[p] = LogLen /\ Idle(p) /\ ~missed[p]
    /\ \A o \in DeadLetters(p) : log[<<p, o>>] = "malformed"
    =>
      LET sum   == folded[p].consumed + Cardinality(DlqRecords(p))
          whole == Cardinality({o \in Offsets : log[<<p, o>>] # "tombstone"})
      IN  /\ sum >= whole
          /\ sum = whole <=> (\A o \in Offsets : dlq[<<p, o>>] <= 1)
          /\ faults = 0 => sum = whole

\* "so the verdict is a pure function of the job" (lib.rs:100).  It is one of
\* the rounds the clock allowed, so only this is left: two verdicts on one job
\* take a failure after the first was published.
OneVerdict == faults = 0 => \A r \in Records : Cardinality(results[r]) <= 1

(***************************************************************************)
(* The inductive invariant: how far the records of a partition are done    *)
(* with, and counted, at each point of the handler.                        *)
(***************************************************************************)
Handled(p) == IF work[p].pc \in {"metrics", "answer"} THEN work[p].at ELSE position[p]
Reported(p) == IF work[p].pc = "answer" THEN work[p].at ELSE position[p]

CallAt(p) ==
  /\ HandAt(p)
  /\ ~Idle(p) =>
       /\ work[p].at \in call[p].first .. call[p].last + 1
       /\ \A o \in call[p].first .. work[p].at - 1 : log[<<p, o>>] # "malformed"
       /\ work[p].at = call[p].last + 1 \/ log[<<p, work[p].at>>] = "malformed"
       /\ work[p].verdict \in [Jobs(p, call[p].first, work[p].at - 1) -> Classes]

SettledAt(p) == \A o \in Offsets : o < Handled(p) => <<p, o>> \in Settled

OnceAt(p) ==
  faults = 0 => \A o \in Offsets :
    /\ Cardinality(results[<<p, o>>]) <= 1 /\ dlq[<<p, o>>] <= 1
    /\ o >= Handled(p) => results[<<p, o>>] = {}
    /\ o >= position[p] => dlq[<<p, o>>] = 0

\* The mark is at the last job counted, and no job behind it is left out.
CountAt(p) ==
  ~missed[p] /\ (\A o \in DeadLetters(p) : log[<<p, o>>] = "malformed") =>
    /\ folded[p].consumed = Cardinality(Jobs(p, 0, folded[p].hw))
    /\ \A o \in Jobs(p, 0, Reported(p) - 1) : o <= folded[p].hw

PartInv(p) == CallAt(p) /\ SettledAt(p) /\ OnceAt(p) /\ CountAt(p)

Inv == TypeOK /\ \A p \in Partitions : PartInv(p)
=============================================================================
