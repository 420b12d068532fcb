----------------------------- MODULE DieAttach -----------------------------
(***************************************************************************)
(* ST-02, die attach (workloads/st02-die-attach): per record a spec check  *)
(* and, out of spec, a flag; what the handler answers decides how far the  *)
(* partition moves; what it reports decides what `make validate` counts.   *)
(* A call suspends at its sends, and calls of other partitions run there.  *)
(* The naive build (feature "naive") panics where the other answers.       *)
(***************************************************************************)
EXTENDS HandlerDelivery, ConsumedFold, FiniteSets

\* What parse() and check() make of a value; a tombstone passes like a
\* reading in spec.
Kinds == {"in_spec", "out_of_spec", "malformed"}

VARIABLES
  log,         \* the kind of each record; any log, and it never changes
  work,        \* per partition: the handler's locals in the call, or NoWork
  highWater,   \* the HIGH_WATER entries instances of the pool may hold
  flagged,     \* flags of each record on dieattach.flags
  folded,      \* the dashboard's fold of this station, per partition
  naive,       \* the deployed build
  missed       \* history: a flag or a report of the partition failed

vars == <<log, host, work, highWater, flagged, folded, naive, missed, faults>>

\* at: the record the loop is at.  Every record before it in the batch is
\* handled, so `handled` is at - 1 and `consumed` is at - first.
NoWork == [pc |-> "idle", at |-> 0, verdict |-> "all"]

TypeOK ==
  /\ log \in [Records -> Kinds]
  /\ HostTypeOK
  /\ work \in [Partitions -> [pc : {"idle", "records", "report", "answer"},
                              at : 0 .. LogLen, verdict : Verdicts]]
  /\ highWater \in [Partitions -> SUBSET Offsets]
  /\ flagged \in [Records -> Nat]
  /\ folded \in [Partitions -> [hw : -1 .. LogLen - 1, consumed : Nat, redelivered : Nat]]
  /\ naive \in BOOLEAN
  /\ missed \in [Partitions -> BOOLEAN]
  /\ \A p \in Partitions : Idle(p) <=> work[p] = NoWork

Init ==
  /\ log \in [Records -> Kinds]
  /\ HostInit
  /\ work = [p \in Partitions |-> NoWork]
  /\ highWater = [p \in Partitions |-> {}]
  /\ flagged = [r \in Records |-> 0]
  /\ folded = [p \in Partitions |-> NothingFolded]
  /\ naive \in BOOLEAN
  /\ missed = [p \in Partitions |-> FALSE]

Miss(p) == missed' = [missed EXCEPT ![p] = TRUE]

SeenAgainSigned(seen, first, last) ==   \* mutant: no max(0)
  (IF seen < last THEN seen ELSE last) - first + 1

\* note_redelivery(): how much of first..last the instance has been handed.
SeenAgain(seen, first, last) ==
  Positive((IF seen < last THEN seen ELSE last) - first + 1)

\* The host calls some instance of the pool: a new one, or one whose cache
\* holds what an earlier call left there (an instance is never in two calls,
\* and the pool is larger than the partitions are many).  The `redelivered`
\* metric is sent before the work; its loss would only lower the count.
Handle(p) ==
  \E last \in Offsets, seen \in {-1} \cup highWater[p] :
    /\ Hand(p, last)
    /\ work' = [work EXCEPT ![p] = [pc |-> "records", at |-> position[p], verdict |-> "all"]]
    /\ highWater' = [highWater EXCEPT ![p] = @ \cup {Higher(last, seen)}]
    /\ folded' = [folded EXCEPT ![p] =
                    FoldRedelivered(@, SeenAgain(seen, position[p], last))]
    /\ UNCHANGED <<log, flagged, naive, missed, faults>>

InLoop(p) == work[p].pc = "records"
AtKind(p) == log[<<p, work[p].at>>]
More(p)   == InLoop(p) /\ work[p].at <= call[p].last
Leave(p, pc, v) == work' = [work EXCEPT ![p] = [pc |-> pc, at |-> @.at, verdict |-> v]]
Report(p, v) == Leave(p, "report", v)

PartialAnswerNever(p, otherwise) == otherwise   \* mutant: forgets the prefix

PartialAnswerRepeats(p, otherwise) ==           \* mutant: retries the prefix too
  IF work[p].at > call[p].first THEN "transient" ELSE otherwise

\* What the handler answers when the loop stopped at a record it cannot handle.
PartialAnswer(p, otherwise) ==
  IF work[p].at > call[p].first THEN "through" ELSE otherwise

PassRecord(p) ==
  /\ More(p)
  /\ AtKind(p) = "in_spec"
  /\ work' = [work EXCEPT ![p].at = @ + 1]
  /\ UNCHANGED <<log, host, highWater, flagged, folded, naive, missed, faults>>

FlagRecord(p) ==
  /\ More(p)
  /\ AtKind(p) = "out_of_spec"
  /\ flagged' = [flagged EXCEPT ![<<p, work[p].at>>] = @ + 1]
  /\ work' = [work EXCEPT ![p].at = @ + 1]
  /\ UNCHANGED <<log, host, highWater, folded, naive, missed, faults>>

\* `consumed` of n records over first..last.
FoldReport(p, n, last) ==
  folded' = [folded EXCEPT ![p] = FoldConsumed(@, n, call[p].first, last)]

FlagFailsHandled(p) ==         \* mutant: the failed record counts as handled
  /\ More(p)
  /\ AtKind(p) = "out_of_spec"
  /\ Fault
  /\ work' = [work EXCEPT ![p].pc = "answer", ![p].verdict = "through", ![p].at = @ + 1]
  /\ Miss(p)
  /\ UNCHANGED <<log, host, highWater, flagged, folded, naive>>

\* The flag was not taken: report what is handled, naming the failed record as
\* the last (lib.rs:271), and answer at once.  The flag may be there after all.
FlagFails(p) ==
  /\ More(p)
  /\ AtKind(p) = "out_of_spec"
  /\ Fault
  /\ flagged' \in {flagged, [flagged EXCEPT ![<<p, work[p].at>>] = @ + 1]}
  /\ Leave(p, "answer", PartialAnswer(p, "transient"))
  /\ FoldReport(p, work[p].at - call[p].first, work[p].at) \/ UNCHANGED folded
  /\ Miss(p)
  /\ UNCHANGED <<log, host, highWater, naive>>

StopAtMalformedRetries(p) ==   \* mutant: Transient for a record that never parses
  /\ More(p)
  /\ AtKind(p) = "malformed" /\ ~naive
  /\ Report(p, PartialAnswer(p, "transient"))
  /\ UNCHANGED <<log, host, highWater, flagged, folded, naive, missed, faults>>

\* A malformed record stops the loop; its batch is reported all the same.
StopAtMalformed(p) ==
  /\ More(p)
  /\ AtKind(p) = "malformed" /\ ~naive
  /\ Report(p, PartialAnswer(p, "permanent"))
  /\ UNCHANGED <<log, host, highWater, flagged, folded, naive, missed, faults>>

LoopDone(p) ==
  /\ InLoop(p) /\ work[p].at > call[p].last
  /\ Report(p, "all")
  /\ UNCHANGED <<log, host, highWater, flagged, folded, naive, missed, faults>>

SendReportOne(p) ==            \* mutant: counts the record it stopped at
  /\ work[p].pc = "report"
  /\ FoldReport(p, work[p].at - call[p].first + 1, call[p].last)
  /\ work' = [work EXCEPT ![p].pc = "answer"]
  /\ UNCHANGED <<log, host, highWater, flagged, naive, missed, faults>>

\* The metrics are sent: `consumed` (when anything was) names the range of the
\* whole batch (lib.rs:290), however little of it was handled.
SendReport(p) ==
  /\ work[p].pc = "report"
  /\ IF work[p].at > call[p].first
     THEN FoldReport(p, work[p].at - call[p].first, call[p].last)
     ELSE UNCHANGED folded
  /\ work' = [work EXCEPT ![p].pc = "answer"]
  /\ UNCHANGED <<log, host, highWater, flagged, naive, missed, faults>>

\* `let _ = send_batch(...)`.
ReportLost(p) ==
  /\ work[p].pc = "report"
  /\ Fault
  /\ Miss(p)
  /\ work' = [work EXCEPT ![p].pc = "answer"]
  /\ UNCHANGED <<log, host, highWater, flagged, folded, naive>>

Answer(p) ==
  /\ work[p].pc = "answer"
  /\ Answered(p, work[p].verdict, work[p].at - 1)
  /\ work' = [work EXCEPT ![p] = NoWork]
  /\ UNCHANGED <<log, highWater, flagged, folded, naive, missed, faults>>

Panic(p) ==
  /\ Trapped(p)
  /\ work' = [work EXCEPT ![p] = NoWork]
  /\ UNCHANGED <<log, highWater, flagged, folded, naive, missed>>

\* The naive build's panic! on a malformed record.
NaivePanic(p) ==
  /\ More(p)
  /\ AtKind(p) = "malformed" /\ naive
  /\ Panic(p)
  /\ UNCHANGED faults

\* An instance is lost in the middle of a call.
Trap(p) == work[p] # NoWork /\ Panic(p) /\ Fault

Commit(p) ==
  /\ CommitPosition(p)
  /\ UNCHANGED <<log, work, highWater, flagged, folded, naive, missed, faults>>

\* A restart, or `make naive` / `make robust`: the other build is applied.
Restart ==
  /\ HostRestarts
  /\ Fault
  /\ work' = [p \in Partitions |-> NoWork]
  /\ highWater' = [p \in Partitions |-> {}]
  /\ naive' \in BOOLEAN
  /\ UNCHANGED <<log, flagged, folded, missed>>

Handler(p) ==
  \/ Handle(p) \/ PassRecord(p) \/ FlagRecord(p)
  \/ StopAtMalformed(p) \/ LoopDone(p) \/ SendReport(p) \/ Answer(p)
  \/ NaivePanic(p) \/ Commit(p)

Next ==
  \/ \E p \in Partitions : Handler(p) \/ FlagFails(p) \/ ReportLost(p) \/ Trap(p)
  \/ Restart

Spec == Init /\ [][Next]_vars

\* Every partition's calls make progress; failures are owed to nobody.
FairSpec == Spec /\ \A p \in Partitions : WF_vars(Handler(p))

(***************************************************************************)
(* Properties.                                                             *)
(***************************************************************************)

\* A record is settled when it is in spec, its flag or its dead letter is out.
Settled ==
  {r \in Records : \/ log[r] = "in_spec"
                   \/ log[r] = "out_of_spec" /\ flagged[r] > 0
                   \/ dlq[r] > 0}

Promise == INSTANCE AtLeastOnce WITH settled <- Settled

\* At least once (lib.rs:9-16): a partition's position never moves past a
\* record that is not settled, whatever mixture of partial answers, retries,
\* traps and restarts leads there.
AtLeastOnceSpec == Promise!Spec

\* A malformed record costs its neighbours nothing, in either build and wherever
\* in the batch it was: for a healthy record to be dead-lettered instances must
\* be lost in the middle of calls, all but one of the times it takes.
HealthyNeverDeadLettered ==
  \A r \in Records : dlq[r] > 0 => log[r] = "malformed" \/ faults >= TrapLimit - 1

\* "keep the work already done" (lib.rs:301): a partial answer, unlike a
\* failure, makes the host repeat no flag and no dead letter.
PartialRepeatsNothing ==
  faults = 0 /\ ~naive => \A r \in Records : flagged[r] <= 1 /\ dlq[r] <= 1

Healthy(p) == \A o \in Offsets : log[<<p, o>>] # "malformed"
Clean(p) == Healthy(p) /\ ~missed[p] /\ \A o \in Offsets : dlq[<<p, o>>] = 0

\* "Exact, and independent of which station instance reported"
\* (line-dashboard lib.rs:168-172): on a partition without malformed or
\* dead-lettered records whose flags and reports arrived, each record handed on
\* counts once, through traps, restarts and batches cut differently.
AccountingExact ==
  \A p \in Partitions :
    Clean(p) =>
      /\ folded[p].consumed = folded[p].hw + 1
      /\ Idle(p) => folded[p].consumed >= position[p]

\* However it is repeated, a record is never counted as consumed twice.
NeverOvercounts == \A p \in Partitions : folded[p].consumed <= folded[p].hw + 1

\* Nothing counts as redelivered on a healthy partition when nothing failed.
NoFalseRedelivery ==
  \A p \in Partitions : faults = 0 /\ Healthy(p) => folded[p].redelivered = 0

\* What the dashboard makes of the metrics, in one.
Accounting == AccountingExact /\ NeverOvercounts /\ NoFalseRedelivery

(***************************************************************************)
(* The inductive invariant: what a call in hand has done at each point of  *)
(* the handler, and how far traps, counts and repeats can have got by then.*)
(***************************************************************************)

\* How far the records of a partition are handled: into the batch in hand.
Handled(p) == IF Idle(p) THEN position[p] ELSE work[p].at

CallAt(p) ==
  /\ committed[p] <= position[p]
  /\ ~Idle(p) =>
       /\ work[p].pc # "idle"
       /\ call[p].first = position[p] /\ position[p] <= call[p].last
       /\ traps[p] > 0 => call[p].last = position[p]
       /\ position[p] <= work[p].at /\ work[p].at <= call[p].last + 1
  /\ work[p].pc \in {"report", "answer"} =>
       /\ work[p].verdict = "all"       => work[p].at = call[p].last + 1
       /\ work[p].verdict = "through"   => work[p].at > position[p]
       /\ work[p].verdict = "transient" => work[p].at = position[p]
       /\ work[p].verdict = "permanent" =>
            work[p].at = position[p] /\ log[<<p, position[p]>>] = "malformed"

CallInv == \A p \in Partitions : CallAt(p)

SettledInv ==
  \A p \in Partitions : \A o \in Offsets : o < Handled(p) => <<p, o>> \in Settled

\* A trap is counted against the head of the batch, whichever record it was of;
\* the head is then alone, so that what follows counts against itself.
HeadInv ==
  /\ HealthyNeverDeadLettered
  /\ \A p \in Partitions :
       position[p] < LogLen /\ log[<<p, position[p]>>] # "malformed" =>
         traps[p] <= faults + 1

OnceInv ==
  faults = 0 /\ ~naive =>
    /\ \A r \in Records :
         /\ flagged[r] <= 1 /\ dlq[r] <= 1
         /\ r[2] >= Handled(r[1]) => flagged[r] = 0 /\ dlq[r] = 0
    /\ \A p \in Partitions : work[p].verdict # "transient"

Behind(p) == folded[p].consumed <= folded[p].hw + 1

CountedExactly(p) ==
  Clean(p) =>
    /\ folded[p].consumed = folded[p].hw + 1
    /\ position[p] <= folded[p].consumed
    /\ work[p].verdict = "all"
    /\ work[p].pc = "answer" => work[p].at <= folded[p].consumed

SeenOnce(p) ==
  faults = 0 /\ Healthy(p) =>
    /\ folded[p].redelivered = 0
    /\ work[p].verdict = "all"
    /\ folded[p].hw = IF work[p].pc = "answer" THEN call[p].last ELSE position[p] - 1
    /\ \A o \in highWater[p] : o < IF Idle(p) THEN position[p] ELSE call[p].last + 1

CountInv == \A p \in Partitions : Behind(p) /\ CountedExactly(p) /\ SeenOnce(p)

Inv == TypeOK /\ CallInv /\ SettledInv /\ HeadInv /\ OnceInv /\ CountInv

\* `make validate` (validate.sh:169): once a run without failures is drained,
\* produced == consumed + dlq.
Balanced ==
  faults = 0 /\ ~naive => \A p \in Partitions :
    position[p] = LogLen /\ Idle(p) =>
      LogLen = folded[p].consumed + Cardinality({o \in Offsets : dlq[<<p, o>>] > 0})

\* No record stalls the partition behind it, in either build.
Drains == \A p \in Partitions : <>[](committed[p] = LogLen)
=============================================================================
