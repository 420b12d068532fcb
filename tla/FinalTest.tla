----------------------------- MODULE FinalTest -----------------------------
(***************************************************************************)
(* ST-06, final test and disposition (workloads/st06-final-test): the      *)
(* read-process-write loop with Kafka transactions.  One process hands     *)
(* records to a batch, ships a full batch in one transaction (outputs,     *)
(* inventory moves, metrics, input offsets), and exits on any failure; the *)
(* supervisor starts it again from the committed position.                 *)
(*                                                                         *)
(* The transaction coordinator, the group and the supervisor are external: *)
(* they are what the host's consumer and transaction bindings show of      *)
(* Kafka.  A commit request may be applied though its answer is lost, a    *)
(* transaction of a dead process stays open until it times out or the next *)
(* begin fences it, and a position is only read when no transaction holds  *)
(* offsets of the group open.                                              *)
(***************************************************************************)
EXTENDS Naturals, FiniteSets, FiniteSetsExt

CONSTANTS Partitions,      \* partitions of finaltest.bins
          LogLen,          \* records on each partition
          Malformed,       \* records whose value is not a unit
          BatchSize,       \* BATCH_SIZE
          MaxFaults        \* bound: failures of all kinds in one behaviour

Offsets == 0 .. LogLen - 1
Records == Partitions \X Offsets

ASSUME LogAssumption ==
  /\ LogLen \in Nat
  /\ Malformed \subseteq Records
ASSUME BatchSizeAssumption == BatchSize \in 1 .. 100
ASSUME FaultAssumption == MaxFaults \in Nat

Topics == {"dispositions", "moves", "metrics"}

\* transform(): a unit becomes one disposition and one move; every record is
\* counted in the consumed metric.
Carries(t, r) == t = "metrics" \/ r \notin Malformed

VARIABLES
  pc,          \* where the process is; "down" when there is none
  pos,         \* next offset the record stream hands out, per partition
  batch,       \* the in-memory batch: how often it holds each record
  held,        \* its length
  ended,       \* the stream has ended, the trailing batch is the last one
  txn,         \* the producer's transaction at the coordinator
  committed,   \* committed position of the group, per partition
  shipped,     \* read_committed view: outputs of each record on each topic
  batches,     \* batches whose transaction committed
  reported,    \* `txn` records on line.metrics
  rewound,     \* history: a rebalance moved pos back over records in hand
  faults       \* failures so far

station == <<pc, pos, batch, held, ended>>
broker  == <<txn, committed, shipped, batches>>
history == <<reported, rewound, faults>>
vars    == <<station, broker, history>>

Empty == [r \in Records |-> 0]
Transactions ==
  [phase : {"none", "ongoing", "committing", "committed"},
   sent : SUBSET Topics, offsets : BOOLEAN, batch : [Records -> Nat]]
NoTxn == [phase |-> "none", sent |-> {}, offsets |-> FALSE, batch |-> Empty]

Steps == Topics \cup {"offsets", "commit", "commit_wait"}

TypeOK ==
  /\ pc \in Steps \cup {"down", "read", "begin", "abort", "report_txn",
                        "report_abort", "close"}
  /\ pos \in [Partitions -> 0 .. LogLen]
  /\ batch \in [Records -> Nat]
  /\ held \in Nat
  /\ ended \in BOOLEAN
  /\ txn \in Transactions
  /\ committed \in [Partitions -> 0 .. LogLen]
  /\ shipped \in [Topics -> [Records -> Nat]]
  /\ batches \in Nat
  /\ reported \in Nat
  /\ rewound \in BOOLEAN
  /\ faults \in 0 .. MaxFaults

Init ==
  /\ pc = "down"
  /\ pos = [p \in Partitions |-> 0]
  /\ batch = Empty
  /\ held = 0
  /\ ended = FALSE
  /\ txn = NoTxn
  /\ committed = [p \in Partitions |-> 0]
  /\ shipped = [t \in Topics |-> Empty]
  /\ batches = 0
  /\ reported = 0
  /\ rewound = FALSE
  /\ faults = 0

Fault == faults < MaxFaults /\ faults' = faults + 1

Open_(t) == t.phase \in {"ongoing", "committing"}

\* Offsets of the group are held by a transaction not yet decided: readers of
\* the committed position wait.
OffsetsPending == Open_(txn) /\ txn.offsets

\* commit_positions(): one past the last record of each partition in the batch.
Held(b, p) == {o \in Offsets : b[<<p, o>>] > 0}
CommitPositionsLast(b) ==      \* mutant: the last offset, not one past it
  [p \in Partitions |-> IF Held(b, p) = {} THEN committed[p] ELSE Max(Held(b, p))]

CommitPositionsPastNext(b) ==  \* mutant: skips a record
  [p \in Partitions |-> IF Held(b, p) = {} THEN committed[p] ELSE Max(Held(b, p)) + 2]

CommitPositions(b) ==
  [p \in Partitions |-> IF Held(b, p) = {} THEN committed[p] ELSE Max(Held(b, p)) + 1]

(***************************************************************************)
(* The process.                                                            *)
(***************************************************************************)

\* The supervisor starts the service: open, subscribe, take the stream.
Open ==
  /\ pc = "down"
  /\ ~OffsetsPending
  /\ pc' = "read"
  /\ pos' = committed
  /\ UNCHANGED <<batch, held, ended, broker, history>>

DeliverLate(p) ==              \* mutant: > for >=
  /\ pc = "read"
  /\ pos[p] < LogLen
  /\ batch' = [batch EXCEPT ![<<p, pos[p]>>] = @ + 1]
  /\ held' = held + 1
  /\ pos' = [pos EXCEPT ![p] = @ + 1]
  /\ pc' = IF held' > BatchSize THEN "begin" ELSE "read"
  /\ UNCHANGED <<ended, broker, history>>

\* records.next(): push, and process the batch once it is full.
Deliver(p) ==
  /\ pc = "read"
  /\ pos[p] < LogLen
  /\ batch' = [batch EXCEPT ![<<p, pos[p]>>] = @ + 1]
  /\ held' = held + 1
  /\ pos' = [pos EXCEPT ![p] = @ + 1]
  /\ pc' = IF held' >= BatchSize THEN "begin" ELSE "read"
  /\ UNCHANGED <<ended, broker, history>>

\* The stream ends: a trailing partial batch is processed, its result ignored.
StreamEnd ==
  /\ pc = "read"
  /\ Fault
  /\ ended' = TRUE
  /\ pc' = IF held = 0 THEN "close" ELSE "begin"
  /\ UNCHANGED <<pos, batch, held, broker, reported, rewound>>

AfterErrRetry == IF ended THEN "close" ELSE "begin"   \* mutant: retries in place

\* Where process_batch's Err goes: the trailing batch's is dropped.
AfterErr == IF ended THEN "close" ELSE "report_abort"

\* transaction::begin fences whatever transaction is still open.
Begin ==
  /\ pc = "begin"
  /\ txn' = [NoTxn EXCEPT !.phase = "ongoing", !.batch = batch]
  /\ pc' = "dispositions"
  /\ UNCHANGED <<pos, batch, held, ended, committed, shipped, batches, history>>

BeginFails ==
  /\ pc = "begin"
  /\ Fault
  /\ txn' \in {txn, NoTxn}
  /\ pc' = AfterErr
  /\ UNCHANGED <<pos, batch, held, ended, committed, shipped, batches, reported, rewound>>

AfterSend == [dispositions |-> "moves", moves |-> "metrics", metrics |-> "offsets"]

Send(t) ==
  /\ pc = t
  /\ txn.phase = "ongoing"
  /\ txn' = [txn EXCEPT !.sent = @ \cup {t}]
  /\ pc' = AfterSend[t]
  /\ UNCHANGED <<pos, batch, held, ended, committed, shipped, batches, history>>

SendOffsetsNot ==              \* mutant: the offsets stay out of the transaction
  /\ pc = "offsets"
  /\ txn.phase = "ongoing"
  /\ pc' = "commit"
  /\ UNCHANGED <<pos, batch, held, ended, broker, history>>

SendOffsets ==
  /\ pc = "offsets"
  /\ txn.phase = "ongoing"
  /\ txn' = [txn EXCEPT !.offsets = TRUE]
  /\ pc' = "commit"
  /\ UNCHANGED <<pos, batch, held, ended, committed, shipped, batches, history>>

StepFailsIgnored ==            \* mutant: a failed send does not stop the batch
  /\ pc \in Topics
  /\ Fault
  /\ pc' = AfterSend[pc]
  /\ UNCHANGED <<pos, batch, held, ended, broker, reported, rewound>>

\* A send, or one record of it, or send_offsets fails: `?`, then abort.
StepFails ==
  /\ pc \in Topics \cup {"offsets"}
  /\ IF txn.phase = "ongoing" THEN Fault ELSE UNCHANGED faults
  /\ pc' = "abort"
  /\ UNCHANGED <<pos, batch, held, ended, broker, reported, rewound>>

Commit ==
  /\ pc = "commit"
  /\ pc' = "commit_wait"
  /\ txn' = IF txn.phase = "ongoing" THEN [txn EXCEPT !.phase = "committing"] ELSE txn
  /\ UNCHANGED <<pos, batch, held, ended, committed, shipped, batches, history>>

\* Ok(()): the trailing batch is not reported.
CommitOk ==
  /\ pc = "commit_wait"
  /\ txn.phase = "committed"
  /\ pc' = IF ended THEN "close" ELSE "report_txn"
  /\ UNCHANGED <<pos, batch, held, ended, broker, history>>

CommitFailsReported ==         \* mutant: reports the batch whatever commit says
  /\ pc = "commit_wait"
  /\ IF txn.phase = "none" THEN UNCHANGED faults ELSE Fault
  /\ pc' = "report_txn"
  /\ UNCHANGED <<pos, batch, held, ended, broker, reported, rewound>>

\* commit returned an error; the coordinator may have applied it, may apply
\* it yet, or may have timed the transaction out.
CommitFails ==
  /\ pc = "commit_wait"
  /\ IF txn.phase = "none" THEN UNCHANGED faults ELSE Fault
  /\ pc' = "abort"
  /\ UNCHANGED <<pos, batch, held, ended, broker, reported, rewound>>

\* `let _ = txn.abort()`: it may fail and leave the transaction open.
Abort ==
  /\ pc = "abort"
  /\ txn' \in {txn} \cup (IF Open_(txn) THEN {NoTxn} ELSE {})
  /\ pc' = AfterErr
  /\ UNCHANGED <<pos, batch, held, ended, committed, shipped, batches, history>>

ReportTxnKeeps ==              \* mutant: no batch.clear()
  /\ pc = "report_txn"
  /\ reported' \in {reported, reported + 1}
  /\ held' = 0
  /\ pc' = "read"
  /\ UNCHANGED <<pos, batch, ended, broker, rewound, faults>>

\* report_txn, best effort in a transaction of its own, then batch.clear().
ReportTxn ==
  /\ pc = "report_txn"
  /\ reported' \in {reported, reported + 1}
  /\ batch' = Empty
  /\ held' = 0
  /\ pc' = "read"
  /\ UNCHANGED <<pos, ended, broker, rewound, faults>>

\* report_abort, best effort: its begin fences the batch's transaction.
ReportAbort ==
  /\ pc = "report_abort"
  /\ txn' \in {txn, NoTxn}
  /\ pc' = "close"
  /\ UNCHANGED <<pos, batch, held, ended, committed, shipped, batches, history>>

Exit ==
  /\ pc' = "down"
  /\ batch' = Empty
  /\ held' = 0
  /\ ended' = FALSE
  /\ UNCHANGED <<pos, broker, reported, rewound>>

Close == pc = "close" /\ Exit /\ UNCHANGED faults
Crash == pc # "down" /\ Exit /\ Fault

(***************************************************************************)
(* The host and the broker.                                                *)
(***************************************************************************)

\* The coordinator applies the commit: outputs and offsets in one step.
CommitApplied ==
  /\ txn.phase = "committing"
  /\ txn' = [txn EXCEPT !.phase = "committed"]
  /\ shipped' = [t \in Topics |-> [r \in Records |->
                   IF t \in txn.sent /\ Carries(t, r)
                   THEN shipped[t][r] + txn.batch[r] ELSE shipped[t][r]]]
  /\ committed' = IF txn.offsets THEN CommitPositions(txn.batch) ELSE committed
  /\ batches' = batches + 1
  /\ UNCHANGED <<station, history>>

\* transaction.timeout.ms: of a live process's transaction it is a failure,
\* of one left behind it is what ends it.
TxnTimeout ==
  /\ Open_(txn)
  /\ txn' = NoTxn
  /\ IF pc \in Steps THEN Fault ELSE UNCHANGED faults
  /\ UNCHANGED <<station, committed, shipped, batches, reported, rewound>>

\* The process does not read rebalances(): the client's default assignment
\* moves the stream to the committed position while the batch stays as it is.
Rebalance ==
  /\ pc # "down" /\ ~ended
  /\ ~OffsetsPending
  /\ Fault
  /\ pos' = committed
  /\ rewound' = (rewound \/ pos # committed)
  /\ UNCHANGED <<pc, batch, held, ended, broker, reported>>

Station ==
  \/ Open \/ (\E p \in Partitions : Deliver(p)) \/ Begin \/ BeginFails
  \/ (\E t \in Topics : Send(t)) \/ SendOffsets \/ StepFails
  \/ Commit \/ CommitOk \/ CommitFails \/ Abort
  \/ ReportTxn \/ ReportAbort \/ Close

Coordinator == CommitApplied \/ TxnTimeout

Next == Station \/ Coordinator \/ StreamEnd \/ Crash \/ Rebalance

Spec == Init /\ [][Next]_vars

\* The process is scheduled while it runs, the supervisor restarts it, and the
\* coordinator decides every transaction; failures are owed to nobody.
FairSpec == Spec /\ WF_vars(Station) /\ WF_vars(Coordinator)

(***************************************************************************)
(* Properties.                                                             *)
(***************************************************************************)

\* "Output records and input offsets commit atomically ... cannot ship the
\* same units twice" (lib.rs:8-10): each record below the committed position
\* has been shipped exactly once on each topic that carries it, and no record
\* above it has.
ExactlyOnce ==
  \A t \in Topics, r \in Records :
    shipped[t][r] = IF Carries(t, r) /\ r[2] < committed[r[1]] THEN 1 ELSE 0

\* The same as long as no rebalance rewound the stream under a batch, through
\* every crash, ambiguous commit, failed abort and timeout.
ExactlyOnceUntilRewind == ~rewound => ExactlyOnce

\* No unit below the committed position is missing from any topic, even when
\* rebalances make the batch hold records twice or the position move back.
NothingLost ==
  \A t \in Topics, r \in Records :
    Carries(t, r) /\ r[2] < committed[r[1]] => shipped[t][r] >= 1

\* The three output topics agree on every unit: all of a batch or none.
TopicsAgree ==
  \A t, u \in Topics, r \in Records :
    Carries(t, r) /\ Carries(u, r) => shipped[t][r] = shipped[u][r]

\* "a `txn` record only exists for a batch that really committed"
\* (lib.rs:163), across lost answers and crashes between the two.
ReportedCommitted == reported <= batches

\* A step never makes an output visible without moving a position, nor moves
\* one back, until a rewind.
ShipsWithOffsets ==
  [][~rewound => /\ \A p \in Partitions : committed'[p] >= committed[p]
                 /\ shipped' # shipped => committed' # committed]_vars

(***************************************************************************)
(* The inductive invariant: what the phase of the transaction says of the  *)
(* process and of its batch, and what the batch and the stream's position  *)
(* hold between the committed position and the next record.                *)
(***************************************************************************)
Filling == {"read", "begin", "offsets", "commit"} \cup Topics

SentBefore == [dispositions |-> {}, moves |-> {"dispositions"},
               metrics |-> {"dispositions", "moves"},
               offsets |-> Topics, commit |-> Topics]

TxnInv ==
  /\ pc \in Topics \cup {"offsets", "commit"} =>
       /\ txn.phase \in {"none", "ongoing"}
       /\ txn.phase = "ongoing" => /\ txn.batch = batch
                                  /\ txn.sent = SentBefore[pc]
                                  /\ txn.offsets = (pc = "commit")
  /\ txn.phase \in {"committing", "committed"} => txn.sent = Topics /\ txn.offsets
  /\ txn.phase = "committing" =>
       pc \in {"commit_wait", "abort", "report_abort", "close", "down"}
  /\ pc = "commit_wait" => txn.phase = "none" \/ txn.batch = batch
  /\ pc = "commit_wait" => txn.phase # "ongoing"
  /\ pc = "down" => batch = Empty

ReportInv ==
  /\ reported <= batches
  /\ pc = "report_txn" \/ (pc = "commit_wait" /\ txn.phase = "committed") =>
       reported < batches

\* b holds each record from the committed position up to the stream's once.
Spans(b) ==
  \A r \in Records :
    b[r] = IF committed[r[1]] <= r[2] /\ r[2] < pos[r[1]] THEN 1 ELSE 0

OnceInv ==
  ~rewound =>
    /\ ExactlyOnce
    /\ \A p \in Partitions : committed[p] <= pos[p]
    /\ pc \in Filling => Spans(batch)
    /\ txn.phase = "committing" => Spans(txn.batch)
    /\ pc = "report_txn" \/ (pc = "commit_wait" /\ txn.phase = "committed") =>
         committed = pos

Shipped(r) == \A t \in Topics : Carries(t, r) => shipped[t][r] >= 1
Covered(b, r) == b[r] > 0 \/ Shipped(r)

\* Everything before a record of b, in its partition, is in b or shipped.
Closed(b) ==
  \A r, s \in Records : b[r] > 0 /\ s[1] = r[1] /\ s[2] < r[2] => Covered(b, s)

LossInv ==
  /\ NothingLost
  /\ pc \in Filling \cup {"commit_wait"} =>
       Closed(batch) /\ \A r \in Records : r[2] < pos[r[1]] => Covered(batch, r)
  /\ txn.phase = "committing" => Closed(txn.batch)
  /\ pc = "report_txn" \/ (pc = "commit_wait" /\ txn.phase = "committed") =>
       \A r \in Records : r[2] < pos[r[1]] => Shipped(r)

Inv == TypeOK /\ TxnInv /\ ReportInv /\ TopicsAgree /\ OnceInv /\ LossInv

Backlog == {r \in Records : r[2] >= committed[r[1]]}

\* Once failures stop the station works its input off to less than one batch:
\* nothing wedges it (there is no batch timer, so a rest may stay).  After a
\* rewind the committed position may have moved back behind records that are
\* handed out once only, so the claim is for sessions no rebalance rewound.
BacklogDrains == <>[](rewound \/ Cardinality(Backlog) < BatchSize)

Ledger == INSTANCE TransactionalLedger WITH outputs <- shipped, position <- committed

\* ST-06 implements the ledger it promises.
LedgerSpec == Ledger!Spec
=============================================================================
