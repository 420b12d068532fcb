# Verification of the Fab 3 assembly line

TLA+ models of the workloads in `workloads/`, the TLC runs that check them on
small instances, and proofs, checked by TLAPS for every value of the constants,
of every safety property and refinement those runs check: of all the stations, of
the simulator, and of the dashboard with `validate.sh`. Everything is translated
from the source. The host's Kafka plugin and the broker are not in the repository; they
are modelled from how the workloads, their WIT and their comments use them, and
marked external.

`tlc -workers 2 -config X.cfg M` runs one configuration, `tlapm XProofs.tla`
checks one proof module. `PROJECT.json` lists the runs, the code lines behind
each definition, the hazards each property is for, and for each property a
plausible bug of the code that violates it.

## 1. The system

Records flow from `factory-simulator` (static scenario frames on a one-second
tick) through the stations' topics. Each station reports to `line.metrics`; the
dashboard folds that topic, the dead-letter topics and the ledgers into one
model in memory; `scripts/validate.sh` stops the simulator, waits for lag zero
and compares, per station, produced with consumed + dead-lettered, and asks for
zero duplicate units in `lot.disposition`.

```
            sim.control
                 |
  factory-simulator --+--> probe.lots (ST-01 too, over HTTP)
                      +--> dieattach.readings -> ST-02 -> dieattach.flags, dieattach.dlq
                      +--> wirebond.raw       -> ST-03 -> wirebond.metrics, wirebond.dlq
                      +--> inspect.jobs       -> ST-04 -> inspect.results
                      +--> mold.telemetry     -> ST-05 -> mold.profile
                      +--> finaltest.bins     -> ST-06 -> lot.disposition, inventory.moves
                                              -> twin  -> the same, *.twin
  all of them -> line.metrics -> line-dashboard -> /validate -> validate.sh
```

### Inventory

| Component | State | Operations | Hard behaviour | What makes it correct |
|---|---|---|---|---|
| ST-06 `st06-final-test` | in-memory batch; the producer's transaction; group position | `records.next`, `process_batch` (begin, three sends, offsets, commit), abort, `report_txn`, `report_abort`, exit and restart | lost commit answer, failed abort, fencing, transaction timeout, crash between any two calls, rebalance under a batch | outputs and offsets are atomic: each unit once on each topic, none lost; a `txn` record only for a committed batch |
| ST-06 twin | batch, `since_commit` | two sends, `commit([])` each fifth batch | sends that fail in part, commits that apply in part | at least once; moves behind dispositions; bounded replay |
| ST-02 `st02-die-attach` | none but `HIGH_WATER`, per instance of a pool of 32 | `handle` with answers all / through o / transient / permanent; the naive build traps | partial answers, trap and isolation, dead letters, batches cut differently when handed over again | nothing skipped, no healthy record dead-lettered, no stall, counts that balance |
| ST-03 `st03-wire-bond` | windows and means per bonder, replay flags, high-water marks, pending outputs, one seek request | record loop, rebalance loop, `close_window`, seek, `flush`, `commit([])` | two tasks sharing State across awaits, seeks, revocations, answers to the group that fail, deferred commits | no bond disappears, a replay cannot loop, replays are not counted |
| ST-04 `st04-inspection` | none across calls | `handle`, one job a call as deployed | a call repeated after a send that failed in part | at least once, counts that balance, one verdict per job unless something failed |
| ST-05 `st05-mold-cure` | none across calls | `handle`, a window per press and batch | batches cut short by a record that does not parse, repeated calls, a `consumed` that names no range | at least once; the windows cut each press's samples into pieces; the count never falls short |
| ST-01 `st01-probe-intake` | none but the uploads under way | `POST /lot`, `POST /produce-batch`, `GET /healthz` | overlapping uploads, wafers of a lot that fail, metrics that are best effort and come before the answer, an instance lost under an upload | the panel agrees with the responses |
| Host handler delivery (external) | position, committed position, call and traps per partition, DLQ | hand a batch, act on the answer, trap, commit, restart | everything above | its contract is in `HandlerDelivery` |
| `factory-simulator` | `State`: running, scenario, frame, overlays, rate, passes, plays | control loop (`apply_control`, commit), tick loop (`play_frame`, sends, `advance`, metrics), restart | controls landing between the sends of a frame, replayed controls, failed sends | ids unique, frames in order, overlays whole, produced count never too high |
| `line-dashboard` | `Model` in the memory of a warm instance: counts, high-water marks, first offsets, fault ledger | `handle` folds a record (`fold_metric`, `fold_dead_letter`, `push_fault`); `/api/state`, `/validate` | partitions handed again, an instance replaced in mid-stream, repeated reports, stamps out of order, pruning | counts exact; `/validate` balances whenever the line lost nothing; one row per fault and minute |
| `scripts/validate.sh` | `was_running`, the lags last read, the round | stop, drain loop, fetch, compare, start | the stop is a record another process acts on; groups may never catch up; the script may die | the loop is off when the numbers are read, and on again afterwards |
| bring-up, manifests, compose, CI, page, data | none of their own | sequential scripts, configuration, rendering | | |

## 2. Modules

| Module | Models | Extends / instantiates |
|---|---|---|
| `TransactionalLedger` | abstract: positions and outputs move together | |
| `AtLeastOnce` | abstract: a record is settled before the position that survives moves past it | |
| `FinalTest` | ST-06, the coordinator and the group as it sees them | `TransactionalLedger` WITH outputs <- shipped, position <- committed |
| `FinalTestProofs` | theorems about `FinalTest` | `FinalTest`, TLAPS |
| `FinalTestTwin` | the twin, with its `consumed` metric | `AtLeastOnce` WITH position <- committed, settled <- Settled |
| `FinalTestTwinProofs` | theorems about `FinalTestTwin` | `FinalTestTwin`, TLAPS |
| `HandlerDelivery` | what the host does around a handler | |
| `ConsumedFold` | the dashboard's fold of one `consumed` metric, pure operators | |
| `DieAttach` | ST-02 in both builds, with the fold of what it reports | `HandlerDelivery`, `ConsumedFold`; `AtLeastOnce` WITH settled <- Settled |
| `DieAttachProofs` | theorems about `DieAttach` and the delivery around it | `DieAttach`, TLAPS |
| `Inspection` | ST-04, likewise | `HandlerDelivery`, `ConsumedFold` |
| `MoldCure` | ST-05, likewise | `HandlerDelivery`, `ConsumedFold` |
| `MCResultStations` | one run for the two that publish results | `MoldCure`, `Inspection`; `AtLeastOnce` WITH settled <- MCSettled |
| `ResultStationsProofs` | theorems about the two and the delivery around them | `MCResultStations`, TLAPS |
| `WireBond` | ST-03, both tasks | |
| `WireBondProofs` | theorems about `WireBond` | `WireBond`, TLAPS |
| `Simulator` | the simulator, both tasks, frame by frame | |
| `SimulatorProofs` | theorems about `Simulator` | `Simulator`, TLAPS |
| `LineDashboard` | the counts of the fold and `/validate`, fed by the simulator's ticks and a handler station | `ConsumedFold` |
| `Validation` | `validate.sh` and the simulator's control reader, at work on that line | `LineDashboard` |
| `ValidationProofs` | theorems about `LineDashboard` and `Validation` | `Validation`, TLAPS |
| `FaultLedger` | `push_fault`, pure operators | |
| `ProbeIntake` | ST-01, and its panel and faults on the dashboard | `FaultLedger` |
| `ProbeIntakeProofs` | theorems about `FaultLedger` and `ProbeIntake` | `ProbeIntake`, TLAPS |
| other `MC*` | the instances TLC checks | |

### How the modules correspond to the code

**Atomicity.** A workload runs on one thread and gives up control only at an
`await`. An action is therefore the code from one await to the next, with every
assignment it makes on the way; `pc` names the await a task is suspended at. A
send is one step: the outcomes an await may return (ok, failed, failed but
delivered, some records of it) are the disjuncts or the `\E` of that step.

**FinalTest.** `Deliver` is `records.next()` with the push and the length test;
`Begin`, `Send(t)`, `SendOffsets`, `Commit`, `CommitOk`, `CommitFails`, `Abort`
are `process_batch` and its caller's error arm in the order of the code;
`AfterErr` is where an `Err` goes, which for the trailing batch of an ended
stream is nowhere. `ReportTxn` and `ReportAbort` are the best-effort metric
transactions; the latter's `begin` fences the batch's transaction if it is still
open. The coordinator is external: `CommitApplied` makes a committing
transaction's outputs visible and moves the positions in one step, perhaps after
the process was told the commit failed; `TxnTimeout` drops one. `Open` and
`Rebalance` read the committed position only when no undecided transaction holds
offsets. `shipped` is what a `read_committed` reader has seen, by record and
topic.

**FinalTestTwin.** The same loop without transaction: `SendFails` delivers any
part of the batch, `CommitFails` applies any part of the commit. `pos` is also
the position the client has stored, which `commit([])` commits. `counted` is how
often each record was in a `consumed` metric; `unreported` remembers that a crash
or a failed send came between a batch's outputs and its metric.

**HandlerDelivery.** `Hand` hands over any run of records from the position
(the head alone after a trap), `Answered` acts on the four answers, `Trapped`
counts traps of the head and dead-letters it at the limit, `CommitPosition` lags
behind arbitrarily, `HostRestarts` goes back to it. `dlq` counts how often each
record was dead-lettered; `DlqRecords` are the records of the topic, one for each
time, as the dashboard counts them (`line-dashboard/src/lib.rs:564`).

**DieAttach.** `Handle` is the call up to the first record, with
`note_redelivery`: the instance is any of the pool's, so the cache it sees is any
entry an earlier call left, or none. `PassRecord`, `FlagRecord`, `FlagFails`,
`StopAtMalformed`, `NaivePanic` are the loop body's paths; `SendReport` sends the
metrics with the range the code names, and folds them as the dashboard would;
`Answer` is the return. `log` is any sequence of in-spec, out-of-spec and
malformed records, chosen in Init.

**Inspection.** The loop does not suspend, so `Handle` runs it whole; the verdict
of a job is any class, because the hash loop it is taken from runs until the
clock says stop. `SendResults`, `ResultsFail`, `SendMetrics`, `MetricsLost` and
`Answer` are what follows. `BatchMax` is 1, as the manifest deploys it.

**MoldCure.** The same shape: `StopsAt` is the first record that does not parse,
`Windows` groups the samples in front of it by press, `SendProfiles` publishes a
summary per press, `Verdict` is the answer (all, through o, permanent). Its
`consumed` goes through `FoldUnranged`. Means, cure curves and alarms are
arithmetic on the samples of a window, so a summary is the set of its samples.

**WireBond.** `Deliver` is a record with everything until the loop's next await:
counting, `ingest`, perhaps `close_window`, the check for a seek request and for a
flush. A malformed record suspends at its dead letter, so `DeliverMalformed` and
`DeadLettered` (or `DeadLetterFails`) are two steps. `Seek`, `SendOutputs`,
`SendMetrics` and `Commit` are the awaits that follow. `rebalance_loop` is
`AssignEvent`/`Assign` and `RevokeEvent`/`Unassign`: the windows close when the event is read, the client
lets go of the partitions when it is answered, and the record loop may run in
between. Either answer may fail (`AnswerFails`), which the loop passes over:
`granted` is what the group takes this process to own, `assigned` what the client
reads. `OpenUnanswered` is a start whose `rebalances()` fails: no
`rebalance_loop` is spawned, and either the client assigns by itself
(`ClientAssigns`, `ClientRevokes`, the fallback its WIT describes for a stream
that is not read, `package.wit:742-750`) or nobody answers the group; the source
does not tell which, so `answerer` may become either. The protocol is the
cooperative one, its default. Readings are abstracted to the verdict a window can reach (`Verdicts`):
only a healthy window sets a bonder's mean and only a bonder with a mean can
alarm. A record's timestamp is its offset. A log is one the simulator can write: it
keys the records of `wirebond.raw` by bonder
(`factory-simulator/src/lib.rs:84-95,333-335`), so all the bonds of a bonder are in
one partition (`Logs`). The safety of a replay rests on that: it seeks in the
partition its window was read from, and with a bonder in two partitions it could
jump over records nobody holds.

**Simulator.** `Control`/`CommitControl` are `control_loop`; `Wake`, `Send(t)`,
`Emit` are `tick_loop`. `Send` of the last topic runs `advance()` and, when the
tick has frames left, plans the next frame in the same step, as the code does not
suspend there. `Applied` is `apply_control` by command. A record is the line it
was made from and its stamp: epoch, overlay or loop, and count. The running
overlays are a set, since their order only shows in the heartbeat. No loop is
longer than the baseline, which fills in the topics it omits (`CatalogAssumption`),
as in the repository, where loops have 60 frames: so `lines()` never wraps and a
pass has no line twice.

**LineDashboard.** `Fold(f)` is `handle` on the next record of a partition;
`Refeed` hands the same instance records again, `Takeover` replaces the instance.
The producers are what the dashboard can tell of them. The simulator looks at
`running` once a tick (`SimTicks`), sends the tick's records (`SimProduces`) and
reports them at its end (`SimReports`); `SimRestarts` turns the loop on and
forgets what was not reported. `StationRewinds` repeats reports, cut
differently, and dead letters.

**Validation.** `Pause` reads the dashboard's last heartbeat (any value: it may be
old or missing) and queues the stop, whose failure is ignored. `ReadLag` reads
one group's lag, the groups one after the other, while the line goes on; a group
without a member reads as behind. `RoundEnds` is `$drained && break` or the next
of the rounds, `Resume` the verdict with the start, `Die` the exits at 127 and of
a start that cannot be produced. `Act` and `CommitControl` are the control loop's
two halves (the record is applied, then its offset committed). `Restart` reads on
from the committed offset with the loop on. A run without the script (`absent`)
explores more rewinds than one with it.

**ProbeIntake.** An upload is a task; its awaits are `send_batch`, `emit` and the
answer. `Accept` is everything up to the first. `SendLot` draws how many records
reached the topic and how many of these were acked; `EmitFails` loses any of the
metrics, so that of a lot's two at most one is left. The dashboard folds them with `FoldIntake` and `PushFault`. The reading
of the body happens before any state changes and is part of `Accept`.

**Left out of the modelled components**, because nothing reads it back:
heartbeats, latencies and process-capability figures, the wording of reasons,
tracing, the part of `Model` that is only displayed, and the unit sets of the two
ledgers (set insertion and a counter; a ledger batch handed again to a warm
instance shows as duplicates the stations never shipped).

## 3. Runs

TLC, two workers. States are distinct states of a run that finds no error.

| Run | Question | Instance | States, time | Properties |
|---|---|---|---|---|
| `final_test` | is ST-06 exactly once, and what is left when a rebalance hits a batch? | 2 partitions x 3 records, one malformed, batches of 2, 3 failures | 366 526, 25 s | `Inv`, `ExactlyOnceUntilRewind`, `TopicsAgree`, `LedgerSpec`, `BacklogDrains` |
| `final_test_rebalance` | is it exactly once without that reservation? (no) | the same, 1 failure | | `ExactlyOnce` |
| `twin` | what does the twin keep, and does its sum come out? | 2 x 5 records, batches of 2, commit each second batch, 2 failures | 2 343 134, 2 min | `Inv`, `AtLeastOnceSpec`, `MovesFollow`, `ReplayWindow`, `Accounted`, `BacklogDrains` |
| `die_attach` | do the four answers and the trap path skip, repeat or stall anything, and is the count right? | every log of 3 records, both builds, batches of up to 3, 4 traps, 1 failure | 739 499, 33 s | `Inv`, `AtLeastOnceSpec`, `HealthyNeverDeadLettered`, `PartialRepeatsNothing`, `Accounting`, `Drains` |
| `die_attach_balance` | does `make validate` balance with a malformed record? (no) | the same, no failure | | `Balanced` |
| `result_stations` | do ST-04 and ST-05 answer every record, once, and balance? | every log of 3 records, ST-04 one a call, ST-05 up to 3, 2 presses, 3 traps, 3 failures | 724 153, 14 s | `MCInv`, `ResultsAtLeastOnce`, `ResultsOnce`, `ResultsBalanced` |
| `wire_bond` | do the two tasks lose, loop or miscount records? | every log of 4 records, 2 bonders, windows of 1, replays of 2, flush at 2, 2 failures or revocations | 1 365 038, 75 s | `Inv`, `NothingVanishes`, `ReplayCannotLoop`, `CountsOnce`, `Drains` |
| `wire_bond_crash` | does a crash replay what was not acknowledged? (no) | 3 records, 1 failure | | `CrashReplays` |
| `simulator` | ids, order, overlays and counts under controls at any moment | 2 loops, 2 overlays of 1 and 2 frames, 2 topics, 2 controls, 5 frames, 1 failure | 701 354, 27 s | `Inv`, `UniqueIds`, `PassHoldsOneLoop`, `ProducedExact`, `FramesInOrder`, `OverlayPlaysWhole` |
| `simulator_one_shot` | is every accepted overlay played? (no) | 1 control, 4 frames, no failure | | `OneShotPlays` |
| `line` | do the counts stay exact, does a whole fold of a drained line balance, and does the script's pause hold and end? | 2 records, any of them malformed, ranged or not, 2 a tick, 2 drain rounds, 3 rewinds without the script, 1 with it | 2 626 583, 2.5 min | `Inv`, `ConsumedExact`, `VerdictSound`, `StopHolds`, `Resumes` |
| `probe_intake` | does ST-01's panel say what its responses said, and is a fault one row a minute? | 2 uploads of 2 wafers, clock to 3, fault window 2, every fault pruned when old, 2 rows kept, 2 failures | 5 072 720, 1.5 min | `Inv`, `PanelExact`, `RowsApart` |

Deadlock is not checked: each model stops where the system waits (a log read out,
no more controls or uploads, the bound on frames).

**Why the bounds are enough.** Two partitions of unequal progress are what
`commit_positions` and partial commits are about, and where partitions share
nothing (handlers, one call at a time each) one suffices. A log one record longer
than a batch gives a full batch, a rest, and a batch that spans what an earlier
one committed. Logs are quantified over, so a malformed record is first, in the
middle and last. A second failure is what a failure of the recovery needs (a
crash after a lost commit answer, a revocation after a seek), and a third an
abort that fails besides. `die_attach` has one failure of the environment; the
naive build's traps come on top and are not counted. (With two, its safety
invariants hold over the 7.1 million states there are; `Drains` takes too long
there.) Two controls are what a race of two commands needs;
five frames are more than two passes of a loop of two. One window length and a
replay of two reach back over a closed window into a committed one. A stop and a
start are all the controls `validate.sh` sends, and two rounds are one that fails and a last one; the dashboard's slack of 1 stands for
the markers it may not have read. Two uploads overlap in every order; a fault
memory of no more than what is in the window makes every pruning happen. The
faults are capped by `MaxFaults` (or `MaxRewinds`, `ScriptRewinds`), controls by
`MaxControls`, frames by `MaxFrames`, the clock by `MaxClock`: these and the
length of the log (`LogLen`, `InputLen`) are the only bounds, and each is named
in its module. The uploads are symmetric, and no liveness is checked there.

**Fairness.** A process that runs is scheduled, a service that exits is
restarted (the manifests' supervisor), the coordinator decides every transaction
(`transaction.timeout.ms`), the host keeps calling a handler and committing:
weak fairness of these. Nothing is assumed of failures, rebalances, operators or
of which partition is read next. `BacklogDrains`, `Drains` then say that no
sequence of failures leaves a station wedged, with one exception that the code
makes: ST-03 keeps running after a failed answer to the group, or without anybody
to answer it, and `Drains` of `WireBond` is about partitions that do not end
`Stranded` by that. ST-06 has no batch timer, so up to
`BatchSize - 1` records may rest in its memory: that is what its property claims.
In `WireBond` revocations count as failures, so they end, and no later one repairs
a stranded partition. `Resumes` assumes
that bash runs on to its end and that the control reader reads; of the line and
the dashboard it asks nothing, for the drain loop is bounded.

## 4. Proofs

Eight modules hold theorems. Each proves an inductive invariant `Inv`
(`Invariance`: `Spec => []Inv`; `StationInvariance` of `MCInv` for ST-04 and
ST-05), which the runs check too, and derives the properties from it. They hold
for every number of partitions, length and content of logs, batch size, commit
interval, scenario catalog, and number of uploads, failures, controls, rewinds or
frames: the bounds of the runs are constants here, about which only the named
assumptions are made. Lengths and bounds on failures are natural numbers;
`BATCH_SIZE` and `COMMIT_EVERY` are between 1 and 100, as the code clamps what it
reads from the environment; a host's batch and trap limit are positive; ST-03's
bonders and partitions, the twin's partitions and ST-01's uploads are finite sets,
and a lot has 1 to 200 wafers, as `validate` demands; a replay is no shorter than a
window; a press is neither of the two marks for a record without one
(`PressAssumption`); the fault window is no longer than a fault is remembered; the
simulator's catalog has a baseline that covers every topic, at least one frame a
scenario, and rates from 1 to 60, as `apply_control` clamps them.

**ST-06.** `Inv == TypeOK /\ TxnInv /\ ReportInv /\ TopicsAgree /\ OnceInv /\
LossInv` is inductive (`Invariance`). None of the properties is so alone:

- `TxnInv` ties the transaction's phase to the place in `process_batch`: what was
  sent so far, that the offsets are in it exactly at the commit, that a
  transaction being committed holds all topics and the offsets, whoever is still
  there to hear of it. It is why a commit applied after the answer was lost, or
  after the process died, is still all or nothing.
- `OnceInv` says, until a rewind, that the batch in hand (and the batch of an
  undecided commit) holds each record from the committed position up to the
  stream's exactly once, so that applying it extends `ExactlyOnce`.
- `LossInv` is the weaker fact that survives rewinds: a batch is closed under
  "earlier record of the partition, not shipped yet", so that moving the
  position past its last record loses nothing.
- `ReportInv` counts a commit that is known but not reported yet.

From it follow `ExactlyOnceTheorem`, `NothingLostTheorem`, `TopicsAgreeTheorem`,
`ReportedCommittedTheorem`, and `ImplementsLedger`: `Spec => LedgerSpec`, every
step of the station, the coordinator or the environment being a step of
`TransactionalLedger` or a stutter. `ShipsWithOffsetsTheorem` states an action
property that this implies: until a rewind no output becomes visible unless a
position moves.

**The twin.** `Inv == TypeOK /\ LoopInv /\ MovesInv /\ LossInv /\ WindowInv /\
CountInv /\ CoverInv`.
`LossInv` says which topics the batch has reached at each `pc`; `MovesInv` keeps
the margin by which dispositions lead while the moves are being sent;
`WindowInv` bounds the stream's position, and any record ever shipped or in
hand, by the committed position plus `CommitEvery * BatchSize`, whence
`ReplayWindowTheorem` needs only the cardinality of an interval. `CountInv` says
that a unit is never counted more often than it was shipped, and exactly as often
when no batch was left between outputs and metric: it is `Accounted` per record.
For the sum (`AccountedTheorem`) the metrics' entries and the ledger's repeats are
sets of pairs (`Counts`, `Again`), so that their difference is the set of records
counted at all; and `CoverInv` adds that a record behind the position is in a
metric or in hand, and that no more records are in hand than `held`.
`ImplementsAtLeastOnce` is `Spec => AtLeastOnceSpec`: settled records stay settled
(`SettledGrows`), only a commit moves the committed position, and `LossInv` says
that what it moves past is settled.

**The fold of `consumed`.** The dashboard adds the share of a report's count that its
range has above the high-water mark, rounded down (`Share`, `WholeShare`).
`FoldNeverAhead`: however ranges overlap, a report of no more records than its
range holds takes the sum at most to the mark. `FoldWhole`: a report of its whole
range adds exactly the offsets above the mark and counts the rest as redelivered;
`FoldFresh` is what of that the dashboard's invariants need. The two modules that
use these lemmas prove them for themselves.

**ST-02 and the host.** `Inv == TypeOK /\ CallInv /\ SettledInv /\ HeadInv /\ OnceInv /\
CountInv`.

- `CallInv` places the handler in its batch, and says what each of the four
  answers claims of the place it stopped at.
- `SettledInv` is `AtLeastOnceSpec`'s invariant taken into the call: everything
  before `work.at` is settled, so that an answer may move the position there.
  `ImplementsAtLeastOnce` follows, each step being a step of `AtLeastOnce` or a
  stutter.
- `HeadInv` bounds the traps counted against a head that parses by the failures
  plus one: the naive build's panic over a later record is charged to the head
  once, and then the head is alone. Hence `HealthyNeverDeadLettered`: it takes at
  least `TrapLimit - 1` lost instances.
- `OnceInv` says, without failures and in the robust build, that nothing beyond
  the place of the call was flagged or dead-lettered (`PartialRepeatsNothing`).
- `CountInv` ties the dashboard's consumed to its high-water mark: never past it
  in any case, equal to it on a partition whose reports were exact, and, in a
  run without failures, at the position (`Accounting`, by the fold's lemmas).

**ST-04 and ST-05.** The invariant of either is `TypeOK` and, for each partition,
`CallAt /\ SettledAt /\ OnceAt /\ CountAt`; `MCInv` is that of the station the
behaviour is about. They share the host: what each of its steps (`Hand`,
`Answered`, `Trapped`, `CommitPosition`, `HostRestarts`) does to the partition it is
about, and that it leaves the others alone, are lemmas of their own
(`ResultStationsProofs` begins with them).

- `CallAt` is where the handler stopped in its batch: at the end, or at the first
  record that does not parse.
- `SettledAt` is the at-least-once invariant taken into the call: everything below
  the place whose results were acked is settled. `ResultsAtLeastOnceTheorem`
  (`MCSpec => ResultsAtLeastOnce`) follows, step by step.
- `OnceAt` says, without failures, that nothing from that place on has a result, so
  that `SendProfiles` and `SendResults` publish what was not published before
  (`ResultsOnceTheorem`), and that no record is dead-lettered twice.
- `CountAt` differs. ST-05's count names no range, so it is held against the records
  in front of the position that were not dead-lettered: equal without failures, and
  no less unless a metric was lost. ST-04's is ranged: what was counted is the jobs
  up to the high-water mark, and no job reported lies above it. That needs batches
  of one, as ST-04 is deployed (`I == INSTANCE Inspection WITH BatchMax <- 1`); with
  longer ones it has the fault of ST-02 (section 5). Both give
  `ResultsBalancedTheorem`. It counts the records of the dead-letter topic, which
  are a set of pairs: they are as many as the records dead-lettered exactly when
  none was dead-lettered twice (`DeadLetterCount`, by an injection of the one set
  into the other). So ST-04's sum is exact until a dead letter is repeated and runs
  over from then on, through failed sends, traps and restarts; ST-05's is exact
  without failures; neither falls short unless a metric was lost.

**ST-03.** `Inv == TypeOK /\ LoopInv /\ WindowInv /\ ReplayInv /\ NothingVanishes /\
Passed \subseteq Held /\ CountInv`.

- `Passed` are the records below anything the loops may yet move a position to:
  what the stream handed out, what is committed, the start of an open window, a
  requested seek. `Held` are those in an output, in memory, lost with a process,
  or (malformed) on the DLQ or on their way to it. `NothingVanishes` looks at the
  committed positions only; a commit publishes the stream's position and a seek
  comes from a window's start, so it needs all of `Passed` to be `Held`.
- `WindowInv` is where the keying by bonder enters. `ReplayInv` adds a bonder's
  replays done, asked for and under way and compares them with its mark in
  `replayed` (`ReplayCannotLoop`).
- `CountInv` compares what was counted, in flight or folded, with the records
  passed: bonds exactly through the state's high-water marks, the rest at least
  once (`CountsOnce`). A malformed record in flight to the DLQ is the one that is
  passed and not counted. Its last part is about runs without a failure, where the
  client reads what the group granted (`assigned \subseteq granted`): so no
  partition is assigned twice, which would hand its records out again.

**The simulator.** `Inv == TypeOK /\ UniqueIds /\ ProducedExact /\ StampInv /\
SourceInv /\ FrameInv /\ OwedInv`.

- `UniqueIds` is about what was sent; `StampInv` says why it stays so: every record
  sent or planned is `Behind` the State, by its epoch, its pass or overlay count,
  or its frame, so that no frame yet to be played can stamp it again. A control
  only moves the State on; `advance()` leaves the frame it ends behind.
- `SourceInv` says that the records of the running pass fit its scenario and that
  none has the number of a later pass, whence `PassHoldsOneLoop`.
- `FrameInv` says that the frame to play follows one that was planned (or frame 0
  of a pass begun in mid-frame), and `OwedInv` what an overlay owes exactly: its
  frames from the next on. `FramesInOrder` and `OverlayPlaysWhole` follow.

**The line, the dashboard and the script.** `Inv == LineInv /\ ScriptTypeOK /\
StopInv`, `LineInv == TypeOK /\ ReportsInv /\ FoldInv /\ UnseenInv /\ SumsInv`.

- `ReportsInv` says that the station's reports cover, in order and without a gap,
  every record it did not dead-letter below its position. `FoldInv` keeps
  `ConsumedExact` through refeeds and takeovers: every report read is at or below
  the mark.
- `SumsInv` says what the metrics of a partition add up to, as long as nothing
  blurred them. The sum is a witness (a function of partial sums), since the
  prover cannot unfold a recursive one. With `UnseenInv` it gives `VerdictSound`: a
  drained line with a whole fold balances.
- `StopInv` orders the stop in `sim.control` against what the control reader did and
  committed: the group's lag is in its limit only after the loop was turned off
  (`StopHolds`).

**ST-01 and its panel.** `Inv == TypeOK /\ PostInv /\ LandedInv /\ IntakeInv /\
LedgerInv`.

- `PostInv` says what an upload's metrics say while it holds them: its own figures,
  one metric of a kind, and all that are due. `LandedInv` is that no more wafers are
  acked than are on `probe.lots`.
- `IntakeInv` gives every metric of the feed the upload it came from (a witness:
  the feed does not name it). Two metrics of a kind have two uploads, each upload
  has reported (an upload's figures are fixed from then on), and of an upload whose
  metrics all landed each is in the feed. The panel then is a count of uploads: the
  wafers it shows are those of the uploads whose `produced` was folded since this
  instance joined, each once (`PanelInv`). A sum over records would be a fold, which
  the prover cannot unfold; the wafers of a set of uploads are a set of pairs, whose
  cardinality grows by an upload's figure when it is added (`UploadAdded`).
- `PanelExactTheorem` is an inclusion of sets of uploads after that: those sure to
  be in the panel, those that are, those that may be (`SettledSeen`).
- `LedgerInv` says why pruning does no harm: a row's fault is remembered with a
  stamp no earlier than the row's, or was forgotten because a metric already read is
  stamped `SeenFor` or more after the row, so that the next row of that fault is a
  window later anyhow (`FaultWindow <= SeenFor`: 60 s and 600 s in the code). It is inductive only over metrics folded once and in the order of
  their stamps, which is what `RowsApart` asks (`PushBefore`, `LedgerBefore`).

**Model-checked only.** Liveness (`BacklogDrains` of ST-06 and of the twin, `Drains`
of ST-02 and ST-03, `Resumes`): fairness is outside the prover's reach. Every
invariant, action property and refinement the runs check is proved. No module has
a RECURSIVE operator.

## 5. Where the code and its text disagree

1. **A rebalance ships units twice** (`final_test_rebalance`;
   `st06-final-test/src/lib.rs:231`). The loop never reads `rebalances()`. After
   one the stream restarts at the committed position with the batch still full,
   the batch gets the records a second time and one transaction ships both.
   The header (8-10) excludes that a replayed batch ships a unit twice.
   `replicas: 1` makes rebalances rare, not impossible (a missed poll or
   heartbeat suffices). The transaction itself stays atomic, which is what
   `TopicsAgree` and `NothingLost` show without reservation.
2. **One malformed record unbalances ST-02's count** (`die_attach_balance`;
   `st02-die-attach/src/lib.rs:290`). The `consumed` metric names the range of
   the whole batch though the loop stopped inside it; the dashboard takes the
   rest for redelivered when it comes. With a malformed record that is neither
   first nor last of its batch, produced == consumed + dlq fails, which
   `PLAN.md:378-379` says must pass. `AccountingExact` shows the count exact
   where nothing is malformed and no flag or report failed.
3. **A one-frame overlay may never play** (`simulator_one_shot`;
   `factory-simulator/src/lib.rs:425`). An overlay accepted between two sends of
   a frame is advanced at the end of that frame without having been planned.
   `poison` has one frame. `OverlayPlaysWhole` and `FramesInOrder` show this to
   be the only case, for overlays and for loops.
4. **A crash loses bonds of open windows** (`wire_bond_crash`;
   `st03-wire-bond/src/lib.rs:265`). `commit([])` commits what the stream has
   handed out, open windows included. `NothingVanishes` shows that a dead process
   is the only way a bond is lost.

Smaller observations, not runs of their own; each is either a reservation stated
in a property or left out of a model as said there:

- ST-04's verdict is not "a pure function of the job"
  (`st04-inspection/src/lib.rs:98-100`): the loop of line 112 ends by the clock, so
  a repeated call may publish a second, different verdict. `OneVerdict` is
  therefore about runs without failures.
- ST-05's `consumed` names no offset range, so every repeated call counts its
  samples again and `produced == consumed + dlq` fails after one.
- A host that restarts after it wrote a dead letter and before the position behind
  it is committed writes it again. The dashboard adds 1 for each record of a
  dead-letter topic (`line-dashboard/src/lib.rs:564`), so `produced == consumed +
  dlq` (`validate.sh:169`) fails for ST-02, ST-04 and ST-05. In ST-04 it is the
  only thing that puts the sum off, short of a lost metric or a job given up:
  `ResultsBalanced` says so.
- ST-03 goes on after a failed `incremental_assign` or `incremental_unassign`
  (`st03-wire-bond/src/lib.rs:339-357`: a metric with `"applied": false`) and after
  a failed `rebalances()` (377), though its header (20-22) says that "any session
  failure exits the service so the supervisor restarts it". The partition then
  stays unread, without an error, until another rebalance or a restart.
- ST-03's comment that on a revocation "nothing is left in a window the partition no
  longer owns" (308-309) is not literally so: records handed out between the
  revocation and its answer open new windows on the partition. They stay open, and
  in this process's memory, until the partition comes back and a later bond, or
  another revocation, closes them; `NothingVanishes` allows for that.
- The twin's sum in `validate.sh:165` is off after a crash or a failed send between
  a batch's outputs and its metric, and when a record that does not parse is
  replayed, since it counts again and has no output that shows as a duplicate.
- ST-03 counts a malformed record both as consumed and as dead-lettered
  (408-409), against the equation of `validate.sh:156-158`; a replay counts it, and
  a tombstone, again. `CountsOnce` is exact about bonds only.
- ST-03 has one `seek_request` (203): of several alarms closed by one
  revocation only the last is replayed, and all are marked replayed.
- ST-06 sends no `txn` record for the trailing batch of an ended stream; the
  comment at 163 is true in one direction only, which is `ReportedCommitted`.
- A loop asked for in mid-frame is advanced once before it plays: frame 0 of that
  pass is skipped. `stop` takes effect at the next tick, up to 60 frames later:
  the sleep of `validate.sh:126` is all that covers the records of that tick.
- `validate.sh` dies at line 127 when `/validate` does not answer, with the loop
  stopped, though its header (10-12) says the loop is resumed unless
  `--keep-stopped` is given. `was_running` comes from a heartbeat that may be old
  or missing; a failed stop is ignored (64); a resumed loop is always the
  baseline, whatever was playing.
- A simulator restarted during validation runs its loop, on purpose
  (`factory-simulator/src/lib.rs:466-468`): `StopHolds` leaves that out.
- The simulator's epoch is 16 random bits; the model takes epochs to differ.
- `fold.complete` judges only partitions it has seen, and only of `line.metrics`:
  `Whole` in `LineDashboard` is what it leaves out.
- ST-01 answers 200, and the panel counts a lot, when every wafer of it failed; a
  503 whose records landed is uploaded again as new records; `/produce-batch`
  reports nothing, so its records show in no count.
- The fault ledger shows a fault twice within 60 s when metrics are folded again
  or in another order than they were stamped (overlapping uploads). A fault that
  keeps coming refreshes its mark, so once its row is pushed out by others it does
  not come back until it has been silent for a minute.

## 6. Not modelled, and why

- **The dashboard's display**: rings, latency samples, instances, details, and the
  ledgers' unit sets (see section 2). `rpk`'s own duplicate count in `validate.sh`
  is that set again, read from the topic; the lag record it publishes is only
  displayed.
- **The HTTP surface**: `/api/state` and `/validate` only read; the page polls.
- **Rebalances between hosts** for handler stations: the demo runs on one.
- **Dashboard page, WIT text, data generator, scripts, manifests, CI**: rendering,
  contracts, static data, sequential administration and configuration, without
  behaviour of their own. Their values (batch sizes, isolation level, no
  auto-commit, pool limits) are constants or assumptions of the models.

## 7. Plan

Modelled: every workload, the dashboard's counts and fault ledger, and
`validate.sh`. Left to model, where it would pay:

1. `DieAttach` with two partitions sharing instances of the pool.
2. `Simulator` under `Validation`, in place of the ticks of `LineDashboard`, for
   the loop that plays on in an overlay.

Nothing that the runs check is left to prove but liveness. What is worth
proving next are the statements that would follow from the models above: that a
`DieAttach` without malformed records balances in any number of partitions
sharing instances, and that the simulator's ticks as `LineDashboard` has them are
implemented by `Simulator`.
