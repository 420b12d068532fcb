--------------------------- MODULE LineDashboard ---------------------------
(***************************************************************************)
(* The line dashboard (workloads/line-dashboard): one warm instance folds  *)
(* line.metrics and the dead-letter topics into a Model in memory, and     *)
(* /validate compares what was produced with what was consumed and         *)
(* dead-lettered.                                                          *)
(*                                                                         *)
(* Around it, what the fold is about: one input topic the simulator fills  *)
(* tick by tick, and one handler station that reports what it handles.     *)
(* The two write their metrics to partitions of their own (key = station). *)
(***************************************************************************)
EXTENDS ConsumedFold, Sequences, FiniteSets

CONSTANTS InputLen,        \* bound: records the simulator produces
          Rate,            \* records a tick of the simulator sends
          MaxRewinds       \* bound: rewinds, restarts and takeovers of all kinds

ASSUME DashboardAssumption == {InputLen, MaxRewinds} \subseteq Nat /\ Rate \in 1 .. 60

Inputs == 0 .. InputLen - 1
MetricsOf == {"metrics/sim", "metrics/station"}
Feeds == MetricsOf \cup {"dlq"}               \* the partitions the host reads

VARIABLES
  malformed,   \* input records the station dead-letters; never changes
  ranged,      \* the station's `consumed` names its offset range (st02, st04,
               \* not st05)
  running,     \* the simulator's loop is on
  tick,        \* records its tick has yet to send
  unreported,  \* records of the tick acked so far, to be reported at its end
  produced,    \* records on the input topic
  position,    \* of the station
  feed,        \* the records of each partition the dashboard reads
  read,        \* the dashboard's position in each
  saved,       \* its committed positions
  model,       \* the instance's memory
  rewinds,     \* rewinds and takeovers so far
  blurred,     \* history: a dead letter or an unranged report was repeated, or
               \* the simulator restarted with records it had not reported
  refed        \* history: partitions handed again to the same instance

sim == <<running, tick, unreported, produced>>
line == <<malformed, ranged, sim, position, feed>>
vars == <<line, read, saved, model, rewinds, blurred, refed>>

Unseen == -1

\* Model::default(): what this model keeps of it.
Fresh == [firstOffset |-> [f \in Feeds |-> Unseen], simProduced |-> 0,
          station |-> NothingFolded, dlq |-> 0]

TypeOK ==
  /\ malformed \subseteq Inputs /\ ranged \in BOOLEAN
  /\ running \in BOOLEAN /\ tick \in 0 .. Rate /\ unreported \in 0 .. Rate - tick
  /\ produced \in 0 .. InputLen /\ position \in 0 .. produced
  /\ DOMAIN feed = Feeds
  /\ feed["metrics/sim"] \in Seq([n : Nat])
  /\ feed["metrics/station"] \in Seq([n : Nat, first : Inputs, last : Inputs])
  /\ feed["dlq"] \in Seq(Inputs)
  /\ {read, saved} \subseteq [Feeds -> Nat]
  /\ \A f \in Feeds : saved[f] <= Len(feed[f]) /\ read[f] <= Len(feed[f])
  /\ model \in [firstOffset : [Feeds -> {Unseen} \cup Nat], simProduced : Nat, dlq : Nat,
                station : [hw : -1 .. InputLen - 1, consumed : Nat, redelivered : Nat]]
  /\ rewinds \in 0 .. MaxRewinds /\ blurred \in BOOLEAN /\ refed \subseteq Feeds

Init ==
  /\ malformed \in SUBSET Inputs
  /\ ranged \in BOOLEAN
  /\ running = TRUE /\ tick = 0 /\ unreported = 0
  /\ produced = 0 /\ position = 0
  /\ feed = [f \in Feeds |-> <<>>]
  /\ read = [f \in Feeds |-> 0]
  /\ saved = [f \in Feeds |-> 0]
  /\ model = Fresh
  /\ rewinds = 0 /\ blurred = FALSE /\ refed = {}

Rewound == rewinds < MaxRewinds /\ rewinds' = rewinds + 1
Emit(f, r) == feed' = [feed EXCEPT ![f] = Append(@, r)]

(***************************************************************************)
(* The line.                                                               *)
(***************************************************************************)

observers == <<read, saved, model, refed>>

\* A second has passed: the tick looks at running once, and not again.
SimTicks ==
  /\ running /\ tick = 0 /\ unreported = 0
  /\ produced < InputLen
  /\ tick' = Rate
  /\ UNCHANGED <<malformed, ranged, running, unreported, produced, position, feed, observers,
                 rewinds, blurred>>

SimProduces ==
  /\ tick > 0 /\ produced < InputLen
  /\ tick' = tick - 1
  /\ produced' = produced + 1
  /\ unreported' = unreported + 1
  /\ UNCHANGED <<malformed, ranged, running, position, feed, observers, rewinds, blurred>>

\* emit_metrics(), once the tick has sent its frames (or the bound is reached).
SimReports ==
  /\ unreported > 0 /\ (tick = 0 \/ produced = InputLen)
  /\ Emit("metrics/sim", [n |-> unreported])
  /\ tick' = 0 /\ unreported' = 0
  /\ UNCHANGED <<malformed, ranged, running, produced, position, observers, rewinds, blurred>>

\* The component starts again: its loop is on, and what it had not reported
\* never will be.
SimRestarts ==
  /\ Rewound
  /\ running' = TRUE /\ tick' = 0 /\ unreported' = 0
  /\ blurred' = (blurred \/ unreported > 0)
  /\ UNCHANGED <<malformed, ranged, produced, position, feed, observers>>

\* A batch in front of the next malformed record is handled and reported.
StationHandles ==
  /\ \E last \in position .. produced - 1 :
       /\ position .. last \cap malformed = {}
       /\ Emit("metrics/station", [n |-> last - position + 1, first |-> position, last |-> last])
       /\ position' = last + 1
  /\ UNCHANGED <<malformed, ranged, sim, observers, rewinds, blurred>>

\* A malformed head record goes to the dead-letter topic.
StationDeadLetters ==
  /\ position < produced /\ position \in malformed
  /\ Emit("dlq", position)
  /\ position' = position + 1
  /\ UNCHANGED <<malformed, ranged, sim, observers, rewinds, blurred>>

\* The station is handed again what it has reported: a trap, a failed send
\* after the report, a restart.
StationRewinds ==
  /\ Rewound
  /\ \E o \in 0 .. position - 1 :
       /\ position' = o
       /\ blurred' = (blurred \/ ~ranged \/ o .. position - 1 \cap malformed # {})
  /\ UNCHANGED <<malformed, ranged, sim, feed, observers>>

(***************************************************************************)
(* The dashboard.  handle() never suspends, so a record's fold is a step.  *)
(***************************************************************************)

\* first_offset.entry(key).or_insert(offset)
Noted(m, f, o) == IF m.firstOffset[f] = Unseen THEN [m EXCEPT !.firstOffset[f] = o] ELSE m

FoldProduced(m, r) == [m EXCEPT !.simProduced = @ + r.n]

\* fold_metric, "consumed": by range when the metric has one.
FoldStation(m, r) ==
  IF ranged THEN [m EXCEPT !.station = FoldConsumed(@, r.n, r.first, r.last)]
  ELSE [m EXCEPT !.station = FoldUnranged(@, r.n)]

FoldDeadLetter(m) == [m EXCEPT !.dlq = @ + 1]

Folded(m, f, r) ==
  CASE f = "metrics/sim"     -> FoldProduced(m, r)
    [] f = "metrics/station" -> FoldStation(m, r)
    [] f = "dlq"             -> FoldDeadLetter(m)

\* Handler::handle on the next record; it always answers Ok(None).
Fold(f) ==
  /\ read[f] < Len(feed[f])
  /\ model' = Folded(Noted(model, f, read[f]), f, feed[f][read[f] + 1])
  /\ read' = [read EXCEPT ![f] = @ + 1]
  /\ UNCHANGED <<line, saved, rewinds, blurred, refed>>

Save(f) ==
  /\ saved[f] # read[f]
  /\ saved' = [saved EXCEPT ![f] = read[f]]
  /\ UNCHANGED <<line, read, model, rewinds, blurred, refed>>

\* The host's consumer starts over and hands the same instance records again.
Refeed(f) ==
  /\ Rewound
  /\ saved[f] < read[f]
  /\ read' = [read EXCEPT ![f] = saved[f]]
  /\ refed' = refed \cup {f}
  /\ UNCHANGED <<line, saved, model, blurred>>

\* The instance is replaced: an empty Model, from the committed positions.
Takeover ==
  /\ Rewound
  /\ model' = Fresh
  /\ read' = saved
  /\ refed' = {}
  /\ UNCHANGED <<line, saved, blurred>>

LineNext ==
  \/ SimTicks \/ SimProduces \/ SimReports
  \/ StationHandles \/ StationDeadLetters \/ StationRewinds
  \/ \E f \in Feeds : Fold(f) \/ Save(f) \/ Refeed(f)
  \/ Takeover

(***************************************************************************)
(* Properties.                                                             *)
(***************************************************************************)

Healthy(hw) == Cardinality((0 .. hw) \ malformed)

\* "Exact, and independent of which station instance reported" (lib.rs:168-172):
\* through repeated reports and metrics handed again, a record of a station that
\* names its ranges is never consumed twice; and none is missed, once the
\* station's metrics were folded from the first.
ConsumedExact ==
  ranged =>
    /\ model.station.consumed <= Healthy(model.station.hw)
    /\ model.firstOffset["metrics/station"] = 0 =>
         model.station.consumed = Healthy(model.station.hw)

CompleteAnyFeed(m) ==          \* mutant: one partition seen from 0 will do
  \E f \in MetricsOf : m.firstOffset[f] <= 0

\* fold.complete: no partition of line.metrics was joined in the middle.
Complete(m) == \A f \in MetricsOf : m.firstOffset[f] <= 0

Drained ==
  /\ produced > 0 /\ position = produced /\ unreported = 0
  /\ \A f \in Feeds : read[f] = Len(feed[f])

\* What fold.complete leaves out: a partition of line.metrics not seen at all,
\* and dead letters joined in the middle.
Whole ==
  /\ \A f \in MetricsOf : feed[f] # <<>> => model.firstOffset[f] # Unseen
  /\ feed["dlq"] # <<>> => model.firstOffset["dlq"] = 0

\* What validate.sh passes a station for, when the fold is complete (169).
Balances(m) == m.simProduced = m.station.consumed + m.dlq

\* produced == consumed + dlq (validate.sh:2) for a line that lost nothing: once
\* it is drained and the fold complete, takeovers included.  It need not hold
\* when the fold calls itself complete and is not whole, when an instance was
\* handed again what only a range would tell it has folded, or when the counts
\* themselves are blurred.
VerdictSound ==
  /\ Drained /\ Complete(model) /\ Whole /\ ~blurred
  /\ refed \cap {"metrics/sim", "dlq"} = {}
  /\ ranged \/ "metrics/station" \notin refed
  => Balances(model)

(***************************************************************************)
(* The inductive invariant: what the reports on the feeds cover, what the  *)
(* model has made of those it has read, and what the sums come to as long  *)
(* as nothing blurred them.                                                *)
(***************************************************************************)

Reports == feed["metrics/station"]

\* Every record before o that the station does not dead-letter lies in or below
\* one of the first k reports.
Reached(o, k) ==
  \A h \in (0 .. o - 1) \ malformed : \E j \in 1 .. k : h <= Reports[j].last

ReportsInv ==
  /\ \A i \in 1 .. Len(Reports) :
       /\ Reports[i].first <= Reports[i].last /\ Reports[i].last < produced
       /\ Reports[i].n = Reports[i].last - Reports[i].first + 1
       /\ Reports[i].first .. Reports[i].last \cap malformed = {}
       /\ Reached(Reports[i].first, i - 1)
  /\ Reached(position, Len(Reports))

FoldInv ==
  /\ model.station.hw < produced
  /\ ConsumedExact
  /\ ranged /\ model.firstOffset["metrics/station"] = 0 =>
       \A j \in 1 .. read["metrics/station"] : Reports[j].last <= model.station.hw

UnseenInv ==
  /\ \A f \in Feeds : model.firstOffset[f] < Len(feed[f])
  /\ model.firstOffset["metrics/sim"] = Unseen     => model.simProduced = 0
  /\ model.firstOffset["metrics/station"] = Unseen => model.station = NothingFolded
  /\ model.firstOffset["dlq"] = Unseen             => model.dlq = 0

\* What the metrics of f add up to, after each of them.
Sums(f) ==
  {g \in [0 .. Len(feed[f]) -> 0 .. InputLen] :
     g[0] = 0 /\ \A i \in 1 .. Len(feed[f]) : g[i] = g[i - 1] + feed[f][i].n}

\* The metrics of f come to total, and what the model has read of them to count.
AddsUp(f, total, count) ==
  \E g \in Sums(f) :
    /\ g[Len(feed[f])] = total
    /\ model.firstOffset[f] = 0 /\ f \notin refed => count = g[read[f]]

SumsInv ==
  /\ ~blurred =>
       /\ AddsUp("metrics/sim", produced - unreported, model.simProduced)
       /\ ~ranged => AddsUp("metrics/station", Healthy(position - 1), model.station.consumed)
       /\ Len(feed["dlq"]) = Cardinality(0 .. position - 1 \cap malformed)
  /\ model.firstOffset["dlq"] = 0 /\ "dlq" \notin refed => model.dlq = read["dlq"]

LineInv == TypeOK /\ ReportsInv /\ FoldInv /\ UnseenInv /\ SumsInv
=============================================================================
