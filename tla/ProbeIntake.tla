----------------------------- MODULE ProbeIntake -----------------------------
(***************************************************************************)
(* ST-01 (workloads/st01-probe-intake): every POST is a task of its own.   *)
(* A lot is put on probe.lots with one send_batch, what came of it goes to *)
(* line.metrics as best it can, and only then is the upload answered.      *)
(* Beside it, what line-dashboard folds of these metrics: ST-01's panel    *)
(* and the fault ledger.                                                   *)
(***************************************************************************)
EXTENDS FaultLedger

CONSTANTS Posts,       \* the uploads
          Wafers,      \* in a lot, or records in a synthetic batch
          MaxClock,    \* bound: the wall clock
          MaxFaults    \* bound: failures of all kinds, beside what a batch answers

ASSUME IntakeAssumption ==
  /\ IsFiniteSet(Posts)
  /\ Wafers \in 1 .. 200 /\ {MaxClock, MaxFaults} \subseteq Nat

\* What is posted: a lot, a lot that fails schema, a body that is no lot, a
\* synthetic batch, or what is refused on sight (too large a body, a count or
\* size out of bounds).
Bodies == {"lot", "schema", "garbled", "batch", "refused"}

VARIABLES
  post,     \* the uploads: where the handler is, its outcome and its metrics
  lots,     \* how many records ST-01 put on probe.lots
  feed,     \* ST-01's partition of line.metrics
  clock,
  read,     \* the dashboard's position in feed
  saved,    \* its committed position
  panel,    \* ST-01 in its Model, with the fault ledger
  faults,
  unseen,   \* history: uploads whose metrics were lost, in part or in whole
  refed     \* history: records were handed to the same instance again

intake == <<post, lots>>
dashboard == <<read, saved, panel, refed>>
vars == <<intake, feed, clock, dashboard, faults, unseen>>

NotPosted == [pc |-> "idle", body |-> "none", ok |-> 0, status |-> 0, metrics |-> <<>>]

\* Joined: the first offset this instance saw, or -1.
Fresh == [joined |-> -1, wafers |-> 0, lots |-> 0, errors |-> 0, rejected |-> 0, ledger |-> NoFaults]

Init ==
  /\ post = [p \in Posts |-> NotPosted]
  /\ lots = 0 /\ feed = <<>> /\ clock = 0
  /\ read = 0 /\ saved = 0 /\ panel = Fresh
  /\ faults = 0 /\ unseen = {} /\ refed = FALSE

Fault == faults < MaxFaults /\ faults' = faults + 1

(***************************************************************************)
(* handle(): post_lot and produce_batch.                                   *)
(***************************************************************************)

Produced(ok)   == [kind |-> "produced", n |-> ok, ts |-> clock]
Latency(bad)   == [kind |-> "latency", errors |-> bad, ts |-> clock]
Rejected(text) == [kind |-> "rejected", text |-> text, ts |-> clock]
FaultMetric    == [kind |-> "fault", text |-> "send_failed", ts |-> clock]

Step(p, pc, body, ok, status, metrics) ==
  post' = [post EXCEPT ![p] = [pc |-> pc, body |-> body, ok |-> ok, status |-> status,
                               metrics |-> metrics]]

\* read_body, from_slice and validate: nothing is produced for a lot that fails.
Accept(p) ==
  /\ post[p].pc = "idle"
  /\ \E body \in Bodies :
       \/ body \in {"lot", "batch"} /\ Step(p, "send", body, 0, 0, <<>>)
       \/ body \in {"schema", "garbled"} /\ Step(p, "emit", body, 0, 400, <<Rejected(body)>>)
       \/ body = "refused" /\ Step(p, "answered", body, 0, 400, <<>>)
  /\ UNCHANGED <<lots, feed, clock, dashboard, faults, unseen>>

\* landed of the records are on the topic, ok of them are known to be.
Landed(landed) == lots' = lots + landed

SendLotClean(p) ==             \* mutant: a lot with a failed wafer reports nothing
  /\ post[p].pc = "send" /\ post[p].body = "lot"
  /\ \E landed \in 0 .. Wafers : \E ok \in 0 .. landed :
       /\ Landed(landed)
       /\ Step(p, "emit", "lot", ok, 200, IF ok = Wafers THEN <<Produced(ok), Latency(0)>> ELSE <<>>)
  /\ UNCHANGED <<feed, clock, dashboard, faults, unseen>>

SendLotWants(p) ==             \* mutant: n is what the lot had, not what was acked
  /\ post[p].pc = "send" /\ post[p].body = "lot"
  /\ \E landed \in 0 .. Wafers : \E ok \in 0 .. landed :
       /\ Landed(landed)
       /\ Step(p, "emit", "lot", ok, 200, <<Produced(Wafers), Latency(Wafers - ok)>>)
  /\ UNCHANGED <<feed, clock, dashboard, faults, unseen>>

\* send_batch answers per record; one it calls failed may be on the topic.
SendLot(p) ==
  /\ post[p].pc = "send" /\ post[p].body = "lot"
  /\ \E landed \in 0 .. Wafers : \E ok \in 0 .. landed :
       /\ Landed(landed)
       /\ Step(p, "emit", "lot", ok, 200, <<Produced(ok), Latency(Wafers - ok)>>)
  /\ UNCHANGED <<feed, clock, dashboard, faults, unseen>>

\* The call fails: 503, whatever of the lot is on the topic.
SendLotFails(p) ==
  /\ post[p].pc = "send" /\ post[p].body = "lot"
  /\ Fault
  /\ \E landed \in 0 .. Wafers : Landed(landed)
  /\ Step(p, "emit", "lot", 0, 503, <<FaultMetric>>)
  /\ UNCHANGED <<feed, clock, dashboard, unseen>>

\* /produce-batch reports nothing.
SendSynthetic(p) ==
  /\ post[p].pc = "send" /\ post[p].body = "batch"
  /\ \E landed \in 0 .. Wafers : Landed(landed)
  /\ Step(p, "answered", "batch", 0, 200, <<>>)
  /\ UNCHANGED <<feed, clock, dashboard, faults, unseen>>

SendSyntheticFails(p) ==
  /\ post[p].pc = "send" /\ post[p].body = "batch"
  /\ Fault
  /\ \E landed \in 0 .. Wafers : Landed(landed)
  /\ Step(p, "answered", "batch", 0, 500, <<>>)
  /\ UNCHANGED <<feed, clock, dashboard, unseen>>

\* emit(): the metrics land in order, before the answer.
Emit(p) ==
  /\ post[p].pc = "emit"
  /\ feed' = feed \o post[p].metrics
  /\ post' = [post EXCEPT ![p].pc = "reply", ![p].metrics = <<>>]
  /\ UNCHANGED <<lots, clock, dashboard, faults, unseen>>

\* Its outcome is dropped (let _): any of them may be lost, so of the two of a
\* lot at most one is left.
EmitFails(p) ==
  /\ post[p].pc = "emit"
  /\ Fault
  /\ \E kept \in {<<>>} \cup {<<m>> : m \in Range(post[p].metrics)} :
       kept # post[p].metrics /\ feed' = feed \o kept
  /\ post' = [post EXCEPT ![p].pc = "reply", ![p].metrics = <<>>]
  /\ unseen' = unseen \cup {p}
  /\ UNCHANGED <<lots, clock, dashboard>>

Answer(p) ==
  /\ post[p].pc = "reply"
  /\ post' = [post EXCEPT ![p].pc = "answered"]
  /\ UNCHANGED <<lots, feed, clock, dashboard, faults, unseen>>

\* The instance goes away under an upload, which gets no answer.
Die(p) ==
  /\ post[p].pc \in {"send", "emit", "reply"}
  /\ Fault
  /\ post' = [post EXCEPT ![p].pc = "gone", ![p].metrics = <<>>]
  /\ UNCHANGED <<lots, feed, clock, dashboard, unseen>>

(***************************************************************************)
(* The dashboard.                                                          *)
(***************************************************************************)

FoldFault(m, v) == [m EXCEPT !.ledger = PushFault(@, v.text, v.ts)]

FoldIntake(m, v) ==
  CASE v.kind = "produced" -> [m EXCEPT !.wafers = @ + v.n, !.lots = @ + 1]
    [] v.kind = "latency"  -> [m EXCEPT !.errors = @ + v.errors]
    [] v.kind = "rejected" -> [FoldFault(m, v) EXCEPT !.rejected = @ + 1]
    [] v.kind = "fault"    -> FoldFault(m, v)

Fold ==
  /\ read < Len(feed)
  /\ panel' = FoldIntake([panel EXCEPT !.joined = IF @ = -1 THEN read ELSE @], feed[read + 1])
  /\ read' = read + 1
  /\ UNCHANGED <<intake, feed, clock, saved, refed, faults, unseen>>

Save ==
  /\ saved # read
  /\ saved' = read
  /\ UNCHANGED <<intake, feed, clock, read, panel, refed, faults, unseen>>

\* The host hands the same instance what it read since the commit again.
Refeed ==
  /\ saved < read
  /\ Fault
  /\ read' = saved /\ refed' = TRUE
  /\ UNCHANGED <<intake, feed, clock, saved, panel, unseen>>

TakeoverKeeps ==               \* mutant: the Model outlives the position it stands for
  /\ Fault
  /\ read' = saved /\ refed' = FALSE
  /\ UNCHANGED <<intake, feed, clock, saved, panel, unseen>>

\* A new instance takes over, with an empty Model.
Takeover ==
  /\ Fault
  /\ read' = saved /\ panel' = Fresh /\ refed' = FALSE
  /\ UNCHANGED <<intake, feed, clock, saved, unseen>>

Tick ==
  /\ clock < MaxClock
  /\ clock' = clock + 1
  /\ UNCHANGED <<intake, feed, dashboard, faults, unseen>>

Next ==
  \/ \E p \in Posts :
       \/ Accept(p) \/ SendLot(p) \/ SendLotFails(p) \/ SendSynthetic(p) \/ SendSyntheticFails(p)
       \/ Emit(p) \/ EmitFails(p) \/ Answer(p) \/ Die(p)
  \/ Fold \/ Save \/ Refeed \/ Takeover \/ Tick

Spec == Init /\ [][Next]_vars

(***************************************************************************)
(* Properties.                                                             *)
(***************************************************************************)

\* What uploads S were answered, as their uploaders can add it up: lots, their
\* wafers that were acked and those that were not, and refusals.
LotsOf(S) == {p \in S : post[p].body = "lot" /\ post[p].status = 200}
Acked(S) == {x \in S \X (1 .. Wafers) : x[2] <= post[x[1]].ok}
Unacked(S) == {x \in S \X (1 .. Wafers) : x[2] > post[x[1]].ok}
OkIn(S) == Cardinality(Acked(LotsOf(S)))
FailedIn(S) == Cardinality(Unacked(LotsOf(S)))
RejectedIn(S) == {p \in S : post[p].body \in {"schema", "garbled"}}

Between(low, n, high) == low <= n /\ n <= high

\* "a per-record error is one line in the response, not a failed lot"
\* (lib.rs:5-7), and the panel agrees with the responses.  It never counts a
\* wafer that is not on probe.lots; and with all uploads over and all metrics
\* folded from the first, it shows what the responses said, line by line, of
\* the uploads whose metrics all landed.  One whose metrics were lost, or that
\* died, may or may not be in it.
PanelExact ==
  LET sure  == {p \in Posts : post[p].pc = "answered"} \ unseen
      maybe == {p \in Posts : post[p].pc \in {"answered", "gone"}}
      settled == /\ panel.joined = IF feed = <<>> THEN -1 ELSE 0
                 /\ read = Len(feed)
                 /\ \A p \in Posts : post[p].pc \in {"idle", "answered", "gone"}
  IN  ~refed =>
        /\ panel.wafers <= lots
        /\ settled =>
             /\ Between(OkIn(sure), panel.wafers, OkIn(maybe))
             /\ Between(FailedIn(sure), panel.errors, FailedIn(maybe))
             /\ Between(Cardinality(LotsOf(sure)), panel.lots, Cardinality(LotsOf(maybe)))
             /\ Between(Cardinality(RejectedIn(sure)), panel.rejected,
                        Cardinality(RejectedIn(maybe)))

\* Metrics reach the feed in the order they were written, in another than they
\* were stamped when two uploads overlap.
StampsInOrder == \A i, j \in 1 .. read : i < j => feed[i].ts <= feed[j].ts

\* "The same fault (station + text) within 60 s is one row, not many"
\* (line-dashboard lib.rs:225): any two rows of a fault are 60 s apart, pruning
\* included.  It takes metrics folded once, in the order of their stamps.
RowsApart ==
  LET rows == panel.ledger.rows IN
  ~refed /\ StampsInOrder =>
    \A i, j \in DOMAIN rows :
      i < j /\ rows[i].text = rows[j].text => rows[i].ts - rows[j].ts >= FaultWindow

(***************************************************************************)
(* The inductive invariant.                                                *)
(***************************************************************************)
Texts == {"schema", "garbled", "send_failed"}

Metric ==
  [kind : {"produced"}, n : 0 .. Wafers, ts : Nat]
    \cup [kind : {"latency"}, errors : 0 .. Wafers, ts : Nat]
    \cup [kind : {"rejected", "fault"}, text : Texts, ts : Nat]

Upload ==
  [pc : {"idle", "send", "emit", "reply", "answered", "gone"}, body : Bodies \cup {"none"},
   ok : 0 .. Wafers, status : {0, 200, 400, 500, 503}, metrics : Seq(Metric)]

TypeOK ==
  /\ post \in [Posts -> Upload]
  /\ lots \in Nat /\ feed \in Seq(Metric) /\ {clock, faults} \subseteq Nat
  /\ read \in 0 .. Len(feed) /\ saved \in 0 .. read
  /\ LET seen == panel.ledger.seen IN
       /\ DOMAIN seen \subseteq Texts /\ seen \in [DOMAIN seen -> Nat]
       /\ panel \in [joined : -1 .. Len(feed), wafers : Nat, lots : Nat, errors : Nat, rejected : Nat,
                     ledger : [rows : Seq([text : Texts, ts : Nat]), seen : {seen}]]
  /\ unseen \subseteq Posts /\ refed \in BOOLEAN

\* Metric m is one that upload p reports of itself, with p's own figures.
Says(m, p) ==
  CASE m.kind = "produced" -> p \in LotsOf(Posts) /\ m.n = post[p].ok
    [] m.kind = "latency"  -> p \in LotsOf(Posts) /\ m.errors = Wafers - post[p].ok
    [] m.kind = "rejected" -> p \in RejectedIn(Posts)
    [] m.kind = "fault"    -> TRUE

\* The kinds of metrics upload p reports, one of each.
Due(p) == (IF p \in LotsOf(Posts) THEN {"produced", "latency"} ELSE {})
            \cup (IF p \in RejectedIn(Posts) THEN {"rejected"} ELSE {})

\* Before its metrics an upload has none lost, before its send nothing acked.
PostOK(p) ==
  LET mine == post[p].metrics IN
  /\ post[p].pc = "idle" => post[p] = NotPosted
  /\ post[p].pc = "send" => post[p].ok = 0 /\ post[p].status = 0
                             /\ post[p].body \in {"lot", "batch"}
  /\ post[p].pc \in {"idle", "send", "emit"} => p \notin unseen
  /\ post[p].pc = "emit" =>
       /\ \A i \in DOMAIN mine : Says(mine[i], p)
       /\ \A i, j \in DOMAIN mine : mine[i].kind = mine[j].kind => i = j
       /\ \A d \in Due(p) : \E i \in DOMAIN mine : mine[i].kind = d

PostInv == \A p \in Posts : PostOK(p)

\* A wafer is acked only if it is on probe.lots.
LandedInv == Cardinality(Acked(Posts)) <= lots

\* src names the upload behind each metric of the feed: one of a kind each, with
\* the upload's figures, and all of them unless some were lost.
SourceInv(src) ==
  /\ \A k \in DOMAIN feed : /\ Says(feed[k], src[k])
                             /\ post[src[k]].pc \in {"reply", "answered", "gone"}
  /\ \A j, k \in DOMAIN feed : src[j] = src[k] /\ feed[j].kind = feed[k].kind => j = k
  /\ \A p \in Posts \ unseen : post[p].pc \in {"reply", "answered"} =>
       \A d \in Due(p) : \E k \in DOMAIN feed : src[k] = p /\ feed[k].kind = d

\* The uploads whose metric of a kind this instance folded.
Joined == IF panel.joined = -1 THEN read ELSE panel.joined
Seen(src, kind) == {p \in Posts : \E k \in Joined + 1 .. read : src[k] = p /\ feed[k].kind = kind}

\* The panel counts them, and their wafers, once.
PanelInv(src) ==
  ~refed =>
    /\ panel.joined <= read
    /\ panel.wafers = Cardinality(Acked(Seen(src, "produced")))
    /\ panel.lots = Cardinality(Seen(src, "produced"))
    /\ panel.errors = Cardinality(Unacked(Seen(src, "latency")))
    /\ panel.rejected = Cardinality(Seen(src, "rejected"))

IntakeInv == \E src \in [DOMAIN feed -> Posts] : SourceInv(src) /\ PanelInv(src)

\* A row's fault is remembered with a later stamp, or was last seen so long ago
\* that it was pruned; and no stamp is later than the last one read.
LedgerInv ==
  LET rows == panel.ledger.rows
      seen == panel.ledger.seen
      Past(ts) == \E k \in 1 .. read : ts <= feed[k].ts
  IN  ~refed /\ StampsInOrder =>
        /\ \A t \in DOMAIN seen : Past(seen[t])
        /\ \A i \in DOMAIN rows :
             /\ Past(rows[i].ts)
             /\ IF rows[i].text \in DOMAIN seen THEN rows[i].ts <= seen[rows[i].text]
                                                ELSE Past(rows[i].ts + SeenFor)
        /\ RowsApart

Inv == TypeOK /\ PostInv /\ LandedInv /\ IntakeInv /\ LedgerInv
=============================================================================
