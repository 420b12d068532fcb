----------------------------- MODULE Simulator -----------------------------
(***************************************************************************)
(* The factory simulator (workloads/factory-simulator): one task plays the *)
(* frames of a scenario once a second, another applies the records of      *)
(* sim.control to the State they share.  Both run on one thread and        *)
(* suspend only at their awaits, so a control record may land between any  *)
(* two sends of a frame.  Every record of a topic whose ids must be unique *)
(* is stamped with the pass (or overlay count) it was planned under.       *)
(* The overlays are a set here: their order only shows in the heartbeat.   *)
(***************************************************************************)
EXTENDS Integers, Sequences, Bags, FiniteSets

CONSTANTS
  Loops, Overlays,   \* the scenarios' names; "baseline" is a loop
  Frames,            \* frames of each scenario
  Then,              \* the loop that follows a loop (itself: it repeats)
  Covers,            \* the topics a scenario has lines for
  TopicCount,        \* topics, numbered in the order they are sent
  Rates,             \* frames per tick an operator may ask for
  MaxControls,       \* bound: records on sim.control
  MaxFrames,         \* bound: frames played in one behaviour
  MaxFaults          \* bound: failures of all kinds

Topics == 1 .. TopicCount
Scenarios == Loops \cup Overlays

ASSUME CatalogAssumption ==
  /\ TopicCount \in Nat \ {0}
  /\ "baseline" \in Loops /\ Loops \cap Overlays = {}
  /\ Frames \in [Scenarios -> Nat \ {0}]
  /\ \A l \in Loops : Frames[l] <= Frames["baseline"]    \* so lines() wraps nowhere
  /\ Then \in [Loops -> Loops]
  /\ Covers \in [Scenarios -> SUBSET Topics] /\ Covers["baseline"] = Topics
  /\ Rates \subseteq 1 .. 60
ASSUME BoundAssumption == {MaxControls, MaxFrames, MaxFaults} \subseteq Nat

\* "ignored" stands for every record that changes nothing but control_seen:
\* malformed, unknown command or scenario, play of a loop, loop of an overlay.
Commands ==
  [cmd : {"stop", "ignored"}] \cup [cmd : {"rate"}, n : Rates]
    \cup [cmd : {"loop"}, scenario : Loops] \cup [cmd : {"play"}, scenario : Overlays]

VARIABLES
  st,          \* the shared State
  epoch,       \* which start of the simulator this is
  plan,        \* the frame being sent: per topic, the records not sent yet
  tick,        \* the tick loop: where it suspends, frames left, its metrics
  sent,        \* the records on the topics, with their multiplicity
  reported,    \* what the `produced` metrics on line.metrics add up to
  controls,    \* sim.control, as far as it was read
  reader,      \* the control consumer
  owed,        \* history: frames of accepted overlays not played yet
  late,        \* history: overlays accepted while a frame was being sent
  planned,     \* history: loop frames planned, with epoch and pass
  skipped,     \* history: passes begun while a frame was being sent
  frames,      \* frames played so far
  faults       \* failures so far

history == <<owed, late, planned, skipped>>
vars == <<st, epoch, plan, tick, sent, reported, controls, reader, history, frames, faults>>

NoPlan   == [t \in Topics |-> {}]
NoCounts == [t \in Topics |-> 0]
Asleep   == [pc |-> "sleep", left |-> 0, metrics |-> NoCounts]
Started  == [running |-> TRUE, scenario |-> "baseline", frame |-> 0, overlays |-> {},
             rate |-> 1, passes |-> 1, played |-> 0]
Reopened(committed) == [pc |-> "read", next |-> committed + 1, committed |-> committed]

OverlayNames == {o.name : o \in st.overlays}

Init ==
  /\ st = Started
  /\ epoch = 1
  /\ plan = NoPlan
  /\ tick = Asleep
  /\ sent = EmptyBag
  /\ reported = NoCounts
  /\ controls = <<>>
  /\ reader = Reopened(0)
  /\ owed = [o \in Overlays |-> {}]
  /\ late = {}
  /\ planned = {}
  /\ skipped = {}
  /\ frames = 0
  /\ faults = 0

Fault == faults < MaxFaults /\ faults' = faults + 1

(***************************************************************************)
(* apply_control                                                           *)
(***************************************************************************)

LoopSamePass(s, name) ==       \* mutant: replays frame 0 under the same pass
  IF s.running /\ s.scenario = name THEN s
  ELSE [s EXCEPT !.running = TRUE, !.scenario = name, !.frame = 0]

LoopKeepsFrame(s, name) ==     \* mutant: the new pass goes on at the old frame
  IF s.running /\ s.scenario = name THEN s
  ELSE [s EXCEPT !.running = TRUE, !.scenario = name, !.passes = @ + 1]

LoopTo(s, name) ==
  IF s.running /\ s.scenario = name THEN s
  ELSE [s EXCEPT !.running = TRUE, !.scenario = name, !.frame = 0, !.passes = @ + 1]

Playing(s, name) == \E o \in s.overlays : o.name = name

Play(s, name) ==
  IF Playing(s, name) THEN s
  ELSE [s EXCEPT !.overlays = @ \cup {[name |-> name, frame |-> 0]}, !.played = @ + 1]

Applied(s, c) ==
  CASE c.cmd = "stop"    -> [s EXCEPT !.running = FALSE]
    [] c.cmd = "rate"    -> [s EXCEPT !.rate = c.n]
    [] c.cmd = "loop"    -> LoopTo(s, c.scenario)
    [] c.cmd = "play"    -> Play(s, c.scenario)
    [] c.cmd = "ignored" -> s

(***************************************************************************)
(* control_loop                                                            *)
(***************************************************************************)

MidFrame == tick.pc = "send"

Accepts(c) == c.cmd = "play" /\ ~Playing(st, c.scenario)

\* The next record (read before, or new: any command) is applied.
Control ==
  /\ reader.pc = "read"
  /\ \/ reader.next <= Len(controls) /\ UNCHANGED controls
     \/ /\ reader.next = Len(controls) + 1 /\ Len(controls) < MaxControls
        /\ \E c \in Commands : controls' = Append(controls, c)
  /\ LET c == controls'[reader.next] IN
     /\ st' = Applied(st, c)
     /\ owed' = IF Accepts(c) THEN [owed EXCEPT ![c.scenario] = 0 .. Frames[c.scenario] - 1]
                ELSE owed
     /\ late' = IF Accepts(c)
                THEN IF MidFrame THEN late \cup {c.scenario} ELSE late \ {c.scenario}
                ELSE late
     /\ skipped' = IF MidFrame /\ st'.passes # st.passes
                   THEN skipped \cup {<<epoch, st'.passes>>} ELSE skipped
  /\ reader' = [reader EXCEPT !.pc = "commit", !.next = @ + 1]
  /\ UNCHANGED <<epoch, plan, tick, sent, reported, planned, frames, faults>>

\* The offset is committed after the record was acted on.
CommitControl ==
  /\ reader.pc = "commit"
  /\ reader' = [reader EXCEPT !.pc = "read", !.committed = reader.next - 1]
  /\ UNCHANGED <<st, epoch, plan, tick, sent, reported, controls, history, frames, faults>>

\* The commit fails, which is logged, and the next commit covers it.
CommitFails ==
  /\ reader.pc = "commit"
  /\ Fault
  /\ reader' = [reader EXCEPT !.pc = "read"]
  /\ UNCHANGED <<st, epoch, plan, tick, sent, reported, controls, history, frames>>

\* The stream ends; the consumer is reopened at the committed position.
Reopen ==
  /\ reader.pc = "read"
  /\ Fault
  /\ reader' = Reopened(reader.committed)
  /\ UNCHANGED <<st, epoch, plan, tick, sent, reported, controls, history, frames>>

(***************************************************************************)
(* The tick loop                                                           *)
(***************************************************************************)

\* stamp(): the id a line of a topic is sent under.
Stamp(line, e, n, overlay) == [line |-> line, epoch |-> e, overlay |-> overlay, n |-> n]

\* The scenario whose lines go to a topic.
Source(scenario, t) == IF t \in Covers[scenario] THEN scenario ELSE "baseline"

\* play_frame(), up to its first await: the scenario's lines or, for the topics
\* it omits, baseline's; then those of each overlay at its own frame.
PlanOf(s) ==
  [t \in Topics |->
     {Stamp([topic |-> t, source |-> Source(s.scenario, t), frame |-> s.frame],
            epoch, s.passes, FALSE)}
       \cup {Stamp([topic |-> t, source |-> o.name, frame |-> o.frame], epoch, s.played, TRUE) :
               o \in {x \in s.overlays : t \in Covers[x.name]}}]

StartFrame(s) ==
  /\ frames < MaxFrames
  /\ frames' = frames + 1
  /\ plan' = PlanOf(s)
  /\ planned' = planned \cup {<<epoch, s.passes, s.frame>>}
  /\ owed' = [o \in Overlays |-> owed[o] \ {x.frame : x \in {y \in s.overlays : y.name = o}}]

AdvanceLoopLate(s) ==          \* mutant: > for >=
  IF s.frame + 1 <= Frames[s.scenario] THEN [s EXCEPT !.frame = @ + 1]
  ELSE [s EXCEPT !.frame = 0, !.passes = @ + 1, !.scenario = Then[@]]

AdvanceLoopSamePass(s) ==      \* mutant: the next scenario shares the pass
  IF s.frame + 1 < Frames[s.scenario] THEN [s EXCEPT !.frame = @ + 1]
  ELSE [s EXCEPT !.frame = 0, !.scenario = Then[@]]

AdvanceLoop(s) ==
  IF s.frame + 1 < Frames[s.scenario] THEN [s EXCEPT !.frame = @ + 1]
  ELSE [s EXCEPT !.frame = 0, !.passes = @ + 1, !.scenario = Then[@]]

AdvanceOverlaysShort(s) ==     \* mutant: expires one frame early
  [s EXCEPT !.overlays =
     {[o EXCEPT !.frame = @ + 1] : o \in {x \in @ : x.frame + 2 < Frames[x.name]}}]

AdvanceOverlays(s) ==
  [s EXCEPT !.overlays =
     {[o EXCEPT !.frame = @ + 1] : o \in {x \in @ : x.frame + 1 < Frames[x.name]}}]

Advance(s) == AdvanceOverlays(AdvanceLoop(s))

\* A second has passed.  A stopped loop plays nothing, overlays included.
Wake ==
  /\ tick.pc = "sleep"
  /\ st.running
  /\ StartFrame(st)
  /\ tick' = [tick EXCEPT !.pc = "send", !.left = st.rate]
  /\ UNCHANGED <<st, epoch, sent, reported, controls, reader, late, skipped, faults>>

\* Nothing left to send: advance(), and on to the next frame of the tick or
\* its metrics, without suspending; else the next topic's send.
AfterSend(rest, ok) ==
  IF rest # NoPlan
  THEN /\ plan' = rest
       /\ tick' = [tick EXCEPT !.metrics = ok]
       /\ UNCHANGED <<st, owed, planned, frames>>
  ELSE /\ st' = Advance(st)
       /\ IF tick.left > 1
          THEN /\ StartFrame(Advance(st))
               /\ tick' = [tick EXCEPT !.left = @ - 1, !.metrics = ok]
          ELSE /\ plan' = NoPlan
               /\ tick' = [pc |-> "emit", left |-> 0, metrics |-> ok]
               /\ UNCHANGED <<owed, planned, frames>>

Sending(t) == tick.pc = "send" /\ plan[t] # {} /\ \A u \in Topics : u < t => plan[u] = {}

SendWant(t) ==                 \* mutant: counts what was asked, not what was acked
  /\ Sending(t)
  /\ \E acked \in SUBSET plan[t] :
       /\ acked # plan[t] => faults < MaxFaults
       /\ faults' = faults + (IF acked = plan[t] THEN 0 ELSE 1)
       /\ sent' = sent (+) SetToBag(acked)
       /\ AfterSend([plan EXCEPT ![t] = {}],
                    [tick.metrics EXCEPT ![t] = @ + Cardinality(plan[t])])
  /\ UNCHANGED <<epoch, reported, controls, reader, late, skipped>>

\* send_batch of one topic.  Any of its records may fail, or all when the call
\* does; a failed record may be on the topic all the same.  Nothing is retried.
Send(t) ==
  /\ Sending(t)
  /\ \E acked \in SUBSET plan[t], kept \in SUBSET plan[t] :
       /\ acked \subseteq kept
       /\ acked # plan[t] => faults < MaxFaults
       /\ faults' = faults + (IF acked = plan[t] THEN 0 ELSE 1)
       /\ sent' = sent (+) SetToBag(kept)
       /\ AfterSend([plan EXCEPT ![t] = {}],
                    [tick.metrics EXCEPT ![t] = @ + Cardinality(acked)])
  /\ UNCHANGED <<epoch, reported, controls, reader, late, skipped>>

\* emit_metrics() at the end of the tick.
Emit ==
  /\ tick.pc = "emit"
  /\ reported' = [t \in Topics |-> reported[t] + tick.metrics[t]]
  /\ tick' = Asleep
  /\ UNCHANGED <<st, epoch, plan, sent, controls, reader, history, frames, faults>>

\* Its failure is logged and the counts are gone.
EmitFails ==
  /\ tick.pc = "emit"
  /\ Fault
  /\ tick' = Asleep
  /\ UNCHANGED <<st, epoch, plan, sent, reported, controls, reader, history, frames>>

\* The component is started again.  Its epoch is 16 random bits; here it is
\* taken to differ from every earlier one.
RestartSim ==
  /\ Fault
  /\ st' = Started
  /\ epoch' = epoch + 1
  /\ plan' = NoPlan
  /\ tick' = Asleep
  /\ reader' = Reopened(reader.committed)
  /\ owed' = [o \in Overlays |-> {}]
  /\ late' = {}
  /\ UNCHANGED <<sent, reported, controls, planned, skipped, frames>>

Next ==
  \/ Control \/ CommitControl \/ CommitFails \/ Reopen
  \/ Wake \/ (\E t \in Topics : Send(t)) \/ Emit \/ EmitFails
  \/ RestartSim

Spec == Init /\ [][Next]_vars

(***************************************************************************)
(* Properties.                                                             *)
(***************************************************************************)

OnTopic(t) == {r \in DOMAIN sent : r.line.topic = t}

Lines  == [topic : Topics, source : Scenarios, frame : Nat]
Stamps == [line : Lines, epoch : Nat, overlay : BOOLEAN, n : Nat]
States == [running : BOOLEAN, scenario : Loops, frame : Nat,
           overlays : SUBSET [name : Overlays, frame : Nat], rate : Rates \cup {1},
           passes : Nat \ {0}, played : Nat]

TypeOK ==
  /\ st \in States /\ st.frame < Frames[st.scenario] /\ IsFiniteSet(st.overlays)
  /\ \A o \in st.overlays :
       o.frame < Frames[o.name] /\ \A x \in st.overlays : x.name = o.name => x = o
  /\ tick \in [pc : {"sleep", "send", "emit"}, left : 0 .. 60, metrics : [Topics -> Nat]]
  /\ reported \in [Topics -> Nat]
  /\ plan \in [Topics -> SUBSET Stamps] /\ \A t \in Topics : IsFiniteSet(plan[t])
  /\ (tick.pc = "send") <=> (plan # NoPlan)
  /\ controls \in Seq(Commands)
  /\ reader \in [pc : {"read", "commit"}, next : Nat, committed : Nat]
  /\ reader.committed < reader.next /\ reader.next <= Len(controls) + 1
  /\ IsABag(sent) /\ DOMAIN sent \subseteq Stamps /\ IsFiniteSet(DOMAIN sent)
  /\ owed \in [Overlays -> SUBSET Nat] /\ late \subseteq Overlays
  /\ planned \subseteq Nat \X Nat \X Nat /\ skipped \subseteq Nat \X Nat
  /\ {epoch, frames, faults} \subseteq Nat

\* "Record ids that must be unique across passes (the transactional ledger is
\* deduplicated by unit id)" (lib.rs:329-330): no stamped record is on a topic
\* twice, whenever controls land, are replayed, or the simulator restarts.
UniqueIds == \A r \in DOMAIN sent : sent[r] = 1

\* Scenarios number their entities alike, so only the pass keeps their ids apart
\* (lib.rs:241-243): the loop records of a topic in one pass come from one
\* scenario, whatever loop was asked for in between.
PassHoldsOneLoop ==
  \A r, s \in DOMAIN sent :
    ~r.overlay /\ ~s.overlay /\ r.epoch = s.epoch /\ r.n = s.n
      /\ r.line.topic = s.line.topic => r.line.source = s.line.source

\* What `make validate` takes as produced is never more than the topics hold,
\* and exactly that when no send and no metric failed.
ProducedExact ==
  \A t \in Topics :
    LET counted == reported[t] + tick.metrics[t] IN
    /\ counted <= Cardinality(OnTopic(t))
    /\ faults = 0 => counted = Cardinality(OnTopic(t))

\* No frame of a pass is skipped or played out of order; only frame 0 can be,
\* in a pass begun by a control that landed while a frame was being sent.
FramesInOrder ==
  \A x \in planned :
    x[3] > 0 => \/ <<x[1], x[2], x[3] - 1>> \in planned
                \/ x[3] = 1 /\ <<x[1], x[2]>> \in skipped

\* An overlay accepted between frames is played whole: a frame it still owes is
\* one it has yet to reach.
OverlayPlaysWhole ==
  \A o \in Overlays \ late : owed[o] # {} => o \in OverlayNames

\* "`play` is a one-shot overlay on top of the loop" (lib.rs:13): every
\* accepted overlay is played.
OneShotPlays == \A o \in Overlays : owed[o] # {} => o \in OverlayNames

(***************************************************************************)
(* The inductive invariant.                                                *)
(***************************************************************************)

Out == DOMAIN sent \cup UNION {plan[t] : t \in Topics}

\* Frame f comes before frame g, or is g while that is being sent.
Before(f, g, sending) == f < g \/ (sending /\ f = g)

\* No frame that State s has yet to play can stamp r again: r is of an earlier
\* start, pass or overlay count, or of an earlier frame.
Behind(r, s, sending) ==
  \/ r.epoch < epoch
  \/ /\ r.epoch = epoch
     /\ r.overlay => /\ r.n <= s.played
                     /\ r.n = s.played => \A o \in s.overlays :
                          o.name = r.line.source => Before(r.line.frame, o.frame, sending)
     /\ ~r.overlay => /\ r.n <= s.passes
                      /\ r.n = s.passes => Before(r.line.frame, s.frame, sending)

StampInv ==
  /\ \A r \in Out : Behind(r, st, MidFrame)
  /\ \A t \in Topics : \A r \in plan[t] : r.line.topic = t /\ r \notin DOMAIN sent

SourceInv ==
  \A r \in Out : ~r.overlay =>
    /\ r.epoch = epoch /\ r.n = st.passes => r.line.source = Source(st.scenario, r.line.topic)
    /\ \A q \in Out : ~q.overlay /\ q.epoch = r.epoch /\ q.n = r.n /\ q.line.topic = r.line.topic
                        => q.line.source = r.line.source

\* The frame of s is one that was planned; or the one before it was.
Planned(s) == \/ <<epoch, s.passes, s.frame>> \in planned
              \/ s.frame = 0 /\ <<epoch, s.passes>> \in skipped
Follows(s) == s.frame > 0 => \/ <<epoch, s.passes, s.frame - 1>> \in planned
                             \/ s.frame = 1 /\ <<epoch, s.passes>> \in skipped

FrameInv == FramesInOrder /\ IF MidFrame THEN Planned(st) ELSE Follows(st)

\* What an overlay owes is its frames from the next on; one that is over owes
\* nothing.
Owes(s, o, sending) ==
  {f \in 0 .. Frames[o] - 1 : \E x \in s.overlays : x.name = o /\ Before(x.frame, f, ~sending)}

OwedInv == \A o \in Overlays \ late : owed[o] = Owes(st, o, MidFrame)

\* What every step keeps, and the five properties above follow from.
Inv == TypeOK /\ UniqueIds /\ ProducedExact /\ StampInv /\ SourceInv /\ FrameInv /\ OwedInv
=============================================================================
