------------------------------ MODULE WireBond ------------------------------
(***************************************************************************)
(* ST-03, wire bond (workloads/st03-wire-bond): windows per bonder over    *)
(* wirebond.raw.  The record loop and rebalance_loop share one State on    *)
(* one thread and interleave at their awaits.  commit([]) commits what the *)
(* stream has handed out, not what the windows sent so far hold.           *)
(*                                                                         *)
(* A record's timestamp is its offset: partitions tick together.  What the *)
(* readings of a window add up to is any verdict close_window can reach.   *)
(***************************************************************************)
EXTENDS Integers, Sequences, SequencesExt, FiniteSets, FiniteSetsExt

CONSTANTS Partitions,      \* partitions of wirebond.raw
          Bonders,         \* bonder numbers
          LogLen,          \* records on each partition
          BatchSize,       \* BATCH_SIZE
          WindowMs,        \* WINDOW_MS
          ReplayMs,        \* REPLAY_MS
          MaxFaults        \* bound: failures and rebalances in one behaviour

Offsets == 0 .. LogLen - 1
Records == Partitions \X Offsets

ASSUME SettingsAssumption ==
  Bonders \subseteq Nat /\ IsFiniteSet(Bonders) /\ IsFiniteSet(Partitions) /\ LogLen \in Nat /\ BatchSize \in 1 .. 100
    /\ WindowMs \in Nat /\ ReplayMs \in Nat /\ WindowMs <= ReplayMs /\ MaxFaults \in Nat

\* What a record is: a bond of a bonder, or none.
Malformed == -1
Tombstone == -2
Kinds == Bonders \cup {Malformed, Tombstone}

\* The simulator's key of a record is its bonder: one partition has them all.
Logs == {l \in [Records -> Kinds] :
           \A r, q \in Records : l[r] = l[q] /\ l[r] \in Bonders => r[1] = q[1]}

VARIABLES
  log,         \* the bonder of each record, or why it is none; never changes
  pc,          \* the record loop
  rb,          \* rebalance_loop: the event it is answering
  granted,     \* the partitions the group's events have given this process
  answerer,    \* who takes these events: rebalance_loop, the client or nobody
  st,          \* the State both share
  since,       \* since_flush
  seeking,     \* the replay the loop is seeking to
  flight,      \* what the loop is sending: the windows and the count of records
               \* flush() took, or a record to the DLQ
  ended,       \* the stream has ended
  assigned, pos, stored,   \* the consumer: assignment, next record, stored position
  committed,   \* the group's position, per partition
  outputs,     \* records that are in a window on wirebond.metrics
  dlq,         \* records on wirebond.dlq
  counted,     \* what the `consumed` metrics add up to
  seeks,       \* history: replay seeks per bonder in this life of the process
  gone,        \* history: records a dead process held though committed
  uncounted,   \* history: a process exited or a metrics send failed
  faults       \* failures and rebalances so far

rebalancing == <<rb, granted, answerer>>
process == <<pc, rebalancing, st, since, seeking, flight, ended>>
client  == <<assigned, pos, stored>>
topics  == <<committed, outputs, dlq, counted>>
history == <<seeks, gone, uncounted, faults>>
vars    == <<log, process, client, topics, history>>

None == -1
NoWindow == [start |-> None, partition |-> None, records |-> {}]
NoSeek   == [bonder |-> None, partition |-> None, from |-> 0]
NoFlight == [windows |-> <<>>, consumed |-> 0, letter |-> {}]
NoEvent  == [kind |-> "none", parts |-> {}]

Fresh == [window |-> [b \in Bonders |-> NoWindow], known |-> {}, replayed |-> {},
          highWater |-> [p \in Partitions |-> -1], pending |-> <<>>, consumed |-> 0,
          seek |-> NoSeek]

Windows == [start : {None} \cup Offsets, partition : {None} \cup Partitions,
            records : SUBSET Records]
Closed == [bonder : Bonders, records : SUBSET Records]

Seeks == {NoSeek} \cup [bonder : Bonders, partition : Partitions, from : Int]
States == [window : [Bonders -> Windows], known : SUBSET Bonders, replayed : SUBSET Bonders,
           highWater : [Partitions -> -1 .. LogLen - 1], pending : Seq(Closed), consumed : Nat,
           seek : Seeks]

TypeOK ==
  /\ log \in Logs
  /\ pc \in {"down", "read", "dead_letter", "seek", "send", "metrics", "commit"}
  /\ rb \in [kind : {"none", "assign", "revoke"}, parts : SUBSET Partitions]
  /\ granted \subseteq Partitions /\ answerer \in {"loop", "client", "nobody"}
  /\ st \in States /\ seeking \in Seeks
  /\ flight \in [windows : Seq(Closed), consumed : Nat, letter : {{}} \cup {{r} : r \in Records}]
  /\ since \in 0 .. BatchSize /\ counted \in Nat /\ {ended, uncounted} \subseteq BOOLEAN
  /\ assigned \subseteq Partitions
  /\ pos \in [Partitions -> 0 .. LogLen] /\ committed \in [Partitions -> 0 .. LogLen]
  /\ stored \in [Partitions -> {None} \cup 0 .. LogLen]
  /\ outputs \subseteq Records /\ dlq \subseteq Records /\ gone \subseteq Records
  /\ seeks \in [Bonders -> Nat] /\ faults \in 0 .. MaxFaults

Init ==
  /\ log \in Logs
  /\ pc = "down" /\ rb = NoEvent /\ granted = {} /\ answerer = "nobody" /\ st = Fresh
  /\ since = 0 /\ seeking = NoSeek /\ flight = NoFlight /\ ended = FALSE
  /\ assigned = {}
  /\ pos = [p \in Partitions |-> 0]
  /\ stored = [p \in Partitions |-> None]
  /\ committed = [p \in Partitions |-> 0]
  /\ outputs = {} /\ dlq = {} /\ counted = 0
  /\ seeks = [b \in Bonders |-> 0]
  /\ gone = {} /\ uncounted = FALSE /\ faults = 0

Fault == faults < MaxFaults /\ faults' = faults + 1

(***************************************************************************)
(* close_window and ingest                                                 *)
(***************************************************************************)

\* What a window can show: until a first one sets the trailing mean it counts
\* as healthy; only a healthy window moves the mean; "nsop" is the alarm.
Verdicts(s, b) == IF b \in s.known THEN {"healthy", "off", "nsop"} ELSE {"healthy"}

Contents(windows) == UNION {w.records : w \in ToSet(windows)}

CloseUnguarded(s, bs, end, verdict) ==   \* mutant: no `replayed` guard
  LET alarms == {b \in bs : verdict[b] = "nsop"}
      last   == Max(alarms)
  IN  [s EXCEPT !.window = [b \in Bonders |-> IF b \in bs THEN NoWindow ELSE @[b]],
        !.pending = @ \o SetToSeq({[bonder |-> b, records |-> s.window[b].records] : b \in bs}),
        !.known = @ \cup {b \in bs : verdict[b] = "healthy"},
        !.seek = IF alarms = {} THEN @
                 ELSE [bonder |-> last, partition |-> s.window[last].partition,
                       from |-> end[last] - ReplayMs]]

\* The open windows of bs close at end[b], in the order of the bonders: each
\* output is queued; a first alarm asks for a replay, and a later one of the
\* same batch of windows takes the single request over.
Close(s, bs, end, verdict) ==
  LET alarms == {b \in bs : verdict[b] = "nsop" /\ b \notin s.replayed}
      last   == Max(alarms)
  IN  [s EXCEPT !.window = [b \in Bonders |-> IF b \in bs THEN NoWindow ELSE @[b]],
        !.pending = @ \o SetToSeq({[bonder |-> b, records |-> s.window[b].records] : b \in bs}),
        !.known = @ \cup {b \in bs : verdict[b] = "healthy"},
        !.replayed = @ \cup alarms,
        !.seek = IF alarms = {} THEN @
                 ELSE [bonder |-> last, partition |-> s.window[last].partition,
                       from |-> end[last] - ReplayMs]]

IsOpen(s, b) == s.window[b].start # None

CountEvery(s, p, o) ==         \* mutant: a replayed record counts again
  [s EXCEPT !.consumed = @ + 1]

\* A record at or below the high-water mark is a replay and not counted.
Count(s, p, o) ==
  IF o <= s.highWater[p] THEN s
  ELSE [s EXCEPT !.highWater[p] = o, !.consumed = @ + 1]

\* The window is over, or the record comes from before it opened.
Over(w, ts) == w.start # None /\ (ts - w.start >= WindowMs \/ w.start - ts > WindowMs)

AddTo(w, p, ts) ==
  [start |-> IF w.start = None THEN ts ELSE w.start,
   partition |-> IF w.start = None THEN p ELSE w.partition,
   records |-> w.records \cup {<<p, ts>>}]

Ingest(s, p, ts, verdict) ==
  LET b  == log[<<p, ts>>]
      s1 == Count(s, p, ts)
      s2 == IF Over(s.window[b], ts)
            THEN Close(s1, {b}, [x \in {b} |-> ts], [x \in {b} |-> verdict]) ELSE s1
  IN  [s2 EXCEPT !.window[b] = AddTo(@, p, ts)]

(***************************************************************************)
(* The record loop                                                         *)
(***************************************************************************)

TakeWindows(s) ==              \* flush() up to its first await
  /\ flight' = [NoFlight EXCEPT !.windows = s.pending, !.consumed = s.consumed]
  /\ st' = [s EXCEPT !.pending = <<>>, !.consumed = 0]
  /\ pc' = IF s.pending = <<>> THEN "metrics" ELSE "send"

FlushKeepsSince(s, n) ==       \* mutant: since_flush is not reset
  IF n >= BatchSize \/ Len(s.pending) >= BatchSize
  THEN TakeWindows(s) /\ since' = n
  ELSE pc' = "read" /\ st' = s /\ since' = n /\ flight' = NoFlight

\* The end of an iteration: flush when enough records or outputs gathered.
FlushIfReady(s, n) ==
  IF n >= BatchSize \/ Len(s.pending) >= BatchSize
  THEN TakeWindows(s) /\ since' = 0
  ELSE pc' = "read" /\ st' = s /\ since' = n /\ flight' = NoFlight

\* After a record: the seek a window close asked for, if any.
AfterRecord(s, n) ==
  IF s.seek # NoSeek
  THEN /\ pc' = "seek" /\ seeking' = s.seek
       /\ st' = [s EXCEPT !.seek = NoSeek] /\ since' = n
       /\ flight' = NoFlight
  ELSE FlushIfReady(s, n) /\ UNCHANGED seeking

\* records.next() of a bond or a tombstone.
Deliver(p) ==
  /\ pc = "read" /\ p \in assigned /\ pos[p] < LogLen
  /\ log[<<p, pos[p]>>] # Malformed
  /\ pos' = [pos EXCEPT ![p] = @ + 1]
  /\ stored' = [stored EXCEPT ![p] = pos[p] + 1]
  /\ LET kind == log[<<p, pos[p]>>] IN
     \/ /\ kind = Tombstone
        /\ AfterRecord([st EXCEPT !.consumed = @ + 1], since + 1)
     \/ /\ kind \in Bonders
        /\ \E v \in Verdicts(st, kind) : AfterRecord(Ingest(st, p, pos[p], v), since + 1)
  /\ UNCHANGED <<log, rebalancing, ended, assigned, topics, history>>

\* records.next() of a record that is no bond: it goes to the DLQ, and the loop
\* waits for that.
DeliverMalformed(p) ==
  /\ pc = "read" /\ p \in assigned /\ pos[p] < LogLen
  /\ log[<<p, pos[p]>>] = Malformed
  /\ pos' = [pos EXCEPT ![p] = @ + 1]
  /\ stored' = [stored EXCEPT ![p] = pos[p] + 1]
  /\ flight' = [flight EXCEPT !.letter = {<<p, pos[p]>>}]
  /\ pc' = "dead_letter"
  /\ UNCHANGED <<log, rebalancing, st, since, seeking, ended, assigned, topics, history>>

\* The dead letter is acknowledged, and its record counted.
DeadLettered ==
  /\ pc = "dead_letter"
  /\ dlq' = dlq \cup flight.letter
  /\ AfterRecord([st EXCEPT !.consumed = @ + 1], since + 1)
  /\ UNCHANGED <<log, rebalancing, ended, client, committed, outputs, counted, history>>

EarliestAtLeast(ts) == IF ts > 0 THEN ts ELSE 0

\* offsets_for_times and seek, when the partition is still assigned; a seek
\* resets the stored position.
Seek ==
  /\ pc = "seek"
  /\ LET p == seeking.partition IN
     IF p \in assigned
     THEN /\ pos' = [pos EXCEPT ![p] = EarliestAtLeast(seeking.from)]
          /\ stored' = [stored EXCEPT ![p] = None]
          /\ seeks' = [seeks EXCEPT ![seeking.bonder] = @ + 1]
     ELSE UNCHANGED <<pos, stored, seeks>>
  /\ seeking' = NoSeek
  /\ FlushIfReady(st, since)
  /\ UNCHANGED <<log, rebalancing, ended, assigned, topics, gone, uncounted, faults>>

\* The lookup or the seek fails: a fault metric, and no replay.
SeekFails ==
  /\ pc = "seek"
  /\ Fault
  /\ seeking' = NoSeek
  /\ FlushIfReady(st, since)
  /\ UNCHANGED <<log, rebalancing, ended, client, topics, seeks, gone, uncounted>>

SendOutputs ==
  /\ pc = "send"
  /\ outputs' = outputs \cup Contents(flight.windows)
  /\ flight' = [flight EXCEPT !.windows = <<>>]
  /\ pc' = "metrics"
  /\ UNCHANGED <<log, rebalancing, st, since, seeking, ended, client, committed, dlq, counted, history>>

\* `let _ = send_batch(METRICS_TOPIC, ...)`.
SendMetrics ==
  /\ pc = "metrics"
  /\ \/ counted' = counted + flight.consumed /\ UNCHANGED <<uncounted, faults>>
     \/ Fault /\ uncounted' = TRUE /\ UNCHANGED counted
  /\ flight' = NoFlight
  /\ pc' = "commit"
  /\ UNCHANGED <<log, rebalancing, st, since, seeking, ended, client, committed, outputs, dlq, seeks, gone>>

InMemory == Contents(st.pending) \cup Contents(flight.windows)
              \cup UNION {st.window[b].records : b \in Bonders}

\* The process exits; its memory is lost.
Exit ==
  /\ pc' = "down" /\ rb' = NoEvent /\ granted' = {} /\ answerer' = "nobody" /\ st' = Fresh
  /\ since' = 0 /\ seeking' = NoSeek /\ flight' = NoFlight /\ ended' = FALSE
  /\ assigned' = {} /\ stored' = [p \in Partitions |-> None]
  /\ pos' = [p \in Partitions |-> 0]
  /\ gone' = gone \cup {r \in InMemory : r[2] < committed'[r[1]]}
  /\ seeks' = [b \in Bonders |-> 0]
  /\ uncounted' = TRUE
  /\ UNCHANGED log

StoredPositions ==
  [p \in Partitions |-> IF p \in assigned /\ stored[p] # None THEN stored[p] ELSE committed[p]]

\* commit([]), and after the last flush of an ended stream the exit.
Commit ==
  /\ pc = "commit"
  /\ committed' = StoredPositions
  /\ \/ ended /\ Exit
     \/ /\ ~ended /\ pc' = "read"
        /\ UNCHANGED <<log, rebalancing, st, since, seeking, flight, ended, client>>
        /\ UNCHANGED <<seeks, gone, uncounted>>
  /\ UNCHANGED <<outputs, dlq, counted, faults>>

\* A retriable failure: the next flush commits.
CommitDeferred ==
  /\ pc = "commit" /\ ~ended
  /\ Fault
  /\ pc' = "read"
  /\ UNCHANGED <<log, rebalancing, st, since, seeking, flight, ended, client, topics, seeks, gone, uncounted>>

\* Any other ends the process; it may have been applied.
CommitFails ==
  /\ pc = "commit"
  /\ Fault
  /\ committed' \in {committed, StoredPositions}
  /\ Exit
  /\ UNCHANGED <<outputs, dlq, counted>>

SendFailsIgnored ==            \* mutant: the commit follows a failed send
  /\ pc = "send"
  /\ Fault
  /\ flight' = [flight EXCEPT !.windows = <<>>]
  /\ pc' = "metrics"
  /\ UNCHANGED <<log, rebalancing, st, since, seeking, ended, client, topics, seeks, gone, uncounted>>

\* A failed output ends the process; outputs of the batch may be there.
SendFails ==
  /\ pc = "send"
  /\ Fault
  /\ outputs' \in {outputs, outputs \cup Contents(flight.windows)}
  /\ UNCHANGED <<committed, dlq, counted>>
  /\ Exit

\* The process dies anywhere.
Crash ==
  /\ pc # "down"
  /\ Fault
  /\ UNCHANGED topics
  /\ Exit

\* A failed dead letter ends the process; it may be on the DLQ.
DeadLetterFails ==
  /\ pc = "dead_letter"
  /\ Fault
  /\ dlq' \in {dlq, dlq \cup flight.letter}
  /\ UNCHANGED <<committed, outputs, counted>>
  /\ Exit

\* The stream ends: a last flush, whose failures change nothing.
StreamEnds ==
  /\ pc = "read"
  /\ Fault
  /\ ended' = TRUE
  /\ TakeWindows(st)
  /\ UNCHANGED <<log, rebalancing, since, seeking, client, topics, seeks, gone, uncounted>>

\* The supervisor starts the service: open, rebalances, subscribe, records.
Open ==
  /\ pc = "down"
  /\ pc' = "read" /\ answerer' = "loop"
  /\ UNCHANGED <<log, rb, granted, st, since, seeking, flight, ended, client, topics, history>>

\* rebalances() fails, which stops nothing: no rebalance_loop is spawned, and
\* the client falls back to assigning by itself, or waits for answers that do
\* not come.
OpenUnanswered ==
  /\ pc = "down"
  /\ Fault
  /\ pc' = "read" /\ answerer' \in {"client", "nobody"}
  /\ UNCHANGED <<log, rb, granted, st, since, seeking, flight, ended, client, topics>>
  /\ UNCHANGED <<seeks, gone, uncounted>>

(***************************************************************************)
(* The group's events and their answers.                                   *)
(***************************************************************************)

Up == pc # "down" /\ ~ended

\* The client takes partitions up, each at its committed position, or gives
\* them up.
Take(parts) ==
  /\ assigned' = assigned \cup parts
  /\ pos' = [p \in Partitions |-> IF p \in parts THEN committed[p] ELSE pos[p]]
  /\ stored' = [p \in Partitions |-> IF p \in parts THEN None ELSE stored[p]]

GiveUp(parts) ==
  /\ assigned' = assigned \ parts
  /\ stored' = [p \in Partitions |-> IF p \in parts THEN None ELSE stored[p]]
  /\ UNCHANGED pos

\* assign: nothing to close.
AssignEvent ==
  /\ Up /\ answerer = "loop" /\ rb = NoEvent
  /\ \E parts \in SUBSET (Partitions \ granted) \ {{}} :
       rb' = [kind |-> "assign", parts |-> parts] /\ granted' = granted \cup parts
  /\ UNCHANGED <<log, pc, answerer, st, since, seeking, flight, ended, client, topics, history>>

\* revoke or lost: the windows opened on these partitions close first.
RevokeEvent ==
  /\ Up /\ answerer = "loop" /\ rb = NoEvent
  /\ Fault
  /\ \E parts \in SUBSET granted \ {{}} :
     LET bs == {b \in Bonders : IsOpen(st, b) /\ st.window[b].partition \in parts} IN
     /\ rb' = [kind |-> "revoke", parts |-> parts] /\ granted' = granted \ parts
     /\ \E v \in [bs -> {"healthy", "off", "nsop"}] :
          /\ \A b \in bs : v[b] \in Verdicts(st, b)
          /\ st' = Close(st, bs, [b \in bs |-> st.window[b].start + WindowMs], v)
  /\ UNCHANGED <<log, pc, answerer, since, seeking, flight, ended, client, topics>>
  /\ UNCHANGED <<seeks, gone, uncounted>>

\* incremental_assign.
Assign ==
  /\ Up /\ rb.kind = "assign"
  /\ Take(rb.parts)
  /\ rb' = NoEvent
  /\ UNCHANGED <<log, pc, granted, answerer, st, since, seeking, flight, ended, topics, history>>

UnassignLast ==                \* mutant: the loop ends with the first revocation
  /\ Up /\ rb.kind = "revoke"
  /\ GiveUp(rb.parts)
  /\ UNCHANGED <<log, pc, rebalancing, st, since, seeking, flight, ended, topics, history>>

\* incremental_unassign.  Until then the stream may hand out records of the
\* partitions, which open new windows.
Unassign ==
  /\ Up /\ rb.kind = "revoke"
  /\ GiveUp(rb.parts)
  /\ rb' = NoEvent
  /\ UNCHANGED <<log, pc, granted, answerer, st, since, seeking, flight, ended, topics, history>>

\* Either call fails, the first also over a partition the client never gave up:
\* a metric says so and the loop goes on to the next event.
AnswerFails ==
  /\ Up /\ rb # NoEvent
  /\ Fault \/ (rb.kind = "assign" /\ rb.parts \cap assigned # {} /\ UNCHANGED faults)
  /\ rb' = NoEvent
  /\ UNCHANGED <<log, pc, granted, answerer, st, since, seeking, flight, ended, client, topics>>
  /\ UNCHANGED <<seeks, gone, uncounted>>

\* Without rebalance_loop the client assigns by itself, and a revocation passes
\* unobserved: the windows on its partitions stay open.
ClientAssigns ==
  /\ Up /\ answerer = "client"
  /\ \E parts \in SUBSET (Partitions \ granted) \ {{}} :
       Take(parts) /\ granted' = granted \cup parts
  /\ UNCHANGED <<log, pc, rb, answerer, st, since, seeking, flight, ended, topics, history>>

ClientRevokes ==
  /\ Up /\ answerer = "client"
  /\ Fault
  /\ \E parts \in SUBSET granted \ {{}} :
       GiveUp(parts) /\ granted' = granted \ parts
  /\ UNCHANGED <<log, pc, rb, answerer, st, since, seeking, flight, ended, topics>>
  /\ UNCHANGED <<seeks, gone, uncounted>>

RecordLoop ==
  \/ \E p \in Partitions : Deliver(p) \/ DeliverMalformed(p)
  \/ DeadLettered \/ Seek \/ SendOutputs \/ SendMetrics \/ Commit \/ Open

RebalanceLoop == AssignEvent \/ Assign \/ Unassign \/ ClientAssigns

Next ==
  \/ RecordLoop \/ RebalanceLoop
  \/ SeekFails \/ DeadLetterFails \/ SendFails \/ CommitDeferred \/ CommitFails
  \/ StreamEnds \/ Crash \/ OpenUnanswered \/ RevokeEvent \/ AnswerFails \/ ClientRevokes

Spec == Init /\ [][Next]_vars

\* Both tasks and the supervisor go on; failures are owed to nobody.
FairSpec == Spec /\ WF_vars(RecordLoop) /\ WF_vars(RebalanceLoop)

(***************************************************************************)
(* Properties.                                                             *)
(***************************************************************************)

Bonds == {r \in Records : log[r] \in Bonders}

\* Below a committed position every bond is in an output, or the live process
\* still holds it, or a process died holding it; every malformed record is on
\* the DLQ.  Nothing else makes a record disappear: no seek, no revocation in
\* the middle of a flush, no deferred commit.
NothingVanishes ==
  \A r \in Records : r[2] < committed[r[1]] =>
    /\ r \in Bonds => r \in outputs \cup InMemory \cup gone
    /\ log[r] = Malformed => r \in dlq

\* "committed explicitly after a window's outputs are acked ... a crash between
\* produce and commit replays the records" (lib.rs:8, 18-19): what a restart
\* will not read again is in an acknowledged output.
CrashReplays ==
  pc = "down" => \A r \in Bonds : r[2] < committed[r[1]] => r \in outputs

\* "once per bonder, guarded by a replayed flag so it cannot loop" (lib.rs:10-11).
ReplayCannotLoop == \A b \in Bonders : seeks[b] <= 1

\* "anything at or below is a replay" (90): over the seeks, rebalances and
\* deferred commits of one process, `consumed` counts each bond once.  Records
\* that are no bonds have no such mark: they count each time they are handed
\* out, which is once until something rewinds the partition, and a malformed
\* one counts although its dead letter is counted too (409), so that the sum of
\* validate.sh:156-158 runs over by the number of them.
CountsOnce ==
  ~uncounted =>
    LET sum    == counted + flight.consumed + st.consumed
        bonds  == {r \in Bonds : r[2] <= st.highWater[r[1]]}
        others == {r \in Records \ Bonds : r[2] < pos[r[1]]} \ flight.letter
    IN  /\ Records = Bonds => sum = Cardinality(bonds)
        /\ sum >= Cardinality(bonds \cup others)
        /\ faults = 0 /\ (\A b \in Bonders : seeks[b] = 0) =>
             sum = Cardinality(bonds \cup others)

\* A process that runs without having been able to read the partition: a
\* failed answer left it out, which the group does not learn, or there is
\* nobody to answer the group.
Stranded(p) ==
  /\ pc # "down"
  /\ answerer = "nobody" \/ (rb = NoEvent /\ p \in granted \ assigned)

\* Seeks, revocations and failures end, and the station reads its topic out,
\* but for what a failed incremental_assign (352-353, "applied": false) or a
\* failed rebalances() (377) leaves stranded: the loop goes on as if nothing
\* had happened, and nothing gives the partition back but another rebalance or
\* a restart.  No other failure keeps a partition from being read.
Drains == \A p \in Partitions : <>[](pos[p] = LogLen) \/ <>[]Stranded(p)

(***************************************************************************)
(* The inductive invariant.                                                *)
(***************************************************************************)

LoopInv ==
  /\ (pc = "dead_letter") <=> (flight.letter # {})
  /\ \A r \in flight.letter : log[r] = Malformed
  /\ (pc = "seek") <=> (seeking # NoSeek)
  /\ pc # "send" => flight.windows = <<>>
  /\ pc \notin {"send", "metrics"} => flight.consumed = 0
  /\ pc # "seek" => since < BatchSize
  /\ \A p \in Partitions : stored[p] # None => stored[p] = pos[p]

\* An open window has the partition of its bonder; a replay goes to a record.
WindowInv ==
  /\ st.replayed \subseteq st.known
  /\ \A b \in Bonders : IsOpen(st, b) =>
       /\ st.window[b].partition \in Partitions
       /\ \A r \in Records : log[r] = b => r[1] = st.window[b].partition
  /\ \A s \in {st.seek, seeking} : s.from < LogLen \/ s = NoSeek

\* The replays of a bonder: done, asked for, and being sought.
ReplayInv ==
  \A b \in Bonders :
    seeks[b] + (IF st.seek.bonder = b THEN 1 ELSE 0) + (IF seeking.bonder = b THEN 1 ELSE 0)
      <= (IF b \in st.replayed THEN 1 ELSE 0)

\* The records in front of something the loops may yet move a position to.
Passed ==
  {r \in Records :
     \/ r[2] < pos[r[1]] \/ r[2] < committed[r[1]]
     \/ \E s \in {st.seek, seeking} : s.partition = r[1] /\ r[2] < s.from
     \/ \E b \in Bonders : st.window[b].partition = r[1] /\ r[2] < st.window[b].start}

Held ==
  {r \in Records : /\ r \in Bonds => r \in outputs \cup InMemory \cup gone
                   /\ log[r] = Malformed => r \in dlq \cup flight.letter}

\* The records a sum of `consumed` has counted: bonds at their mark, the others
\* when they are handed out.
Marked == {r \in Bonds : r[2] <= st.highWater[r[1]]}
Sum == counted + flight.consumed + st.consumed

CountInv ==
  ~uncounted =>
    /\ Records = Bonds => Passed \subseteq Marked /\ Sum = Cardinality(Marked)
    /\ \E X \in SUBSET Records :
         Passed \cup Marked \subseteq X \cup flight.letter /\ Cardinality(X) <= Sum
    /\ faults = 0 =>
         /\ answerer # "client" /\ assigned \subseteq granted
         /\ rb.kind # "revoke"
         /\ rb.kind = "assign" => rb.parts \cap assigned = {} /\ rb.parts \subseteq granted
         /\ \A p \in Partitions \ assigned : pos[p] = 0 /\ committed[p] = 0
         /\ (\A b \in Bonders : seeks[b] = 0) =>
              /\ Marked = {r \in Bonds : r[2] < pos[r[1]]}
              /\ flight.letter \subseteq {r \in Records : r[2] < pos[r[1]]}
              /\ Sum = Cardinality({r \in Records : r[2] < pos[r[1]]} \ flight.letter)

Inv == TypeOK /\ LoopInv /\ WindowInv /\ ReplayInv /\ NothingVanishes
         /\ Passed \subseteq Held /\ CountInv
=============================================================================
