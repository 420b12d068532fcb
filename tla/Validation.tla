----------------------------- MODULE Validation -----------------------------
(***************************************************************************)
(* scripts/validate.sh at work on the line: it stops the simulator's loop  *)
(* over sim.control, waits until every consumer group's lag is within its  *)
(* limit, fetches the dashboard's counts, and starts the loop again.       *)
(*                                                                         *)
(* The script, the simulator's control reader and its tick loop are three  *)
(* processes: the stop is a record like any other, which the reader acts   *)
(* on first and commits next, while a tick that began before goes on.      *)
(***************************************************************************)
EXTENDS LineDashboard, SequencesExt, FiniteSetsExt

CONSTANTS MaxRounds,       \* rounds of the drain loop (validate.sh: 80)
          DashboardSlack,  \* the dashboard's lag limit (validate.sh: 6)
          ScriptRewinds    \* bound: of MaxRewinds, when the script is run at all

ASSUME ValidationAssumption ==
  MaxRounds \in Nat \ {0} /\ {DashboardSlack, ScriptRewinds} \subseteq Nat

VARIABLES
  controls,    \* sim.control: the stop and the start
  acted,       \* the records the control reader acted on
  committed,   \* its committed offset
  script       \* validate.sh; disturbed (history): its stop was never queued, or
               \* the simulator was restarted since

validation == <<controls, acted, committed, script>>
everything == <<vars, validation>>

\* GROUPS_TO_CHECK, in the order the lags are read.
GroupsToCheck == <<"simulator", "station", "dashboard">>

Lag(g) ==
  CASE g = "simulator" -> Len(controls) - committed
    [] g = "station"   -> produced - position
    [] g = "dashboard" -> MapThenSumSet(LAMBDA f : Len(feed[f]) - saved[f], Feeds)

LagLimit(g) == IF g = "dashboard" THEN DashboardSlack ELSE 0

ValidationInit ==
  /\ Init
  /\ controls = <<>> /\ acted = 0 /\ committed = 0
  /\ script \in [pc : {"idle", "absent"}, next : {1}, round : {1}, within : {{}},
                 resume : {FALSE}, disturbed : {FALSE}]

(***************************************************************************)
(* The simulator's control reader.                                         *)
(***************************************************************************)

Act ==
  /\ acted = committed /\ acted < Len(controls)
  /\ acted' = acted + 1
  /\ running' = (controls[acted'] = "start")
  /\ UNCHANGED <<malformed, ranged, tick, unreported, produced, position, feed, observers,
                 rewinds, blurred, controls, committed, script>>

CommitFetched ==               \* mutant: commits what it was handed, acted on or not
  /\ committed < Len(controls)
  /\ committed' = Len(controls) /\ acted' = Len(controls)
  /\ UNCHANGED <<vars, controls, script>>

CommitControl ==
  /\ committed < acted
  /\ committed' = acted
  /\ UNCHANGED <<vars, controls, acted, script>>

\* A restarted simulator runs its loop, and reads on from the committed offset.
Restart ==
  /\ SimRestarts
  /\ acted' = committed
  /\ script' = [script EXCEPT !.disturbed = script.pc # "idle"]
  /\ UNCHANGED <<controls, committed>>

(***************************************************************************)
(* validate.sh                                                             *)
(***************************************************************************)

Queue(record) == controls' = Append(controls, record)

\* was_running is the dashboard's last heartbeat, which may be old or missing.
\* A stop that fails is ignored (|| true).
Pause ==
  /\ script.pc = "idle"
  /\ \E resume, fails \in BOOLEAN :
       /\ script' = [script EXCEPT !.pc = "drain", !.resume = resume, !.disturbed = fails]
       /\ IF fails THEN UNCHANGED controls ELSE Queue("stop")
  /\ UNCHANGED <<vars, acted, committed>>

ReadLagAny ==                  \* mutant: the simulator's group is not waited for
  /\ script.pc = "drain" /\ script.next <= Len(GroupsToCheck)
  /\ LET g == GroupsToCheck[script.next] IN
       script' = [script EXCEPT !.next = @ + 1,
                    !.within = IF g = "simulator" \/ Lag(g) <= LagLimit(g) THEN @ \cup {g} ELSE @]
  /\ UNCHANGED <<vars, controls, acted, committed>>

\* group_lag of the next group (one without a member reads as behind, as one
\* that lags does).
ReadLag ==
  /\ script.pc = "drain" /\ script.next <= Len(GroupsToCheck)
  /\ LET g == GroupsToCheck[script.next] IN
       script' = [script EXCEPT !.next = @ + 1,
                    !.within = IF Lag(g) <= LagLimit(g) THEN @ \cup {g} ELSE @]
  /\ UNCHANGED <<vars, controls, acted, committed>>

AllWithin == script.within = ToSet(GroupsToCheck)

RoundEndsWhenDrained ==        \* mutant: no limit on the rounds
  /\ script.pc = "drain" /\ script.next > Len(GroupsToCheck)
  /\ script' = IF AllWithin THEN [script EXCEPT !.pc = "fetch"]
               ELSE [script EXCEPT !.next = 1, !.within = {}]
  /\ UNCHANGED <<vars, controls, acted, committed>>

\* Drained, or out of rounds: the lags last read are the ones reported.
RoundEnds ==
  /\ script.pc = "drain" /\ script.next > Len(GroupsToCheck)
  /\ script' = IF AllWithin \/ script.round = MaxRounds THEN [script EXCEPT !.pc = "fetch"]
               ELSE [script EXCEPT !.next = 1, !.within = {}, !.round = @ + 1]
  /\ UNCHANGED <<vars, controls, acted, committed>>

\* GET /validate, the verdict, and the start; or the dashboard does not answer
\* and the script dies there, as it does when the start cannot be produced.
Resume ==
  /\ script.pc = "fetch"
  /\ script' = [script EXCEPT !.pc = "done"]
  /\ IF script.resume THEN Queue("start") ELSE UNCHANGED controls
  /\ UNCHANGED <<vars, acted, committed>>

Die ==
  /\ script.pc = "fetch"
  /\ script' = [script EXCEPT !.pc = "died"]
  /\ UNCHANGED <<vars, controls, acted, committed>>

Bounded == script.pc # "absent" => rewinds' <= ScriptRewinds

Script == Pause \/ ReadLag \/ RoundEnds \/ Resume \/ Die

ValidationNext ==
  \/ LineNext /\ UNCHANGED validation /\ Bounded
  \/ Act \/ CommitControl
  \/ Restart /\ Bounded
  \/ Script

Spec == ValidationInit /\ [][ValidationNext]_everything

\* bash runs on to its end, and the control reader reads.  Nothing is asked of
\* the line or the dashboard.
FairSpec ==
  Spec /\ WF_everything(Script) /\ WF_everything(Act) /\ WF_everything(CommitControl)

(***************************************************************************)
(* Properties.                                                             *)
(***************************************************************************)

\* "The loop is paused while the numbers are read so they are a snapshot, not a
\* race" (validate.sh:10-12): when the drain ended because every lag was within
\* its limit, the loop is off, for the reader commits the stop only after it
\* acted on it.  Not so when the stop was never queued, nor when the simulator
\* was restarted, which turns its loop on.
StopHolds ==
  script.pc = "fetch" /\ AllWithin /\ ~script.disturbed => ~running

\* "and resumed afterwards" (validate.sh:11): a loop the script stopped and saw
\* running runs again, whether or not the line ever drains.  Only a script that
\* died at /validate, or could not produce the start, leaves it off.
Resumes == script.resume /\ ~running ~> running \/ script.pc = "died"

(***************************************************************************)
(* The inductive invariant: the stop is a record the reader commits after  *)
(* it acted on it, and until the script is done it is the only one.        *)
(***************************************************************************)

ScriptTypeOK ==
  /\ controls \in Seq({"stop", "start"})
  /\ committed \in Nat /\ acted \in committed .. committed + 1 /\ acted <= Len(controls)
  /\ script \in [pc : {"idle", "absent", "drain", "fetch", "done", "died"},
                 next : 1 .. Len(GroupsToCheck) + 1, round : 1 .. MaxRounds,
                 within : SUBSET ToSet(GroupsToCheck), resume : BOOLEAN, disturbed : BOOLEAN]

StopInv ==
  /\ script.pc \in {"idle", "absent"} => controls = <<>> /\ script.within = {}
  /\ script.pc \in {"drain", "fetch"} /\ ~script.disturbed =>
       /\ controls = <<"stop">>
       /\ acted = 1 => ~running
       /\ "simulator" \in script.within => committed = 1

Inv == LineInv /\ ScriptTypeOK /\ StopInv
=============================================================================
