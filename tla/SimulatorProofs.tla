--------------------------- MODULE SimulatorProofs ---------------------------
(***************************************************************************)
(* Theorems about the simulator: ids on the topics are unique and stay on  *)
(* their topics' loop, the produced counts are exact, frames are in order, *)
(* overlays play whole; for any catalog, any controls at any moment, any   *)
(* failures and restarts.                                                  *)
(***************************************************************************)
EXTENDS Simulator, TLAPS, FiniteSetTheorems

\* A finite set has finitely many images.
LEMMA FiniteImage ==
  ASSUME NEW S, IsFiniteSet(S), NEW T, NEW f \in [S -> T], \A t \in T : \E x \in S : f[x] = t
  PROVE  IsFiniteSet(T)
<1>1. f \in Surjection(S, T)
  BY DEF Surjection
<1>. QED  BY <1>1, FS_Surjection

(***************************************************************************)
(* The State: what commands and advance() do to it.                        *)
(***************************************************************************)

StateOK(s) ==
  /\ s \in States /\ s.frame < Frames[s.scenario] /\ IsFiniteSet(s.overlays)
  /\ \A o \in s.overlays :
       o.frame < Frames[o.name] /\ \A x \in s.overlays : x.name = o.name => x = o

\* n is s with the loop where it is, or at the start of the next pass.
SamePass(n, s) == n.passes = s.passes /\ n.frame = s.frame /\ n.scenario = s.scenario
NextPass(n, s) == n.passes = s.passes + 1 /\ n.frame = 0

\* n is s with the overlays as they are, or with one more, not playing before.
SameOverlays(n, s) == n.played = s.played /\ n.overlays = s.overlays
OneMore(n, s, name) ==
  /\ n.played = s.played + 1 /\ ~Playing(s, name)
  /\ n.overlays = s.overlays \cup {[name |-> name, frame |-> 0]}

\* What a command does: a new pass, a new overlay, or neither.
LEMMA AppliedEffect ==
  \A s, c : StateOK(s) /\ c \in Commands =>
    /\ StateOK(Applied(s, c))
    /\ ~(c.cmd = "play" /\ ~Playing(s, c.scenario)) =>
         /\ SameOverlays(Applied(s, c), s)
         /\ SamePass(Applied(s, c), s) \/ NextPass(Applied(s, c), s)
    /\ c.cmd = "play" /\ ~Playing(s, c.scenario) =>
         /\ c.scenario \in Overlays /\ OneMore(Applied(s, c), s, c.scenario)
         /\ SamePass(Applied(s, c), s)
<1>. TAKE s, c
<1>. HAVE StateOK(s) /\ c \in Commands
<1>. DEFINE n == Applied(s, c)
<1>1. s \in States
  BY DEF StateOK
<1>2. CASE c.cmd = "stop"
  <2>1. n = [s EXCEPT !.running = FALSE]
    BY <1>2 DEF Applied
  <2>. QED  BY <1>1, <1>2, <2>1 DEF StateOK, States, SamePass, SameOverlays
<1>3. CASE c.cmd = "ignored"
  <2>1. n = s
    BY <1>3 DEF Applied
  <2>. QED  BY <1>3, <2>1 DEF SamePass, SameOverlays
<1>4. CASE c.cmd = "rate"
  <2>1. n = [s EXCEPT !.rate = c.n] /\ c.n \in Rates
    BY <1>4 DEF Applied, Commands
  <2>. QED  BY <1>1, <1>4, <2>1 DEF StateOK, States, SamePass, SameOverlays
<1>5. CASE c.cmd = "loop"
  <2>1. n = LoopTo(s, c.scenario) /\ c.scenario \in Loops
    BY <1>5 DEF Applied, Commands
  <2>2. CASE n = s
    BY <1>5, <2>2 DEF SamePass, SameOverlays
  <2>3. CASE n # s
    <3>1. n = [s EXCEPT !.running = TRUE, !.scenario = c.scenario, !.frame = 0, !.passes = @ + 1]
      BY <2>1, <2>3 DEF LoopTo
    <3>2. 0 < Frames[c.scenario]
      BY <2>1, CatalogAssumption DEF Scenarios
    <3>3. s.passes \in Nat /\ s.passes + 1 \in Nat \ {0}
      BY <1>1 DEF States
    <3>4. /\ n.frame = 0 /\ n.scenario = c.scenario /\ n.passes = s.passes + 1
          /\ n.overlays = s.overlays /\ n.played = s.played
      BY <1>1, <3>1 DEF States
    <3>5. n \in States
      <4>1. \A m \in States : [m EXCEPT !.running = TRUE, !.scenario = c.scenario, !.frame = 0] \in States
        BY <2>1 DEF States
      <4>. DEFINE m == [s EXCEPT !.running = TRUE, !.scenario = c.scenario, !.frame = 0]
      <4>2. m \in States /\ m.passes = s.passes
        BY <1>1, <4>1 DEF States
      <4>3. n = [m EXCEPT !.passes = s.passes + 1]
        BY <1>1, <3>1 DEF States
      <4>. HIDE DEF m, n
      <4>. QED  BY <3>3, <4>2, <4>3 DEF States
    <3>6. StateOK(n)
      BY <3>2, <3>4, <3>5 DEF StateOK
    <3>. QED  BY <1>5, <3>4, <3>6 DEF NextPass, SameOverlays
  <2>. QED  BY <2>2, <2>3
<1>6. CASE c.cmd = "play"
  <2>1. n = Play(s, c.scenario) /\ c.scenario \in Overlays
    BY <1>6 DEF Applied, Commands
  <2>2. CASE Playing(s, c.scenario)
    BY <1>6, <2>1, <2>2 DEF Play, SamePass, SameOverlays
  <2>3. CASE ~Playing(s, c.scenario)
    <3>. DEFINE o == [name |-> c.scenario, frame |-> 0]
    <3>1. n = [s EXCEPT !.overlays = @ \cup {o}, !.played = @ + 1]
      BY <2>1, <2>3 DEF Play
    <3>2. o \in [name : Overlays, frame : Nat] /\ 0 < Frames[o.name] /\ o.frame = 0
      BY <2>1, CatalogAssumption DEF Scenarios
    <3>3. \A x \in s.overlays : x.name # o.name
      BY <2>3 DEF Playing
    <3>. HIDE DEF o
    <3>4. /\ n.frame = s.frame /\ n.scenario = s.scenario /\ n.passes = s.passes
          /\ n.overlays = s.overlays \cup {o} /\ n.played = s.played + 1
      BY <1>1, <3>1 DEF States
    <3>7. s.overlays \cup {o} \in SUBSET [name : Overlays, frame : Nat] /\ s.played + 1 \in Nat
      BY <1>1, <3>2 DEF States
    <3>8. n \in States
      BY <1>1, <3>1, <3>7 DEF States
    <3>5. IsFiniteSet(n.overlays)
      BY <3>4, FS_AddElement DEF StateOK
    <3>6. StateOK(n)
      BY <3>2, <3>3, <3>4, <3>5, <3>8 DEF StateOK
    <3>. QED  BY <1>6, <2>1, <2>3, <3>4, <3>6 DEF OneMore, SamePass, o
  <2>. QED  BY <2>2, <2>3
<1>. QED  BY <1>2, <1>3, <1>4, <1>5, <1>6 DEF Commands

\* Overlays a frame on: those with a frame left, at that.
StepsOn(n, s) ==
  /\ n.played = s.played
  /\ \A x \in n.overlays : \E o \in s.overlays : x.name = o.name /\ x.frame = o.frame + 1
  /\ \A o \in s.overlays : o.frame + 1 < Frames[o.name] =>
       \E x \in n.overlays : x.name = o.name /\ x.frame = o.frame + 1

\* advance() takes the loop to its next frame or its next pass, and the overlays
\* to their next frames.
LEMMA AdvanceEffect ==
  \A s : StateOK(s) =>
    /\ StateOK(Advance(s)) /\ StepsOn(Advance(s), s)
    /\ \/ /\ Advance(s).passes = s.passes /\ Advance(s).frame = s.frame + 1
          /\ Advance(s).scenario = s.scenario
       \/ NextPass(Advance(s), s)
<1>. TAKE s
<1>. HAVE StateOK(s)
<1>. DEFINE l == AdvanceLoop(s)
            n == Advance(s)
<1>1. s \in States /\ Frames[s.scenario] \in Nat /\ Then \in [Loops -> Loops] /\ s.scenario \in Loops
  BY CatalogAssumption DEF StateOK, States, Scenarios
<1>2. /\ l \in States /\ l.overlays = s.overlays /\ l.played = s.played /\ l.frame < Frames[l.scenario]
      /\ \/ l.passes = s.passes /\ l.frame = s.frame + 1 /\ l.scenario = s.scenario
         \/ NextPass(l, s)
  <2>1. CASE s.frame + 1 < Frames[s.scenario]
    <3>1. l = [s EXCEPT !.frame = @ + 1]
      BY <2>1 DEF AdvanceLoop
    <3>. QED  BY <1>1, <2>1, <3>1 DEF States
  <2>2. CASE ~(s.frame + 1 < Frames[s.scenario])
    <3>1. l = [s EXCEPT !.frame = 0, !.passes = @ + 1, !.scenario = Then[@]]
      BY <2>2 DEF AdvanceLoop
    <3>2. Then[s.scenario] \in Loops /\ 0 < Frames[Then[s.scenario]]
      <4>1. Then[s.scenario] \in Loops
        BY <1>1
      <4>. QED  BY <4>1, CatalogAssumption DEF Scenarios
    <3>3. s.passes + 1 \in Nat \ {0}
      BY <1>1 DEF States
    <3>4. l \in States
      <4>. DEFINE k == Then[s.scenario]
                  m == [s EXCEPT !.frame = 0, !.scenario = k]
      <4>1. m \in States
        <5>. HIDE DEF k
        <5>1. k \in Loops
          BY <3>2 DEF k
        <5>. QED  BY <1>1, <5>1 DEF States
      <4>2. l = [m EXCEPT !.passes = s.passes + 1]
        BY <1>1, <3>1 DEF States
      <4>. HIDE DEF m, l
      <4>. QED  BY <3>3, <4>1, <4>2 DEF States
    <3>5. /\ l.overlays = s.overlays /\ l.played = s.played /\ l.frame = 0
          /\ l.scenario = Then[s.scenario] /\ l.passes = s.passes + 1
      BY <1>1, <3>1 DEF States
    <3>. QED  BY <3>2, <3>4, <3>5 DEF NextPass
  <2>. QED  BY <2>1, <2>2
<1>. DEFINE kept == {x \in s.overlays : x.frame + 1 < Frames[x.name]}
            moved == {[o EXCEPT !.frame = @ + 1] : o \in kept}
<1>. HIDE DEF l
<1>3. n = [l EXCEPT !.overlays = moved]
  BY <1>2 DEF Advance, AdvanceOverlays, l
<1>4. \A o \in s.overlays : o \in [name : Overlays, frame : Nat]
  BY <1>1 DEF States
<1>5. \A o \in kept : LET x == [o EXCEPT !.frame = @ + 1] IN
        x \in [name : Overlays, frame : Nat] /\ x.name = o.name /\ x.frame = o.frame + 1
  BY <1>4
<1>6. moved \in SUBSET [name : Overlays, frame : Nat]
  BY <1>5
<1>7. IsFiniteSet(moved)
  <2>1. IsFiniteSet(kept)
    <3>1. IsFiniteSet(s.overlays) /\ kept \in SUBSET s.overlays
      BY DEF StateOK
    <3>. QED  BY <3>1, FS_Subset
  <2>. DEFINE f == [o \in kept |-> [o EXCEPT !.frame = @ + 1]]
  <2>2. f \in [kept -> moved] /\ \A x \in moved : \E o \in kept : f[o] = x
    OBVIOUS
  <2>. HIDE DEF kept, moved, f
  <2>. QED  BY <2>1, <2>2, FiniteImage
<1>8. \A x \in moved : \E o \in kept : x.name = o.name /\ x.frame = o.frame + 1
  BY <1>5
<1>9. \A o \in kept : \E x \in moved : x.name = o.name /\ x.frame = o.frame + 1
  BY <1>5
<1>. HIDE DEF moved
<1>10. /\ n \in States /\ n.overlays = moved /\ n.played = s.played
       /\ n.frame = l.frame /\ n.scenario = l.scenario /\ n.passes = l.passes
  BY <1>2, <1>3, <1>6 DEF States
<1>11. StepsOn(n, s)
  BY <1>8, <1>9, <1>10 DEF StepsOn
<1>12. \A x \in moved : x.frame < Frames[x.name] /\ \A y \in moved : y.name = x.name => y = x
  <2>. TAKE x \in moved
  <2>1. PICK o \in kept : x.name = o.name /\ x.frame = o.frame + 1
    BY <1>8
  <2>2. \A y \in moved : y.name = x.name => y = x
    <3>. TAKE y \in moved
    <3>. HAVE y.name = x.name
    <3>1. PICK p \in kept : y.name = p.name /\ y.frame = p.frame + 1
      BY <1>8
    <3>2. p = o
      BY <2>1, <3>1 DEF StateOK
    <3>. QED  BY <1>6, <2>1, <3>1, <3>2
  <2>. QED  BY <2>1, <2>2
<1>13. StateOK(n)
  BY <1>2, <1>7, <1>10, <1>12 DEF StateOK
<1>. QED  BY <1>2, <1>10, <1>11, <1>13 DEF NextPass

(***************************************************************************)
(* Stamps: which records a frame sends, and which can come again.          *)
(***************************************************************************)

\* What a record of the frame that s is at looks like.
OfFrame(r, s, t) ==
  /\ r.line.topic = t /\ r.epoch = epoch
  /\ r.overlay => /\ r.n = s.played
                  /\ \E o \in s.overlays : o.name = r.line.source /\ o.frame = r.line.frame
  /\ ~r.overlay => /\ r.n = s.passes /\ r.line.frame = s.frame
                   /\ r.line.source = Source(s.scenario, t)

\* Every topic gets a line of the loop, and those of the overlays that cover it.
LEMMA PlanEffect ==
  \A s : StateOK(s) /\ epoch \in Nat =>
    /\ PlanOf(s) \in [Topics -> SUBSET Stamps] /\ PlanOf(s) # NoPlan
    /\ \A t \in Topics : IsFiniteSet(PlanOf(s)[t])
    /\ \A t \in Topics : \A r \in PlanOf(s)[t] : OfFrame(r, s, t)
<1>. TAKE s
<1>. HAVE StateOK(s) /\ epoch \in Nat
<1>1. /\ s \in States /\ s.frame \in Nat /\ s.passes \in Nat /\ s.played \in Nat
      /\ s.scenario \in Loops /\ s.overlays \subseteq [name : Overlays, frame : Nat]
      /\ IsFiniteSet(s.overlays)
  BY DEF StateOK, States
<1>. DEFINE L(t) == Stamp([topic |-> t, source |-> Source(s.scenario, t), frame |-> s.frame],
                          epoch, s.passes, FALSE)
            O(t, o) == Stamp([topic |-> t, source |-> o.name, frame |-> o.frame],
                             epoch, s.played, TRUE)
            C(t) == {x \in s.overlays : t \in Covers[x.name]}
            P(t) == {O(t, o) : o \in C(t)}
<1>2. PlanOf(s) = [t \in Topics |-> {L(t)} \cup P(t)]
  BY DEF PlanOf
<1>3. \A t \in Topics : L(t) \in Stamps /\ OfFrame(L(t), s, t)
  <2>. TAKE t \in Topics
  <2>1. Source(s.scenario, t) \in Scenarios
    BY <1>1, CatalogAssumption DEF Source, Scenarios
  <2>. QED  BY <1>1, <2>1 DEF Stamps, Lines, Stamp, OfFrame
<1>4. \A t \in Topics : \A o \in C(t) : O(t, o) \in Stamps /\ OfFrame(O(t, o), s, t)
  <2>. TAKE t \in Topics
  <2>. TAKE o \in C(t)
  <2>1. o \in s.overlays /\ o.name \in Overlays /\ o.name \in Scenarios /\ o.frame \in Nat
    BY <1>1 DEF Scenarios
  <2>. QED  BY <1>1, <2>1 DEF Stamps, Lines, Stamp, OfFrame
<1>5. \A t \in Topics : IsFiniteSet(P(t))
  <2>. TAKE t \in Topics
  <2>1. IsFiniteSet(C(t))
    BY <1>1, FS_Subset
  <2>. DEFINE f == [o \in C(t) |-> O(t, o)]
  <2>2. f \in [C(t) -> P(t)] /\ \A r \in P(t) : \E o \in C(t) : f[o] = r
    OBVIOUS
  <2>. HIDE DEF C, P, f
  <2>. QED  BY <2>1, <2>2, FiniteImage
<1>. HIDE DEF L
<1>6. \A t \in Topics : P(t) \subseteq Stamps /\ \A r \in P(t) : OfFrame(r, s, t)
  BY <1>4
<1>. HIDE DEF P
<1>7. \A t \in Topics : /\ PlanOf(s)[t] = P(t) \cup {L(t)} /\ PlanOf(s)[t] \subseteq Stamps
                        /\ PlanOf(s)[t] # {}
  BY <1>2, <1>3, <1>6
<1>8. PlanOf(s) \in [Topics -> SUBSET Stamps]
  BY <1>2, <1>7
<1>9. PlanOf(s) # NoPlan
  <2>1. 1 \in Topics
    BY CatalogAssumption DEF Topics
  <2>. QED  BY <1>7, <2>1 DEF NoPlan
<1>10. \A t \in Topics : IsFiniteSet(PlanOf(s)[t])
  BY <1>5, <1>7, FS_AddElement
<1>11. \A t \in Topics : \A r \in PlanOf(s)[t] : OfFrame(r, s, t)
  BY <1>3, <1>6, <1>7
<1>. QED  BY <1>8, <1>9, <1>10, <1>11

\* What is planned for a frame is behind it once it is being sent, and not before.
LEMMA PlanBehind ==
  \A s, t, r : StateOK(s) /\ OfFrame(r, s, t) /\ r \in Stamps /\ epoch \in Nat =>
    Behind(r, s, TRUE) /\ ~Behind(r, s, FALSE)
<1>. TAKE s, t, r
<1>. HAVE StateOK(s) /\ OfFrame(r, s, t) /\ r \in Stamps /\ epoch \in Nat
<1>1. s.frame \in Nat /\ s.passes \in Nat /\ s.played \in Nat /\ r.overlay \in BOOLEAN
  BY DEF StateOK, States, Stamps
<1>2. \A o \in s.overlays : o.frame \in Nat /\ \A x \in s.overlays : x.name = o.name => x = o
  BY DEF StateOK, States
<1>3. CASE r.overlay
  <2>1. r.n = s.played /\ r.epoch = epoch
    BY <1>3 DEF OfFrame
  <2>2. PICK o \in s.overlays : o.name = r.line.source /\ o.frame = r.line.frame
    BY <1>3 DEF OfFrame
  <2>3. \A x \in s.overlays : x.name = r.line.source => x = o
    BY <1>2, <2>2
  <2>. QED  BY <1>1, <1>2, <1>3, <2>1, <2>2, <2>3 DEF Behind, Before
<1>4. CASE ~r.overlay
  <2>1. r.n = s.passes /\ r.epoch = epoch /\ r.line.frame = s.frame
    BY <1>4 DEF OfFrame
  <2>. QED  BY <1>1, <1>4, <2>1 DEF Behind, Before
<1>. QED  BY <1>1, <1>3, <1>4

\* What is behind a frame is behind it while it is sent.
LEMMA BehindWeaker ==
  \A s, r : Behind(r, s, FALSE) => Behind(r, s, TRUE)
BY DEF Behind, Before

\* advance() leaves behind what was sent in its frame.
LEMMA BehindAdvance ==
  \A s, r : StateOK(s) /\ r \in Stamps /\ Behind(r, s, TRUE) => Behind(r, Advance(s), FALSE)
<1>. TAKE s, r
<1>. HAVE StateOK(s) /\ r \in Stamps /\ Behind(r, s, TRUE)
<1>. DEFINE n == Advance(s)
<1>1. StateOK(n) /\ StepsOn(n, s)
  BY AdvanceEffect
<1>2. (n.passes = s.passes /\ n.frame = s.frame + 1) \/ NextPass(n, s)
  BY AdvanceEffect
<1>. HIDE DEF n
<1>3. /\ s.frame \in Nat /\ s.passes \in Nat /\ s.played \in Nat
      /\ r.overlay \in BOOLEAN /\ r.n \in Nat /\ r.line.frame \in Nat
  BY DEF StateOK, States, Stamps, Lines
<1>4. CASE r.epoch < epoch
  BY <1>4 DEF Behind, n
<1>5. CASE ~(r.epoch < epoch) /\ r.overlay
  <2>1. /\ r.epoch = epoch /\ r.n <= s.played
        /\ r.n = s.played => \A o \in s.overlays :
             o.name = r.line.source => Before(r.line.frame, o.frame, TRUE)
    BY <1>5 DEF Behind
  <2>2. n.played = s.played
    BY <1>1 DEF StepsOn
  <2>3. ASSUME r.n = n.played, NEW x \in n.overlays, x.name = r.line.source
        PROVE  Before(r.line.frame, x.frame, FALSE)
    <3>1. PICK o \in s.overlays : x.name = o.name /\ x.frame = o.frame + 1
      BY <1>1 DEF StepsOn
    <3>2. o.frame \in Nat
      BY DEF StateOK, States
    <3>3. Before(r.line.frame, o.frame, TRUE)
      BY <2>1, <2>2, <2>3, <3>1
    <3>. QED  BY <1>3, <3>1, <3>2, <3>3 DEF Before
  <2>4. Behind(r, n, FALSE)
    BY <1>5, <2>1, <2>2, <2>3 DEF Behind
  <2>. QED  BY <2>4 DEF n
<1>6. CASE ~(r.epoch < epoch) /\ ~r.overlay
  <2>1. /\ r.epoch = epoch /\ r.n <= s.passes
        /\ r.n = s.passes => Before(r.line.frame, s.frame, TRUE)
    BY <1>6 DEF Behind
  <2>2. r.n <= n.passes /\ (r.n = n.passes => Before(r.line.frame, n.frame, FALSE))
    BY <1>2, <1>3, <2>1 DEF Before, NextPass
  <2>3. Behind(r, n, FALSE)
    BY <1>6, <2>1, <2>2 DEF Behind
  <2>. QED  BY <2>3 DEF n
<1>. QED  BY <1>3, <1>4, <1>5, <1>6

\* A command leaves behind what was.
LEMMA BehindApplied ==
  \A s, c, r, b : StateOK(s) /\ c \in Commands /\ r \in Stamps /\ Behind(r, s, b) =>
    Behind(r, Applied(s, c), b)
<1>. TAKE s, c, r, b
<1>. HAVE StateOK(s) /\ c \in Commands /\ r \in Stamps /\ Behind(r, s, b)
<1>. DEFINE n == Applied(s, c)
<1>1. SamePass(n, s) \/ NextPass(n, s)
  BY AppliedEffect
<1>2. SameOverlays(n, s) \/ OneMore(n, s, c.scenario)
  BY AppliedEffect
<1>. HIDE DEF n
<1>3. /\ s.frame \in Nat /\ s.passes \in Nat /\ s.played \in Nat
      /\ r.overlay \in BOOLEAN /\ r.n \in Nat
  BY DEF StateOK, States, Stamps
<1>4. CASE r.epoch < epoch
  BY <1>4 DEF Behind, n
<1>5. CASE ~(r.epoch < epoch) /\ r.overlay
  <2>1. /\ r.epoch = epoch /\ r.n <= s.played
        /\ r.n = s.played => \A o \in s.overlays :
             o.name = r.line.source => Before(r.line.frame, o.frame, b)
    BY <1>5 DEF Behind
  <2>2. CASE SameOverlays(n, s)
    <3>1. Behind(r, n, b)
      BY <1>5, <2>1, <2>2 DEF Behind, SameOverlays
    <3>. QED  BY <3>1 DEF n
  <2>3. CASE OneMore(n, s, c.scenario)
    <3>1. r.n < n.played
      BY <1>3, <2>1, <2>3 DEF OneMore
    <3>2. n.played \in Nat
      BY <1>3, <2>3 DEF OneMore
    <3>3. Behind(r, n, b)
      BY <1>3, <1>5, <2>1, <3>1, <3>2 DEF Behind
    <3>. QED  BY <3>3 DEF n
  <2>. QED  BY <1>2, <2>2, <2>3
<1>6. CASE ~(r.epoch < epoch) /\ ~r.overlay
  <2>1. /\ r.epoch = epoch /\ r.n <= s.passes
        /\ r.n = s.passes => Before(r.line.frame, s.frame, b)
    BY <1>6 DEF Behind
  <2>2. r.n <= n.passes /\ (r.n = n.passes => Before(r.line.frame, n.frame, b))
    BY <1>1, <1>3, <2>1 DEF SamePass, NextPass
  <2>3. Behind(r, n, b)
    BY <1>6, <2>1, <2>2 DEF Behind
  <2>. QED  BY <2>3 DEF n
<1>. QED  BY <1>3, <1>4, <1>5, <1>6

(***************************************************************************)
(* The steps, by what they change.                                         *)
(***************************************************************************)

StepVars == <<st, epoch, plan, sent, history>>

\* A step of the consumer, or the end of a tick: no frame is begun or ended.
Quiet == UNCHANGED StepVars /\ (MidFrame' <=> MidFrame)

\* What send_batch did to the records of a topic.
Sent(t, acked, kept) ==
  /\ acked \in SUBSET plan[t] /\ kept \in SUBSET plan[t] /\ acked \subseteq kept
  /\ faults' = faults + (IF acked = plan[t] THEN 0 ELSE 1)
  /\ sent' = sent (+) SetToBag(kept)
  /\ tick'.metrics = [tick.metrics EXCEPT ![t] = @ + Cardinality(acked)]

\* After it: the next topic, the next frame, or the end of the tick.
GoOn(t)  == /\ plan' = [plan EXCEPT ![t] = {}] /\ plan' # NoPlan
            /\ tick'.pc = "send" /\ tick'.left = tick.left
            /\ UNCHANGED <<st, owed, planned, frames>>
GoAhead  == /\ st' = Advance(st) /\ StartFrame(Advance(st))
            /\ tick'.pc = "send" /\ tick.left > 1 /\ tick'.left = tick.left - 1
TickOver == /\ st' = Advance(st) /\ plan' = NoPlan
            /\ tick'.pc = "emit" /\ tick'.left = 0
            /\ UNCHANGED <<owed, planned, frames>>

Ticks == [pc : {"sleep", "send", "emit"}, left : 0 .. 60, metrics : [Topics -> Nat]]

\* The state is fine and so is what follows of its type, that the steps need.
LEMMA TypeFacts ==
  TypeOK => /\ StateOK(st) /\ epoch \in Nat /\ tick \in Ticks /\ tick.metrics \in [Topics -> Nat]
            /\ Out \subseteq Stamps /\ \A t \in Topics : plan[t] \subseteq Out
            /\ (~MidFrame => plan = NoPlan)
<1>. HAVE TypeOK
<1>1. /\ st \in States /\ st.frame < Frames[st.scenario] /\ IsFiniteSet(st.overlays)
      /\ \A o \in st.overlays :
           o.frame < Frames[o.name] /\ \A x \in st.overlays : x.name = o.name => x = o
  BY DEF TypeOK
<1>2. tick \in Ticks /\ epoch \in Nat
  BY DEF TypeOK, Ticks
<1>3. plan \in [Topics -> SUBSET Stamps] /\ DOMAIN sent \subseteq Stamps
  BY DEF TypeOK
<1>4. ~MidFrame => plan = NoPlan
  BY DEF TypeOK, MidFrame
<1>5. StateOK(st)
  BY <1>1 DEF StateOK
<1>. QED  BY <1>2, <1>3, <1>4, <1>5 DEF Ticks, Out

\* The consumer's steps and the end of a tick begin and end no frame.
LEMMA QuietStep ==
  TypeOK /\ (CommitControl \/ CommitFails \/ Reopen \/ Emit \/ EmitFails \/ UNCHANGED vars)
    => Quiet
<1>. HAVE TypeOK /\ (CommitControl \/ CommitFails \/ Reopen \/ Emit \/ EmitFails \/ UNCHANGED vars)
<1>1. CASE CommitControl
  BY <1>1 DEF CommitControl, Quiet, StepVars, MidFrame
<1>2. CASE CommitFails
  BY <1>2 DEF CommitFails, Quiet, StepVars, MidFrame
<1>3. CASE Reopen
  BY <1>3 DEF Reopen, Quiet, StepVars, MidFrame
<1>4. CASE Emit
  BY <1>4 DEF Emit, Quiet, StepVars, MidFrame, Asleep
<1>5. CASE EmitFails
  BY <1>5 DEF EmitFails, Quiet, StepVars, MidFrame, Asleep
<1>6. CASE UNCHANGED vars
  BY <1>6 DEF vars, history, Quiet, StepVars, MidFrame
<1>. QED  BY <1>1, <1>2, <1>3, <1>4, <1>5, <1>6

\* Wake begins a frame of the State as it is.
LEMMA WakeStep ==
  TypeOK /\ Wake =>
    /\ ~MidFrame /\ MidFrame' /\ StartFrame(st) /\ UNCHANGED <<st, epoch, sent, late, skipped>>
    /\ tick' \in Ticks /\ tick'.metrics = tick.metrics
<1>. HAVE TypeOK /\ Wake
<1>1. tick \in Ticks /\ st.rate \in Rates \cup {1}
  BY TypeFacts DEF StateOK, States
<1>2. st.rate \in 0 .. 60
  <2>1. \A n \in Rates : n \in 0 .. 60
    <3>1. Rates \subseteq 1 .. 60
      BY CatalogAssumption
    <3>. QED  BY <3>1
  <2>2. st.rate \in Rates \/ st.rate = 1
    BY <1>1
  <2>3. CASE st.rate \in Rates
    BY <2>1, <2>3
  <2>. QED  BY <2>2, <2>3
<1>3. tick.pc = "sleep" /\ tick' = [tick EXCEPT !.pc = "send", !.left = st.rate]
  BY DEF Wake
<1>. QED  BY <1>1, <1>2, <1>3 DEF Wake, MidFrame, Ticks

\* Send hands on what it kept, then goes on, to the next frame, or to the metrics.
LEMMA SendStep ==
  \A t \in Topics : TypeOK /\ Send(t) =>
    /\ MidFrame /\ UNCHANGED <<epoch, reported, controls, reader, late, skipped>>
    /\ \E acked, kept : Sent(t, acked, kept)
    /\ GoOn(t) \/ GoAhead \/ TickOver
    /\ tick' \in Ticks
<1>. TAKE t \in Topics
<1>. HAVE TypeOK /\ Send(t)
<1>1. MidFrame /\ UNCHANGED <<epoch, reported, controls, reader, late, skipped>>
  BY DEF Send, Sending, MidFrame
<1>2. PICK acked \in SUBSET plan[t], kept \in SUBSET plan[t] :
        /\ acked \subseteq kept
        /\ faults' = faults + (IF acked = plan[t] THEN 0 ELSE 1)
        /\ sent' = sent (+) SetToBag(kept)
        /\ AfterSend([plan EXCEPT ![t] = {}],
                     [tick.metrics EXCEPT ![t] = @ + Cardinality(acked)])
  BY DEF Send
<1>. DEFINE ok == [tick.metrics EXCEPT ![t] = @ + Cardinality(acked)]
            rest == [plan EXCEPT ![t] = {}]
<1>3. tick \in Ticks /\ tick.metrics \in [Topics -> Nat]
  BY TypeFacts
<1>4. ok \in [Topics -> Nat]
  <2>1. IsFiniteSet(plan[t])
    BY DEF TypeOK
  <2>2. Cardinality(acked) \in Nat
    BY <2>1, FS_Subset, FS_CardinalityType
  <2>. QED  BY <1>3, <2>2
<1>. HIDE DEF ok, rest
<1>5. AfterSend(rest, ok)
  BY <1>2 DEF rest, ok
<1>6. tick.pc = "send"
  BY <1>1 DEF MidFrame
<1>7. /\ tick'.metrics = ok /\ tick' \in Ticks
      /\ GoOn(t) \/ GoAhead \/ TickOver
  <2>1. CASE rest # NoPlan
    <3>1. /\ plan' = rest /\ tick' = [tick EXCEPT !.metrics = ok]
          /\ UNCHANGED <<st, owed, planned, frames>>
      BY <1>5, <2>1 DEF AfterSend
    <3>2. tick'.pc = "send" /\ tick'.left = tick.left /\ tick'.metrics = ok /\ tick' \in Ticks
      BY <1>3, <1>4, <1>6, <3>1 DEF Ticks
    <3>. QED  BY <2>1, <3>1, <3>2 DEF GoOn, rest
  <2>2. CASE rest = NoPlan /\ tick.left > 1
    <3>1. /\ st' = Advance(st) /\ StartFrame(Advance(st))
          /\ tick' = [tick EXCEPT !.left = @ - 1, !.metrics = ok]
      BY <1>5, <2>2 DEF AfterSend
    <3>2. tick.left - 1 \in 0 .. 60
      BY <1>3, <2>2 DEF Ticks
    <3>3. tick'.pc = "send" /\ tick'.left = tick.left - 1 /\ tick'.metrics = ok /\ tick' \in Ticks
      BY <1>3, <1>4, <1>6, <3>1, <3>2 DEF Ticks
    <3>. QED  BY <2>2, <3>1, <3>3 DEF GoAhead
  <2>3. CASE rest = NoPlan /\ ~(tick.left > 1)
    <3>1. /\ st' = Advance(st) /\ plan' = NoPlan
          /\ tick' = [pc |-> "emit", left |-> 0, metrics |-> ok]
          /\ UNCHANGED <<owed, planned, frames>>
      BY <1>5, <2>3 DEF AfterSend
    <3>2. tick'.pc = "emit" /\ tick'.left = 0 /\ tick'.metrics = ok /\ tick' \in Ticks
      BY <1>4, <3>1 DEF Ticks
    <3>. QED  BY <3>1, <3>2 DEF TickOver
  <2>. QED  BY <2>1, <2>2, <2>3
<1>8. Sent(t, acked, kept)
  BY <1>2, <1>7 DEF Sent, ok
<1>. QED  BY <1>1, <1>7, <1>8

\* A bag of single records, with others added that it does not have.
LEMMA SentMore ==
  \A kept : /\ IsABag(sent) /\ UniqueIds /\ kept \cap DOMAIN sent = {}
            /\ sent' = sent (+) SetToBag(kept)
    => IsABag(sent') /\ UniqueIds' /\ DOMAIN sent' = DOMAIN sent \cup kept
<1>. TAKE kept
<1>. HAVE /\ IsABag(sent) /\ UniqueIds /\ kept \cap DOMAIN sent = {}
          /\ sent' = sent (+) SetToBag(kept)
<1>1. DOMAIN SetToBag(kept) = kept /\ \A r \in kept : SetToBag(kept)[r] = 1
  BY DEF SetToBag
<1>. DEFINE D == DOMAIN sent \cup kept
<1>2. sent' = [r \in D |-> (IF r \in DOMAIN sent THEN sent[r] ELSE 0)
                              + (IF r \in kept THEN SetToBag(kept)[r] ELSE 0)]
  BY <1>1 DEF (+)
<1>3. \A r \in D : sent'[r] = 1
  BY <1>1, <1>2 DEF UniqueIds
<1>4. DOMAIN sent' = D
  BY <1>2
<1>5. sent' = [r \in D |-> sent'[r]]
  BY <1>2
<1>. QED  BY <1>3, <1>4, <1>5 DEF IsABag, UniqueIds

(***************************************************************************)
(* TypeOK                                                                  *)
(***************************************************************************)

\* The parts of TypeOK that a step changes together.
StateTyped  == StateOK(st) /\ tick \in Ticks
PlanTyped   == /\ plan \in [Topics -> SUBSET Stamps] /\ \A t \in Topics : IsFiniteSet(plan[t])
               /\ (tick.pc = "send") <=> (plan # NoPlan)
ReaderTyped == /\ controls \in Seq(Commands)
               /\ reader \in [pc : {"read", "commit"}, next : Nat, committed : Nat]
               /\ reader.committed < reader.next /\ reader.next <= Len(controls) + 1
SentTyped   == IsABag(sent) /\ DOMAIN sent \subseteq Stamps /\ IsFiniteSet(DOMAIN sent)
HistTyped   == /\ owed \in [Overlays -> SUBSET Nat] /\ late \subseteq Overlays
               /\ planned \subseteq Nat \X Nat \X Nat /\ skipped \subseteq Nat \X Nat
CountTyped  == {epoch, frames, faults} \subseteq Nat /\ reported \in [Topics -> Nat]

\* TypeOK is its parts.
LEMMA TypeParts ==
  TypeOK <=> StateTyped /\ PlanTyped /\ ReaderTyped /\ SentTyped /\ HistTyped /\ CountTyped
BY DEF TypeOK, StateTyped, PlanTyped, ReaderTyped, SentTyped, HistTyped, CountTyped, StateOK, Ticks

\* The same of the next state.
LEMMA TypePartsNext ==
  StateTyped' /\ PlanTyped' /\ ReaderTyped' /\ SentTyped' /\ HistTyped' /\ CountTyped' => TypeOK'
BY DEF TypeOK, StateTyped, PlanTyped, ReaderTyped, SentTyped, HistTyped, CountTyped, StateOK, Ticks

\* Beginning a frame keeps the types.
LEMMA StartTyped ==
  \A s : /\ TypeOK /\ StateOK(s) /\ StartFrame(s) /\ st' = s /\ tick' \in Ticks /\ tick'.pc = "send"
         /\ UNCHANGED <<epoch, late, skipped>>
    => StateTyped' /\ PlanTyped' /\ HistTyped' /\ frames' \in Nat
<1>. TAKE s
<1>. HAVE /\ TypeOK /\ StateOK(s) /\ StartFrame(s) /\ st' = s /\ tick' \in Ticks /\ tick'.pc = "send"
          /\ UNCHANGED <<epoch, late, skipped>>
<1>1. /\ plan' = PlanOf(s) /\ frames' = frames + 1
      /\ planned' = planned \cup {<<epoch, s.passes, s.frame>>}
      /\ owed' = [o \in Overlays |-> owed[o] \ {x.frame : x \in {y \in s.overlays : y.name = o}}]
  BY DEF StartFrame
<1>2. epoch \in Nat /\ frames \in Nat /\ HistTyped
  BY DEF TypeOK, HistTyped
<1>3. StateTyped'
  BY DEF StateTyped, StateOK, States, Ticks
<1>4. PlanTyped'
  BY <1>1, <1>2, PlanEffect DEF PlanTyped, NoPlan
<1>5. HistTyped'
  <2>1. owed' \in [Overlays -> SUBSET Nat]
    BY <1>1, <1>2 DEF HistTyped
  <2>2. planned' \subseteq Nat \X Nat \X Nat
    <3>1. s.passes \in Nat /\ s.frame \in Nat
      BY DEF StateOK, States
    <3>. QED  BY <1>1, <1>2, <3>1 DEF HistTyped
  <2>. QED  BY <1>2, <2>1, <2>2 DEF HistTyped
<1>. QED  BY <1>1, <1>2, <1>3, <1>4, <1>5

\* Control applies a command, and keeps the consumer in sim.control.
LEMMA ControlFacts ==
  TypeOK /\ Control =>
    /\ \E c \in Commands :
         /\ st' = Applied(st, c)
         /\ owed' = IF Accepts(c) THEN [owed EXCEPT ![c.scenario] = 0 .. Frames[c.scenario] - 1]
                    ELSE owed
         /\ late' = IF Accepts(c)
                    THEN IF MidFrame THEN late \cup {c.scenario} ELSE late \ {c.scenario}
                    ELSE late
    /\ skipped' = IF MidFrame /\ st'.passes # st.passes
                  THEN skipped \cup {<<epoch, st'.passes>>} ELSE skipped
    /\ ReaderTyped'
    /\ UNCHANGED <<epoch, plan, tick, sent, reported, planned, frames, faults>>
<1>. HAVE TypeOK /\ Control
<1>1. /\ controls \in Seq(Commands) /\ reader \in [pc : {"read", "commit"}, next : Nat, committed : Nat]
      /\ reader.committed < reader.next /\ reader.next <= Len(controls) + 1
  BY DEF TypeOK
<1>2. /\ reader.next \in Nat /\ reader.committed \in Nat
  BY <1>1
<1>3. controls' \in Seq(Commands) /\ reader.next <= Len(controls') /\ reader.next \in 1 .. Len(controls')
  <2>1. CASE reader.next <= Len(controls) /\ UNCHANGED controls
    BY <1>1, <1>2, <2>1
  <2>2. CASE reader.next = Len(controls) + 1 /\ \E c \in Commands : controls' = Append(controls, c)
    BY <1>1, <1>2, <2>2
  <2>. QED  BY <2>1, <2>2 DEF Control
<1>4. controls'[reader.next] \in Commands
  BY <1>3
<1>5. reader' = [reader EXCEPT !.pc = "commit", !.next = @ + 1]
  BY DEF Control
<1>6. ReaderTyped'
  <2>1. /\ reader' \in [pc : {"read", "commit"}, next : Nat, committed : Nat]
        /\ reader'.next = reader.next + 1 /\ reader'.committed = reader.committed
    <3>1. reader.next + 1 \in Nat
      BY <1>2
    <3>. QED  BY <1>1, <1>5, <3>1
  <2>. QED  BY <1>1, <1>2, <1>3, <2>1 DEF ReaderTyped
<1>. QED  BY <1>4, <1>6 DEF Control

\* Every step keeps TypeOK.
LEMMA StepType == TypeOK /\ UniqueIds /\ StampInv /\ [Next]_vars => TypeOK'
<1>. HAVE TypeOK /\ UniqueIds /\ StampInv /\ [Next]_vars
<1>1. StateTyped /\ PlanTyped /\ ReaderTyped /\ SentTyped /\ HistTyped /\ CountTyped
  BY TypeParts
<1>2. CASE Control
  <2>1. PICK c \in Commands :
          /\ st' = Applied(st, c)
          /\ owed' = IF Accepts(c) THEN [owed EXCEPT ![c.scenario] = 0 .. Frames[c.scenario] - 1]
                     ELSE owed
          /\ late' = IF Accepts(c)
                     THEN IF MidFrame THEN late \cup {c.scenario} ELSE late \ {c.scenario}
                     ELSE late
    BY <1>2, ControlFacts
  <2>2. /\ skipped' = IF MidFrame /\ st'.passes # st.passes
                      THEN skipped \cup {<<epoch, st'.passes>>} ELSE skipped
        /\ ReaderTyped'
        /\ UNCHANGED <<epoch, plan, tick, sent, reported, planned, frames, faults>>
    BY <1>2, ControlFacts
  <2>3. StateOK(st')
    BY <1>1, <2>1, AppliedEffect DEF StateTyped
  <2>4. StateTyped'
    BY <1>1, <2>2, <2>3 DEF StateTyped, StateOK, States, Ticks
  <2>5. HistTyped'
    <3>1. Accepts(c) => c.scenario \in Overlays
      BY <1>1, <2>1, AppliedEffect DEF StateTyped, Accepts
    <3>2. owed' \in [Overlays -> SUBSET Nat] /\ late' \subseteq Overlays
      <4>1. CASE Accepts(c)
        <5>1. 0 .. Frames[c.scenario] - 1 \in SUBSET Nat
          <6>1. Frames[c.scenario] \in Nat
            BY <3>1, <4>1, CatalogAssumption DEF Scenarios
          <6>. QED  BY <6>1
        <5>. QED  BY <1>1, <2>1, <3>1, <4>1, <5>1 DEF HistTyped
      <4>2. CASE ~Accepts(c)
        BY <1>1, <2>1, <4>2 DEF HistTyped
      <4>. QED  BY <4>1, <4>2
    <3>3. skipped' \subseteq Nat \X Nat
      <4>1. st'.passes \in Nat /\ epoch \in Nat
        BY <1>1, <2>3 DEF StateOK, States, CountTyped
      <4>. QED  BY <1>1, <2>2, <4>1 DEF HistTyped
    <3>. QED  BY <1>1, <2>2, <3>2, <3>3 DEF HistTyped
  <2>6. PlanTyped' /\ SentTyped' /\ CountTyped'
    BY <1>1, <2>2 DEF PlanTyped, SentTyped, CountTyped, NoPlan
  <2>. QED  BY <2>2, <2>4, <2>5, <2>6, TypePartsNext
<1>3. CASE CommitControl \/ CommitFails \/ Reopen
  <2>1. UNCHANGED <<st, epoch, plan, tick, sent, reported, controls, history, frames>>
    BY <1>3 DEF CommitControl, CommitFails, Reopen
  <2>2. faults' \in Nat
    BY <1>1, <1>3 DEF CommitControl, CommitFails, Reopen, Fault, CountTyped
  <2>3. ReaderTyped'
    <3>1. /\ reader \in [pc : {"read", "commit"}, next : Nat, committed : Nat]
          /\ reader.committed < reader.next /\ reader.next <= Len(controls) + 1
          /\ Len(controls) \in Nat
      BY <1>1 DEF ReaderTyped
    <3>2. CASE CommitControl
      <4>1. reader' = [reader EXCEPT !.pc = "read", !.committed = reader.next - 1]
        BY <3>2 DEF CommitControl
      <4>2. reader.next - 1 \in Nat /\ reader.next \in Nat
        BY <3>1
      <4>3. /\ reader' \in [pc : {"read", "commit"}, next : Nat, committed : Nat]
            /\ reader'.next = reader.next /\ reader'.committed = reader.next - 1
        BY <3>1, <4>1, <4>2
      <4>. QED  BY <1>1, <2>1, <3>1, <4>2, <4>3 DEF ReaderTyped
    <3>3. CASE CommitFails
      <4>1. reader' = [reader EXCEPT !.pc = "read"]
        BY <3>3 DEF CommitFails
      <4>2. /\ reader' \in [pc : {"read", "commit"}, next : Nat, committed : Nat]
            /\ reader'.next = reader.next /\ reader'.committed = reader.committed
        BY <3>1, <4>1
      <4>. QED  BY <1>1, <2>1, <3>1, <4>2 DEF ReaderTyped
    <3>4. CASE Reopen
      <4>1. reader' = [pc |-> "read", next |-> reader.committed + 1, committed |-> reader.committed]
        BY <3>4 DEF Reopen, Reopened
      <4>2. reader.committed \in Nat /\ reader.next \in Nat
        BY <3>1
      <4>. QED  BY <1>1, <2>1, <3>1, <4>1, <4>2 DEF ReaderTyped
    <3>. QED  BY <1>3, <3>2, <3>3, <3>4
  <2>4. StateTyped' /\ PlanTyped' /\ SentTyped' /\ HistTyped' /\ CountTyped'
    BY <1>1, <2>1, <2>2
    DEF StateTyped, StateOK, States, Ticks, PlanTyped, SentTyped, HistTyped, CountTyped, history, NoPlan
  <2>. QED  BY <2>3, <2>4, TypePartsNext
<1>4. CASE Wake
  <2>1. /\ ~MidFrame /\ MidFrame' /\ StartFrame(st) /\ UNCHANGED <<st, epoch, sent, late, skipped>>
        /\ tick' \in Ticks
    BY <1>4, WakeStep
  <2>2. UNCHANGED <<reported, controls, reader, faults>>
    BY <1>4 DEF Wake
  <2>3. StateTyped' /\ PlanTyped' /\ HistTyped' /\ frames' \in Nat
    BY <1>1, <2>1, StartTyped DEF StateTyped, MidFrame
  <2>4. ReaderTyped' /\ SentTyped' /\ CountTyped'
    BY <1>1, <2>1, <2>2, <2>3 DEF ReaderTyped, SentTyped, CountTyped
  <2>. QED  BY <2>3, <2>4, TypePartsNext
<1>5. CASE \E t \in Topics : Send(t)
  <2>1. PICK t \in Topics : Send(t)
    BY <1>5
  <2>2. /\ MidFrame /\ UNCHANGED <<epoch, reported, controls, reader, late, skipped>>
        /\ GoOn(t) \/ GoAhead \/ TickOver
        /\ tick' \in Ticks
    BY <2>1, SendStep
  <2>3. PICK acked, kept : Sent(t, acked, kept)
    BY <2>1, SendStep
  <2>4. ReaderTyped'
    BY <1>1, <2>2 DEF ReaderTyped
  <2>5. SentTyped'
    <3>1. kept \cap DOMAIN sent = {} /\ kept \subseteq Stamps /\ IsFiniteSet(kept)
      <4>1. kept \in SUBSET plan[t] /\ IsFiniteSet(plan[t]) /\ plan[t] \subseteq Stamps
        BY <1>1, <2>3 DEF Sent, PlanTyped
      <4>2. \A r \in plan[t] : r \notin DOMAIN sent
        BY DEF StampInv
      <4>. QED  BY <4>1, <4>2, FS_Subset
    <3>2. IsABag(sent') /\ DOMAIN sent' = DOMAIN sent \cup kept
      BY <1>1, <2>3, <3>1, SentMore DEF Sent, SentTyped
    <3>. QED  BY <1>1, <3>1, <3>2, FS_Union DEF SentTyped
  <2>6. faults' \in Nat
    BY <1>1, <2>3 DEF Sent, CountTyped
  <2>7. CASE GoOn(t)
    <3>1. StateTyped' /\ HistTyped' /\ CountTyped'
      BY <1>1, <2>2, <2>6, <2>7 DEF StateTyped, StateOK, States, HistTyped, CountTyped, GoOn
    <3>2. PlanTyped'
      <4>1. plan' = [plan EXCEPT ![t] = {}] /\ plan' # NoPlan /\ tick'.pc = "send"
        BY <2>7 DEF GoOn
      <4>2. \A u \in Topics : plan'[u] = plan[u] \/ plan'[u] = {}
        BY <1>1, <4>1 DEF PlanTyped
      <4>3. plan' \in [Topics -> SUBSET Stamps]
        BY <1>1, <4>1 DEF PlanTyped
      <4>4. \A u \in Topics : IsFiniteSet(plan'[u])
        BY <1>1, <4>2, FS_EmptySet DEF PlanTyped
      <4>5. NoPlan' = NoPlan
        BY DEF NoPlan
      <4>. QED  BY <4>1, <4>3, <4>4, <4>5 DEF PlanTyped
    <3>. QED  BY <2>4, <2>5, <3>1, <3>2, TypePartsNext
  <2>8. CASE GoAhead
    <3>1. StateOK(Advance(st))
      BY <1>1, AdvanceEffect DEF StateTyped
    <3>2. StateTyped' /\ PlanTyped' /\ HistTyped' /\ frames' \in Nat
      BY <2>2, <2>8, <3>1, StartTyped DEF GoAhead
    <3>3. CountTyped'
      BY <1>1, <2>2, <2>6, <3>2 DEF CountTyped
    <3>. QED  BY <2>4, <2>5, <3>2, <3>3, TypePartsNext
  <2>9. CASE TickOver
    <3>1. StateOK(st') /\ plan' = NoPlan /\ tick'.pc = "emit" /\ UNCHANGED <<owed, planned, frames>>
      BY <1>1, <2>9, AdvanceEffect DEF StateTyped, TickOver
    <3>2. StateTyped' /\ HistTyped' /\ CountTyped'
      BY <1>1, <2>2, <2>6, <3>1 DEF StateTyped, StateOK, States, Ticks, HistTyped, CountTyped
    <3>3. PlanTyped'
      BY <3>1, FS_EmptySet DEF PlanTyped, NoPlan
    <3>. QED  BY <2>4, <2>5, <3>2, <3>3, TypePartsNext
  <2>. QED  BY <2>2, <2>7, <2>8, <2>9
<1>6. CASE Emit \/ EmitFails
  <2>1. /\ UNCHANGED <<st, epoch, plan, sent, controls, reader, history, frames>>
        /\ tick.pc = "emit" /\ tick' = Asleep
    BY <1>6 DEF Emit, EmitFails
  <2>2. faults' \in Nat
    BY <1>1, <1>6 DEF Emit, EmitFails, Fault, CountTyped
  <2>3. tick.metrics \in [Topics -> Nat]
    BY <1>1 DEF StateTyped, Ticks
  <2>4. reported' \in [Topics -> Nat]
    BY <1>1, <1>6, <2>3 DEF Emit, EmitFails, CountTyped
  <2>5. tick' \in Ticks /\ tick'.pc = "sleep"
    BY <2>1 DEF Asleep, NoCounts, Ticks
  <2>6. StateTyped'
    BY <1>1, <2>1, <2>5 DEF StateTyped, StateOK, States, Ticks
  <2>7. PlanTyped'
    BY <1>1, <2>1, <2>5 DEF PlanTyped, NoPlan
  <2>8. ReaderTyped' /\ SentTyped' /\ HistTyped' /\ CountTyped'
    BY <1>1, <2>1, <2>2, <2>4 DEF ReaderTyped, SentTyped, HistTyped, CountTyped, history
  <2>. QED  BY <2>6, <2>7, <2>8, TypePartsNext
<1>7. CASE RestartSim
  <2>1. /\ st' = Started /\ epoch' = epoch + 1 /\ plan' = NoPlan /\ tick' = Asleep
        /\ reader' = Reopened(reader.committed) /\ owed' = [o \in Overlays |-> {}] /\ late' = {}
        /\ UNCHANGED <<sent, reported, controls, planned, skipped, frames>>
        /\ faults' = faults + 1
    BY <1>7 DEF RestartSim, Fault
  <2>2. StateOK(Started)
    BY CatalogAssumption, FS_EmptySet DEF StateOK, Started, States, Scenarios
  <2>3. tick' \in Ticks /\ tick'.pc = "sleep"
    BY <2>1 DEF Asleep, NoCounts, Ticks
  <2>4. StateTyped'
    BY <2>1, <2>2, <2>3 DEF StateTyped, StateOK, States, Ticks
  <2>5. PlanTyped'
    BY <2>1, <2>3, FS_EmptySet DEF PlanTyped, NoPlan
  <2>6. ReaderTyped'
    <3>1. reader.committed \in Nat /\ reader.next \in Nat /\ Len(controls) \in Nat
      BY <1>1 DEF ReaderTyped
    <3>. QED  BY <1>1, <2>1, <3>1 DEF ReaderTyped, Reopened
  <2>7. SentTyped' /\ HistTyped' /\ CountTyped'
    BY <1>1, <2>1 DEF SentTyped, HistTyped, CountTyped
  <2>. QED  BY <2>4, <2>5, <2>6, <2>7, TypePartsNext
<1>8. CASE UNCHANGED vars
  BY <1>1, <1>8, TypePartsNext
  DEF StateTyped, StateOK, States, Ticks, PlanTyped, ReaderTyped, SentTyped, HistTyped, CountTyped,
      vars, history, NoPlan
<1>. QED  BY <1>2, <1>3, <1>4, <1>5, <1>6, <1>7, <1>8 DEF Next

(***************************************************************************)
(* StampInv, and with it UniqueIds                                         *)
(***************************************************************************)

\* What send_batch added was planned, for that topic, and not there before.
LEMMA SentOut ==
  \A t \in Topics : \A acked, kept :
    TypeOK /\ UniqueIds /\ StampInv /\ Sent(t, acked, kept) =>
      /\ UniqueIds' /\ DOMAIN sent' = DOMAIN sent \cup kept /\ DOMAIN sent' \subseteq Out
      /\ kept \cap DOMAIN sent = {} /\ \A r \in kept : r \in plan[t] /\ r.line.topic = t
<1>. TAKE t \in Topics
<1>. TAKE acked, kept
<1>. HAVE TypeOK /\ UniqueIds /\ StampInv /\ Sent(t, acked, kept)
<1>1. kept \in SUBSET plan[t] /\ sent' = sent (+) SetToBag(kept)
  BY DEF Sent
<1>2. \A r \in plan[t] : r.line.topic = t /\ r \notin DOMAIN sent
  BY DEF StampInv
<1>3. kept \cap DOMAIN sent = {} /\ \A r \in kept : r \in plan[t] /\ r.line.topic = t
  BY <1>1, <1>2
<1>4. UniqueIds' /\ DOMAIN sent' = DOMAIN sent \cup kept
  BY <1>1, <1>3, SentMore DEF TypeOK
<1>5. DOMAIN sent' \subseteq Out
  BY <1>1, <1>4 DEF Out
<1>. QED  BY <1>3, <1>4, <1>5

\* Beginning a frame behind which everything is keeps StampInv.
LEMMA StartStamps ==
  \A s : /\ StateOK(s) /\ epoch \in Nat /\ Out \subseteq Stamps
         /\ \A r \in Out : Behind(r, s, FALSE)
         /\ StartFrame(s) /\ st' = s /\ epoch' = epoch /\ MidFrame' /\ DOMAIN sent' \subseteq Out
    => StampInv'
<1>. TAKE s
<1>. HAVE /\ StateOK(s) /\ epoch \in Nat /\ Out \subseteq Stamps
          /\ \A r \in Out : Behind(r, s, FALSE)
          /\ StartFrame(s) /\ st' = s /\ epoch' = epoch /\ MidFrame' /\ DOMAIN sent' \subseteq Out
<1>1. plan' = PlanOf(s)
  BY DEF StartFrame
<1>2. \A t \in Topics : \A r \in plan'[t] : r \in Stamps /\ OfFrame(r, s, t)
  BY <1>1, PlanEffect
<1>3. \A t \in Topics : \A r \in plan'[t] : Behind(r, s, TRUE) /\ ~Behind(r, s, FALSE)
  BY <1>2, PlanBehind
<1>4. \A t \in Topics : \A r \in plan'[t] : r.line.topic = t /\ r \notin DOMAIN sent'
  BY <1>2, <1>3 DEF OfFrame
<1>5. ASSUME NEW r \in Out'  PROVE  Behind(r, st, MidFrame)'
  <2>1. Behind(r, s, TRUE)
    <3>1. CASE r \in Out
      BY <3>1, BehindWeaker
    <3>2. CASE r \notin Out
      <4>1. PICK t \in Topics : r \in plan'[t]
        BY <1>5, <3>2 DEF Out, Topics
      <4>. QED  BY <1>3, <4>1
    <3>. QED  BY <3>1, <3>2
  <2>. QED  BY <2>1 DEF Behind, Before
<1>. QED  BY <1>4, <1>5 DEF StampInv, Topics

\* Every step keeps StampInv, so no record is sent again.
LEMMA StepStamps == TypeOK /\ UniqueIds /\ StampInv /\ [Next]_vars => StampInv' /\ UniqueIds'
<1>. HAVE TypeOK /\ UniqueIds /\ StampInv /\ [Next]_vars
<1>1. /\ StateOK(st) /\ epoch \in Nat /\ Out \subseteq Stamps /\ (~MidFrame => plan = NoPlan)
      /\ \A t \in Topics : plan[t] \subseteq Out
  BY TypeFacts
<1>2. /\ \A r \in Out : Behind(r, st, MidFrame)
      /\ \A t \in Topics : \A r \in plan[t] : r.line.topic = t /\ r \notin DOMAIN sent
  BY DEF StampInv
<1>3. CASE CommitControl \/ CommitFails \/ Reopen \/ Emit \/ EmitFails \/ UNCHANGED vars
  <2>1. Quiet
    BY <1>3, QuietStep
  <2>2. st' = st /\ epoch' = epoch /\ plan' = plan /\ sent' = sent /\ (MidFrame' <=> MidFrame)
    BY <2>1 DEF Quiet, StepVars
  <2>3. Out' = Out
    BY <2>2 DEF Out, Topics
  <2>4. ASSUME NEW r \in Out'  PROVE  Behind(r, st, MidFrame)'
    <3>1. Behind(r, st, MidFrame)
      BY <1>2, <2>3
    <3>. QED  BY <2>2, <3>1 DEF Behind, Before
  <2>. QED  BY <1>2, <2>2, <2>4 DEF StampInv, UniqueIds, Topics
<1>4. CASE Control
  <2>1. PICK c \in Commands : st' = Applied(st, c)
    BY <1>4, ControlFacts
  <2>2. UNCHANGED <<epoch, plan, tick, sent>>
    BY <1>4, ControlFacts
  <2>3. Out' = Out /\ (MidFrame' <=> MidFrame)
    BY <2>2 DEF Out, Topics, MidFrame
  <2>4. ASSUME NEW r \in Out'  PROVE  Behind(r, st, MidFrame)'
    <3>1. Behind(r, st, MidFrame) /\ r \in Stamps
      BY <1>1, <1>2, <2>3
    <3>2. Behind(r, st', MidFrame)
      BY <1>1, <2>1, <3>1, BehindApplied
    <3>. QED  BY <2>2, <2>3, <3>2 DEF Behind, Before
  <2>. QED  BY <1>2, <2>2, <2>4 DEF StampInv, UniqueIds, Topics
<1>5. CASE Wake
  <2>1. ~MidFrame /\ MidFrame' /\ StartFrame(st) /\ UNCHANGED <<st, epoch, sent>>
    BY <1>5, WakeStep
  <2>2. \A r \in Out : Behind(r, st, FALSE)
    BY <1>2, <2>1 DEF Behind, Before
  <2>3. DOMAIN sent' \subseteq Out
    BY <2>1 DEF Out
  <2>4. StampInv'
    BY <1>1, <2>1, <2>2, <2>3, StartStamps
  <2>. QED  BY <2>1, <2>4 DEF UniqueIds
<1>6. CASE \E t \in Topics : Send(t)
  <2>1. PICK t \in Topics : Send(t)
    BY <1>6
  <2>2. /\ MidFrame /\ UNCHANGED <<epoch, reported, controls, reader, late, skipped>>
        /\ GoOn(t) \/ GoAhead \/ TickOver
    BY <2>1, SendStep
  <2>3. PICK acked, kept : Sent(t, acked, kept)
    BY <2>1, SendStep
  <2>4. /\ UniqueIds' /\ DOMAIN sent' = DOMAIN sent \cup kept /\ DOMAIN sent' \subseteq Out
        /\ \A r \in kept : r \in plan[t] /\ r.line.topic = t
    BY <2>3, SentOut
  <2>5. \A r \in Out : r \in Stamps /\ Behind(r, st, TRUE)
    BY <1>1, <1>2, <2>2 DEF Behind, Before
  <2>6. \A r \in Out : Behind(r, Advance(st), FALSE)
    BY <1>1, <2>5, BehindAdvance
  <2>7. CASE GoOn(t)
    <3>1. plan' = [plan EXCEPT ![t] = {}] /\ MidFrame' /\ st' = st
      BY <2>7 DEF GoOn, MidFrame
    <3>2. plan \in [Topics -> SUBSET Stamps]
      BY DEF TypeOK
    <3>3. plan'[t] = {} /\ \A u \in Topics \ {t} : plan'[u] = plan[u]
      BY <3>1, <3>2
    <3>4. \A u \in Topics : plan'[u] \subseteq Out
      BY <1>1, <3>3
    <3>5. ASSUME NEW r \in Out'  PROVE  Behind(r, st, MidFrame)'
      <4>1. r \in Out
        BY <2>4, <3>4 DEF Out, Topics
      <4>2. Behind(r, st, TRUE)
        BY <2>5, <4>1
      <4>. QED  BY <2>2, <3>1, <4>2 DEF Behind, Before
    <3>6. ASSUME NEW u \in Topics, NEW r \in plan'[u]
          PROVE  r.line.topic = u /\ r \notin DOMAIN sent'
      <4>1. u # t /\ r \in plan[u]
        BY <3>3, <3>6
      <4>2. r.line.topic = u /\ r \notin DOMAIN sent
        BY <1>2, <4>1
      <4>. QED  BY <2>4, <4>1, <4>2
    <3>. QED  BY <2>4, <3>5, <3>6 DEF StampInv, Topics
  <2>8. CASE GoAhead
    <3>1. StateOK(Advance(st)) /\ StartFrame(Advance(st)) /\ st' = Advance(st) /\ MidFrame'
      BY <1>1, <2>8, AdvanceEffect DEF GoAhead, MidFrame
    <3>2. StampInv'
      BY <1>1, <2>2, <2>4, <2>6, <3>1, StartStamps
    <3>. QED  BY <2>4, <3>2
  <2>9. CASE TickOver
    <3>1. st' = Advance(st) /\ plan' = NoPlan /\ ~MidFrame'
      BY <2>9 DEF TickOver, MidFrame
    <3>2. \A u \in Topics : plan'[u] = {}
      BY <3>1 DEF NoPlan
    <3>3. ASSUME NEW r \in Out'  PROVE  Behind(r, st, MidFrame)'
      <4>1. r \in Out
        BY <2>4, <3>2 DEF Out, Topics
      <4>2. Behind(r, Advance(st), FALSE)
        BY <2>6, <4>1
      <4>. QED  BY <2>2, <3>1, <4>2 DEF Behind, Before
    <3>. QED  BY <2>4, <3>2, <3>3 DEF StampInv, Topics
  <2>. QED  BY <2>2, <2>7, <2>8, <2>9
<1>7. CASE RestartSim
  <2>1. epoch' = epoch + 1 /\ plan' = NoPlan /\ sent' = sent
    BY <1>7 DEF RestartSim
  <2>2. \A u \in Topics : plan'[u] = {}
    BY <2>1 DEF NoPlan
  <2>3. ASSUME NEW r \in Out'  PROVE  Behind(r, st, MidFrame)'
    <3>1. r \in Out
      BY <2>1, <2>2 DEF Out, Topics
    <3>2. r.epoch \in Nat /\ r.epoch <= epoch
      BY <1>1, <1>2, <3>1 DEF Behind, Stamps
    <3>3. r.epoch < epoch'
      BY <1>1, <2>1, <3>2
    <3>. QED  BY <3>3 DEF Behind
  <2>. QED  BY <2>1, <2>2, <2>3 DEF StampInv, UniqueIds, Topics
<1>. QED  BY <1>3, <1>4, <1>5, <1>6, <1>7 DEF Next

(***************************************************************************)
(* SourceInv                                                               *)
(***************************************************************************)

SourceAt(r, s) == r.epoch = epoch /\ r.n = s.passes => r.line.source = Source(s.scenario, r.line.topic)
Agree(r, q)    == ~r.overlay /\ ~q.overlay /\ q.epoch = r.epoch /\ q.n = r.n
                    /\ q.line.topic = r.line.topic => q.line.source = r.line.source

\* SourceInv is that each record fits the pass, and any two of a pass agree.
LEMMA SourceParts ==
  SourceInv <=> /\ \A r \in Out : ~r.overlay => SourceAt(r, st)
                /\ \A r, q \in Out : Agree(r, q)
BY DEF SourceInv, SourceAt, Agree

\* A pass keeps its scenario, and no record has the number of the next.
LEMMA SourceMoves ==
  \A r, s, n, b : /\ StateOK(s) /\ r \in Stamps /\ ~r.overlay /\ Behind(r, s, b) /\ SourceAt(r, s)
                  /\ (n.passes = s.passes /\ n.scenario = s.scenario) \/ NextPass(n, s)
    => SourceAt(r, n)
<1>. TAKE r, s, n, b
<1>. HAVE /\ StateOK(s) /\ r \in Stamps /\ ~r.overlay /\ Behind(r, s, b) /\ SourceAt(r, s)
          /\ (n.passes = s.passes /\ n.scenario = s.scenario) \/ NextPass(n, s)
<1>1. s.passes \in Nat /\ r.n \in Nat
  BY DEF StateOK, States, Stamps
<1>2. CASE n.passes = s.passes /\ n.scenario = s.scenario
  BY <1>2 DEF SourceAt
<1>3. CASE NextPass(n, s) /\ r.epoch = epoch
  <2>1. r.n <= s.passes \/ r.epoch < epoch
    BY DEF Behind
  <2>2. CASE r.n <= s.passes
    BY <1>1, <1>3, <2>2 DEF SourceAt, NextPass
  <2>3. CASE r.epoch < epoch
    BY <1>3, <2>3 DEF Stamps
  <2>. QED  BY <2>1, <2>2, <2>3
<1>. QED  BY <1>2, <1>3 DEF SourceAt

\* With no new record, it is enough that each still fits the pass.
LEMMA SourceShrinks ==
  /\ Out' \subseteq Out /\ \A r, q \in Out : Agree(r, q)
  /\ \A r \in Out : ~r.overlay => SourceAt(r, st)'
  => SourceInv'
BY DEF SourceInv, SourceAt, Agree

\* Beginning a frame adds records of the pass's own scenario.
LEMMA StartSource ==
  \A s : /\ StateOK(s) /\ epoch \in Nat /\ \A r \in Out : ~r.overlay => SourceAt(r, s)
         /\ \A r, q \in Out : Agree(r, q)
         /\ StartFrame(s) /\ st' = s /\ epoch' = epoch /\ DOMAIN sent' \subseteq Out
    => SourceInv'
<1>. TAKE s
<1>. HAVE /\ StateOK(s) /\ epoch \in Nat /\ \A r \in Out : ~r.overlay => SourceAt(r, s)
          /\ \A r, q \in Out : Agree(r, q)
          /\ StartFrame(s) /\ st' = s /\ epoch' = epoch /\ DOMAIN sent' \subseteq Out
<1>1. plan' = PlanOf(s)
  BY DEF StartFrame
<1>2. \A t \in Topics : \A r \in plan'[t] : OfFrame(r, s, t)
  BY <1>1, PlanEffect
<1>3. ASSUME NEW r \in Out', r \notin Out, ~r.overlay
      PROVE  r.epoch = epoch /\ r.n = s.passes /\ SourceAt(r, s)
  <2>1. PICK t \in Topics : r \in plan'[t]
    BY <1>3 DEF Out, Topics
  <2>2. OfFrame(r, s, t)
    BY <1>2, <2>1
  <2>. QED  BY <1>3, <2>2 DEF OfFrame, SourceAt
<1>4. ASSUME NEW r \in Out', ~r.overlay  PROVE  SourceAt(r, s)
  BY <1>3, <1>4
<1>5. ASSUME NEW r \in Out', NEW q \in Out'  PROVE  Agree(r, q)
  <2>1. CASE r \in Out /\ q \in Out
    BY <2>1
  <2>2. CASE ~(r \in Out /\ q \in Out)
    <3>1. SUFFICES ASSUME ~r.overlay, ~q.overlay, q.epoch = r.epoch, q.n = r.n,
                          q.line.topic = r.line.topic
                   PROVE  q.line.source = r.line.source
      BY DEF Agree
    <3>2. r.epoch = epoch /\ r.n = s.passes
      BY <1>3, <2>2, <3>1
    <3>3. SourceAt(r, s) /\ SourceAt(q, s)
      BY <1>4, <3>1
    <3>. QED  BY <3>1, <3>2, <3>3 DEF SourceAt
  <2>. QED  BY <2>1, <2>2
<1>6. \A r \in Out' : ~r.overlay => SourceAt(r, st)'
  BY <1>4 DEF SourceAt
<1>. QED  BY <1>5, <1>6 DEF SourceInv, SourceAt, Agree

\* Every step keeps SourceInv.
LEMMA StepSource == TypeOK /\ UniqueIds /\ StampInv /\ SourceInv /\ [Next]_vars => SourceInv'
<1>. HAVE TypeOK /\ UniqueIds /\ StampInv /\ SourceInv /\ [Next]_vars
<1>1. /\ StateOK(st) /\ epoch \in Nat /\ Out \subseteq Stamps
      /\ \A t \in Topics : plan[t] \subseteq Out
  BY TypeFacts
<1>2. \A r \in Out : Behind(r, st, MidFrame) /\ r \in Stamps
  BY <1>1 DEF StampInv
<1>3. (\A r \in Out : ~r.overlay => SourceAt(r, st)) /\ \A r, q \in Out : Agree(r, q)
  BY SourceParts
<1>4. CASE CommitControl \/ CommitFails \/ Reopen \/ Emit \/ EmitFails \/ UNCHANGED vars
  <2>1. st' = st /\ epoch' = epoch /\ plan' = plan /\ sent' = sent
    BY <1>4, QuietStep DEF Quiet, StepVars
  <2>2. Out' = Out
    BY <2>1 DEF Out, Topics
  <2>. QED  BY <1>3, <2>1, <2>2, SourceShrinks DEF SourceAt
<1>5. CASE Control
  <2>1. PICK c \in Commands : st' = Applied(st, c)
    BY <1>5, ControlFacts
  <2>2. UNCHANGED <<epoch, plan, tick, sent>>
    BY <1>5, ControlFacts
  <2>3. Out' = Out
    BY <2>2 DEF Out, Topics
  <2>4. SamePass(st', st) \/ NextPass(st', st)
    BY <1>1, <2>1, AppliedEffect
  <2>5. \A r \in Out : ~r.overlay => SourceAt(r, st')
    BY <1>1, <1>2, <1>3, <2>4, SourceMoves DEF SamePass
  <2>. QED  BY <1>3, <2>2, <2>3, <2>5, SourceShrinks DEF SourceAt
<1>6. CASE Wake
  <2>1. StartFrame(st) /\ UNCHANGED <<st, epoch, sent>>
    BY <1>6, WakeStep
  <2>2. DOMAIN sent' \subseteq Out
    BY <2>1 DEF Out
  <2>. QED  BY <1>1, <1>3, <2>1, <2>2, StartSource
<1>7. CASE \E t \in Topics : Send(t)
  <2>1. PICK t \in Topics : Send(t)
    BY <1>7
  <2>2. /\ epoch' = epoch
        /\ GoOn(t) \/ GoAhead \/ TickOver
    BY <2>1, SendStep
  <2>3. PICK acked, kept : Sent(t, acked, kept)
    BY <2>1, SendStep
  <2>4. DOMAIN sent' \subseteq Out
    BY <2>3, SentOut
  <2>5. CASE GoOn(t)
    <3>1. plan' = [plan EXCEPT ![t] = {}] /\ st' = st
      BY <2>5 DEF GoOn
    <3>2. plan \in [Topics -> SUBSET Stamps]
      BY DEF TypeOK
    <3>3. \A u \in Topics : plan'[u] \subseteq Out
      BY <1>1, <3>1, <3>2
    <3>4. Out' \subseteq Out
      BY <2>4, <3>3 DEF Out, Topics
    <3>. QED  BY <1>3, <2>2, <3>1, <3>4, SourceShrinks DEF SourceAt
  <2>6. CASE GoAhead \/ TickOver
    <3>1. st' = Advance(st) /\ StateOK(st')
      BY <1>1, <2>6, AdvanceEffect DEF GoAhead, TickOver
    <3>2. (st'.passes = st.passes /\ st'.scenario = st.scenario) \/ NextPass(st', st)
      BY <1>1, <3>1, AdvanceEffect
    <3>3. \A r \in Out : ~r.overlay => SourceAt(r, st')
      BY <1>1, <1>2, <1>3, <3>2, SourceMoves
    <3>4. CASE GoAhead
      <4>1. StartFrame(st')
        BY <3>1, <3>4 DEF GoAhead
      <4>. QED  BY <1>1, <1>3, <2>2, <2>4, <3>1, <3>3, <4>1, StartSource
    <3>5. CASE TickOver
      <4>1. Out' \subseteq Out
        BY <2>4, <3>5 DEF TickOver, NoPlan, Out, Topics
      <4>. QED  BY <1>3, <2>2, <3>3, <4>1, SourceShrinks DEF SourceAt
    <3>. QED  BY <2>6, <3>4, <3>5
  <2>. QED  BY <2>2, <2>5, <2>6
<1>8. CASE RestartSim
  <2>1. epoch' = epoch + 1 /\ plan' = NoPlan /\ sent' = sent
    BY <1>8 DEF RestartSim
  <2>2. Out' \subseteq Out
    BY <2>1 DEF NoPlan, Out, Topics
  <2>3. \A r \in Out : r.epoch # epoch'
    <3>. TAKE r \in Out
    <3>1. r.epoch \in Nat /\ r.epoch <= epoch
      BY <1>1, <1>2 DEF Behind, Stamps
    <3>. QED  BY <1>1, <2>1, <3>1
  <2>. QED  BY <1>3, <2>2, <2>3, SourceShrinks DEF SourceAt
<1>. QED  BY <1>4, <1>5, <1>6, <1>7, <1>8 DEF Next

(***************************************************************************)
(* FrameInv                                                                *)
(***************************************************************************)

\* Beginning the frame that follows keeps the frames in order.
LEMMA StartInOrder ==
  \A s : /\ StateOK(s) /\ epoch \in Nat /\ FramesInOrder /\ Follows(s)
         /\ StartFrame(s) /\ st' = s /\ MidFrame' /\ UNCHANGED <<epoch, skipped>>
    => FrameInv'
<1>. TAKE s
<1>. HAVE /\ StateOK(s) /\ epoch \in Nat /\ FramesInOrder /\ Follows(s)
          /\ StartFrame(s) /\ st' = s /\ MidFrame' /\ UNCHANGED <<epoch, skipped>>
<1>. DEFINE x == <<epoch, s.passes, s.frame>>
<1>1. planned' = planned \cup {x}
  BY DEF StartFrame
<1>2. x[1] = epoch /\ x[2] = s.passes /\ x[3] = s.frame /\ s.frame \in Nat
  BY DEF StateOK, States
<1>3. \A y \in planned : y[3] > 0 => \/ <<y[1], y[2], y[3] - 1>> \in planned'
                                     \/ y[3] = 1 /\ <<y[1], y[2]>> \in skipped'
  BY <1>1 DEF FramesInOrder
<1>4. x[3] > 0 => \/ <<x[1], x[2], x[3] - 1>> \in planned'
                  \/ x[3] = 1 /\ <<x[1], x[2]>> \in skipped'
  BY <1>1, <1>2 DEF Follows
<1>5. FramesInOrder'
  BY <1>1, <1>3, <1>4 DEF FramesInOrder
<1>6. Planned(st)'
  BY <1>1 DEF Planned
<1>. QED  BY <1>5, <1>6 DEF FrameInv

\* advance() goes to the frame after the one that was planned.
LEMMA FollowsPlanned ==
  \A s : StateOK(s) /\ Planned(s) => Follows(Advance(s))
<1>. TAKE s
<1>. HAVE StateOK(s) /\ Planned(s)
<1>. DEFINE n == Advance(s)
<1>1. \/ n.passes = s.passes /\ n.frame = s.frame + 1
      \/ NextPass(n, s)
  BY AdvanceEffect
<1>2. s.frame \in Nat
  BY DEF StateOK, States
<1>. HIDE DEF n
<1>3. Follows(n)
  <2>1. CASE n.passes = s.passes /\ n.frame = s.frame + 1
    <3>1. n.frame - 1 = s.frame
      BY <1>2, <2>1
    <3>. QED  BY <1>2, <2>1, <3>1 DEF Follows, Planned
  <2>2. CASE NextPass(n, s)
    BY <2>2 DEF Follows, NextPass
  <2>. QED  BY <1>1, <2>1, <2>2
<1>. QED  BY <1>3 DEF n

\* Every step keeps FrameInv.
LEMMA StepFrame == TypeOK /\ FrameInv /\ [Next]_vars => FrameInv'
<1>. HAVE TypeOK /\ FrameInv /\ [Next]_vars
<1>1. StateOK(st) /\ epoch \in Nat
  BY TypeFacts
<1>2. FramesInOrder /\ (MidFrame => Planned(st)) /\ (~MidFrame => Follows(st))
  BY DEF FrameInv
<1>4. CASE CommitControl \/ CommitFails \/ Reopen \/ Emit \/ EmitFails \/ UNCHANGED vars
  <2>1. UNCHANGED <<st, epoch, planned, skipped>> /\ (MidFrame' <=> MidFrame)
    BY <1>4, QuietStep DEF Quiet, StepVars, history
  <2>. QED  BY <1>2, <2>1 DEF FrameInv, FramesInOrder, Planned, Follows
<1>5. CASE Control
  <2>1. PICK c \in Commands : st' = Applied(st, c)
    BY <1>5, ControlFacts
  <2>2. /\ skipped' = IF MidFrame /\ st'.passes # st.passes
                      THEN skipped \cup {<<epoch, st'.passes>>} ELSE skipped
        /\ UNCHANGED <<epoch, planned, tick>>
    BY <1>5, ControlFacts
  <2>3. SamePass(st', st) \/ NextPass(st', st)
    BY <1>1, <2>1, AppliedEffect
  <2>4. skipped \subseteq skipped' /\ (MidFrame' <=> MidFrame)
    BY <2>2 DEF MidFrame
  <2>5. FramesInOrder'
    BY <1>2, <2>2, <2>4 DEF FramesInOrder
  <2>6. CASE SamePass(st', st)
    <3>1. MidFrame => Planned(st)'
      BY <1>2, <2>2, <2>4, <2>6 DEF Planned, SamePass
    <3>2. ~MidFrame => Follows(st)'
      BY <1>2, <2>2, <2>4, <2>6 DEF Follows, SamePass
    <3>. QED  BY <2>4, <2>5, <3>1, <3>2 DEF FrameInv
  <2>7. CASE NextPass(st', st)
    <3>1. st'.frame = 0 /\ st'.passes # st.passes
      BY <1>1, <2>7 DEF NextPass, StateOK, States
    <3>2. MidFrame => Planned(st)'
      BY <2>2, <3>1 DEF Planned
    <3>3. Follows(st)'
      BY <3>1 DEF Follows
    <3>. QED  BY <2>4, <2>5, <3>2, <3>3 DEF FrameInv
  <2>. QED  BY <2>3, <2>6, <2>7
<1>6. CASE Wake
  <2>1. ~MidFrame /\ MidFrame' /\ StartFrame(st) /\ UNCHANGED <<st, epoch, skipped>>
    BY <1>6, WakeStep
  <2>. QED  BY <1>1, <1>2, <2>1, StartInOrder
<1>7. CASE \E t \in Topics : Send(t)
  <2>1. PICK t \in Topics : Send(t)
    BY <1>7
  <2>2. /\ MidFrame /\ UNCHANGED <<epoch, skipped>>
        /\ GoOn(t) \/ GoAhead \/ TickOver
    BY <2>1, SendStep
  <2>3. CASE GoOn(t)
    <3>1. UNCHANGED <<st, planned>> /\ MidFrame'
      BY <2>3 DEF GoOn, MidFrame
    <3>. QED  BY <1>2, <2>2, <3>1 DEF FrameInv, FramesInOrder, Planned
  <2>4. Follows(Advance(st)) /\ StateOK(Advance(st))
    BY <1>1, <1>2, <2>2, FollowsPlanned, AdvanceEffect
  <2>5. CASE GoAhead
    <3>1. StartFrame(Advance(st)) /\ st' = Advance(st) /\ MidFrame'
      BY <2>5 DEF GoAhead, MidFrame
    <3>. QED  BY <1>1, <1>2, <2>2, <2>4, <3>1, StartInOrder
  <2>6. CASE TickOver
    <3>1. st' = Advance(st) /\ planned' = planned /\ ~MidFrame'
      BY <2>6 DEF TickOver, MidFrame
    <3>. QED  BY <1>2, <2>2, <2>4, <3>1 DEF FrameInv, FramesInOrder, Follows
  <2>. QED  BY <2>2, <2>3, <2>5, <2>6
<1>8. CASE RestartSim
  <2>1. st'.frame = 0 /\ UNCHANGED <<planned, skipped>> /\ ~MidFrame'
    BY <1>8 DEF RestartSim, Started, Asleep, MidFrame
  <2>. QED  BY <1>2, <2>1 DEF FrameInv, FramesInOrder, Follows
<1>. QED  BY <1>4, <1>5, <1>6, <1>7, <1>8 DEF Next

(***************************************************************************)
(* OwedInv                                                                 *)
(***************************************************************************)

\* Beginning a frame pays what the overlays owe of it.
LEMMA StartOwed ==
  \A s : /\ StateOK(s) /\ \A o \in Overlays \ late : owed[o] = Owes(s, o, FALSE)
         /\ StartFrame(s) /\ st' = s /\ MidFrame' /\ late' = late
    => OwedInv'
<1>. TAKE s
<1>. HAVE /\ StateOK(s) /\ \A o \in Overlays \ late : owed[o] = Owes(s, o, FALSE)
          /\ StartFrame(s) /\ st' = s /\ MidFrame' /\ late' = late
<1>1. owed' = [o \in Overlays |-> owed[o] \ {x.frame : x \in {y \in s.overlays : y.name = o}}]
  BY DEF StartFrame
<1>2. \A x \in s.overlays : x.frame \in Nat /\ \A y \in s.overlays : y.name = x.name => y = x
  BY DEF StateOK, States
<1>3. ASSUME NEW o \in Overlays \ late  PROVE  owed'[o] = Owes(s, o, TRUE)
  <2>1. owed'[o] = Owes(s, o, FALSE) \ {x.frame : x \in {y \in s.overlays : y.name = o}}
    BY <1>1, <1>3
  <2>2. ASSUME NEW f \in 0 .. Frames[o] - 1
        PROVE  f \in owed'[o] <=> f \in Owes(s, o, TRUE)
    <3>1. f \in Nat
      BY <2>2
    <3>2. f \in Owes(s, o, FALSE) <=> \E x \in s.overlays : x.name = o /\ x.frame <= f
      BY <1>2, <3>1 DEF Owes, Before
    <3>3. f \in Owes(s, o, TRUE) <=> \E x \in s.overlays : x.name = o /\ x.frame < f
      BY <1>2, <3>1 DEF Owes, Before
    <3>4. f \in {x.frame : x \in {y \in s.overlays : y.name = o}}
            <=> \E x \in s.overlays : x.name = o /\ x.frame = f
      OBVIOUS
    <3>5. (\E x \in s.overlays : x.name = o /\ x.frame < f)
            <=> /\ \E x \in s.overlays : x.name = o /\ x.frame <= f
                /\ ~\E x \in s.overlays : x.name = o /\ x.frame = f
      BY <1>2, <3>1
    <3>. QED  BY <2>1, <3>2, <3>3, <3>4, <3>5
  <2>3. Owes(s, o, TRUE) \subseteq 0 .. Frames[o] - 1 /\ owed'[o] \subseteq 0 .. Frames[o] - 1
    BY <2>1 DEF Owes
  <2>. QED  BY <2>2, <2>3
<1>. QED  BY <1>3 DEF OwedInv, Owes, Before

\* advance() moves the overlays to the frames they owe next.
LEMMA OwesAdvance ==
  \A s : StateOK(s) => \A o \in Overlays : Owes(Advance(s), o, FALSE) = Owes(s, o, TRUE)
<1>. TAKE s
<1>. HAVE StateOK(s)
<1>. TAKE o \in Overlays
<1>. DEFINE n == Advance(s)
<1>1. StepsOn(n, s) /\ StateOK(n)
  BY AdvanceEffect
<1>. HIDE DEF n
<1>2. /\ \A x \in s.overlays : x.frame \in Nat
      /\ \A x \in n.overlays : x.frame \in Nat
  BY <1>1 DEF StateOK, States
<1>3. Frames[o] \in Nat
  BY CatalogAssumption DEF Scenarios
<1>4. ASSUME NEW f \in 0 .. Frames[o] - 1
      PROVE  f \in Owes(n, o, FALSE) <=> f \in Owes(s, o, TRUE)
  <2>1. f \in Nat /\ f < Frames[o]
    BY <1>3, <1>4
  <2>2. f \in Owes(n, o, FALSE) <=> \E x \in n.overlays : x.name = o /\ x.frame <= f
    BY <1>2, <2>1 DEF Owes, Before
  <2>3. f \in Owes(s, o, TRUE) <=> \E x \in s.overlays : x.name = o /\ x.frame < f
    BY <1>2, <2>1 DEF Owes, Before
  <2>4. ASSUME NEW x \in n.overlays, x.name = o, x.frame <= f
        PROVE  \E y \in s.overlays : y.name = o /\ y.frame < f
    <3>1. PICK y \in s.overlays : x.name = y.name /\ x.frame = y.frame + 1
      BY <1>1 DEF StepsOn
    <3>. QED  BY <1>2, <2>1, <2>4, <3>1
  <2>5. ASSUME NEW y \in s.overlays, y.name = o, y.frame < f
        PROVE  \E x \in n.overlays : x.name = o /\ x.frame <= f
    <3>1. y.frame + 1 < Frames[y.name]
      BY <1>2, <1>3, <2>1, <2>5
    <3>2. PICK x \in n.overlays : x.name = y.name /\ x.frame = y.frame + 1
      BY <1>1, <3>1 DEF StepsOn
    <3>. QED  BY <1>2, <2>1, <2>5, <3>2
  <2>. QED  BY <2>2, <2>3, <2>4, <2>5
<1>5. Owes(n, o, FALSE) \subseteq 0 .. Frames[o] - 1 /\ Owes(s, o, TRUE) \subseteq 0 .. Frames[o] - 1
  BY DEF Owes
<1>6. Owes(n, o, FALSE) = Owes(s, o, TRUE)
  BY <1>4, <1>5
<1>. QED  BY <1>6 DEF n

\* Which overlays play decides what is owed.
LEMMA OwesSame ==
  \A s, n, b : n.overlays = s.overlays => \A o : Owes(n, o, b) = Owes(s, o, b)
BY DEF Owes

\* Every step keeps OwedInv.
LEMMA StepOwed == TypeOK /\ OwedInv /\ [Next]_vars => OwedInv'
<1>. HAVE TypeOK /\ OwedInv /\ [Next]_vars
<1>1. StateOK(st)
  BY TypeFacts
<1>2. \A o \in Overlays \ late : owed[o] = Owes(st, o, MidFrame)
  BY DEF OwedInv
<1>4. CASE CommitControl \/ CommitFails \/ Reopen \/ Emit \/ EmitFails \/ UNCHANGED vars
  <2>1. UNCHANGED <<st, owed, late>> /\ (MidFrame' <=> MidFrame)
    BY <1>4, QuietStep DEF Quiet, StepVars, history
  <2>. QED  BY <1>2, <2>1 DEF OwedInv, Owes, Before
<1>5. CASE Control
  <2>1. PICK c \in Commands :
          /\ st' = Applied(st, c)
          /\ owed' = IF Accepts(c) THEN [owed EXCEPT ![c.scenario] = 0 .. Frames[c.scenario] - 1]
                     ELSE owed
          /\ late' = IF Accepts(c)
                     THEN IF MidFrame THEN late \cup {c.scenario} ELSE late \ {c.scenario}
                     ELSE late
    BY <1>5, ControlFacts
  <2>2. MidFrame' <=> MidFrame
    BY <1>5, ControlFacts DEF MidFrame
  <2>3. CASE ~Accepts(c)
    <3>1. st'.overlays = st.overlays /\ owed' = owed /\ late' = late
      BY <1>1, <2>1, <2>3, AppliedEffect DEF Accepts, SameOverlays
    <3>. QED  BY <1>2, <2>2, <3>1 DEF OwedInv, Owes, Before
  <2>4. CASE Accepts(c)
    <3>. DEFINE a == c.scenario
    <3>1. a \in Overlays /\ OneMore(st', st, a)
      BY <1>1, <2>1, <2>4, AppliedEffect DEF Accepts
    <3>2. owed' = [owed EXCEPT ![a] = 0 .. Frames[a] - 1] /\ owed \in [Overlays -> SUBSET Nat]
      BY <2>1, <2>4 DEF TypeOK
    <3>3. late' = IF MidFrame THEN late \cup {a} ELSE late \ {a}
      BY <2>1, <2>4
    <3>. HIDE DEF a
    <3>4. /\ owed'[a] = 0 .. Frames[a] - 1
          /\ \A o \in Overlays \ {a} : owed'[o] = owed[o]
      BY <3>1, <3>2
    <3>5. st'.overlays = st.overlays \cup {[name |-> a, frame |-> 0]}
      BY <3>1 DEF OneMore
    <3>6. ASSUME NEW o \in Overlays \ {a}, o \notin late  PROVE  owed'[o] = Owes(st, o, MidFrame)'
      <4>1. owed[o] = Owes(st, o, MidFrame)
        BY <1>2, <3>6
      <4>2. \A f : (\E x \in st.overlays : x.name = o /\ Before(x.frame, f, ~MidFrame))
                     <=> \E x \in st'.overlays : x.name = o /\ Before(x.frame, f, ~MidFrame)
        BY <3>5, <3>6
      <4>3. Owes(st, o, MidFrame) = Owes(st', o, MidFrame)
        BY <4>2 DEF Owes
      <4>4. Owes(st, o, MidFrame)' = Owes(st', o, MidFrame)
        BY <2>2 DEF Owes, Before
      <4>. QED  BY <3>4, <3>6, <4>1, <4>3, <4>4
    <3>7. CASE MidFrame
      BY <3>3, <3>6, <3>7 DEF OwedInv
    <3>8. CASE ~MidFrame
      <4>1. Owes(st, a, MidFrame)' = 0 .. Frames[a] - 1
        <5>1. \A f \in 0 .. Frames[a] - 1 : Before(0, f, TRUE)
          BY DEF Before
        <5>. DEFINE x == [name |-> a, frame |-> 0]
        <5>2. x \in st'.overlays /\ x.name = a /\ x.frame = 0
          BY <3>5
        <5>. HIDE DEF x
        <5>3. \A f \in 0 .. Frames[a] - 1 : \E y \in st'.overlays : y.name = a /\ Before(y.frame, f, TRUE)
          BY <5>1, <5>2
        <5>. QED  BY <2>2, <3>8, <5>3 DEF Owes, Before
      <4>. QED  BY <3>3, <3>4, <3>6, <3>8, <4>1 DEF OwedInv
    <3>. QED  BY <3>7, <3>8
  <2>. QED  BY <2>3, <2>4
<1>6. CASE Wake
  <2>1. ~MidFrame /\ MidFrame' /\ StartFrame(st) /\ UNCHANGED <<st, late>>
    BY <1>6, WakeStep
  <2>2. \A o \in Overlays \ late : owed[o] = Owes(st, o, FALSE)
    BY <1>2, <2>1 DEF Owes, Before
  <2>. QED  BY <1>1, <2>1, <2>2, StartOwed
<1>7. CASE \E t \in Topics : Send(t)
  <2>1. PICK t \in Topics : Send(t)
    BY <1>7
  <2>2. MidFrame /\ late' = late /\ (GoOn(t) \/ GoAhead \/ TickOver)
    BY <2>1, SendStep
  <2>3. \A o \in Overlays \ late : owed[o] = Owes(st, o, TRUE)
    BY <1>2, <2>2 DEF Owes, Before
  <2>4. \A o \in Overlays \ late : owed[o] = Owes(Advance(st), o, FALSE)
    BY <1>1, <2>3, OwesAdvance
  <2>5. CASE GoOn(t)
    <3>1. st' = st /\ owed' = owed /\ MidFrame'
      BY <2>5 DEF GoOn, MidFrame
    <3>. QED  BY <2>2, <2>3, <3>1 DEF OwedInv, Owes, Before
  <2>6. CASE GoAhead
    <3>1. StartFrame(Advance(st)) /\ st' = Advance(st) /\ MidFrame' /\ StateOK(Advance(st))
      BY <1>1, <2>6, AdvanceEffect DEF GoAhead, MidFrame
    <3>. QED  BY <2>2, <2>4, <3>1, StartOwed
  <2>7. CASE TickOver
    <3>1. st' = Advance(st) /\ owed' = owed /\ ~MidFrame'
      BY <2>7 DEF TickOver, MidFrame
    <3>. QED  BY <2>2, <2>4, <3>1 DEF OwedInv, Owes, Before
  <2>. QED  BY <2>2, <2>5, <2>6, <2>7
<1>8. CASE RestartSim
  <2>1. st' = Started /\ owed' = [o \in Overlays |-> {}]
    BY <1>8 DEF RestartSim
  <2>2. st'.overlays = {}
    BY <2>1 DEF Started
  <2>3. \A o \in Overlays : Owes(st, o, MidFrame)' = {}
    BY <2>2 DEF Owes
  <2>. QED  BY <2>1, <2>3 DEF OwedInv
<1>. QED  BY <1>4, <1>5, <1>6, <1>7, <1>8 DEF Next

(***************************************************************************)
(* ProducedExact                                                           *)
(***************************************************************************)

Counted(t) == reported[t] + tick.metrics[t]

\* ProducedExact, with the counts named.
LEMMA ProducedParts ==
  /\ ProducedExact <=> \A t \in Topics : /\ Counted(t) <= Cardinality(OnTopic(t))
                                         /\ faults = 0 => Counted(t) = Cardinality(OnTopic(t))
  /\ ProducedExact' <=> \A t \in Topics :
                          /\ Counted(t)' <= Cardinality(OnTopic(t)')
                          /\ faults' = 0 => Counted(t)' = Cardinality(OnTopic(t)')
BY DEF ProducedExact, Counted, OnTopic, Topics

\* The records of a topic are finitely many, and so are the counts.
LEMMA CountFacts ==
  TypeOK => \A t \in Topics : /\ IsFiniteSet(OnTopic(t)) /\ Cardinality(OnTopic(t)) \in Nat
                              /\ reported[t] \in Nat /\ tick.metrics[t] \in Nat /\ faults \in Nat
<1>. HAVE TypeOK
<1>1. /\ reported \in [Topics -> Nat] /\ tick.metrics \in [Topics -> Nat] /\ faults \in Nat
      /\ IsFiniteSet(DOMAIN sent)
  BY TypeFacts DEF TypeOK
<1>. TAKE t \in Topics
<1>2. OnTopic(t) \in SUBSET DOMAIN sent
  BY DEF OnTopic
<1>3. IsFiniteSet(OnTopic(t)) /\ Cardinality(OnTopic(t)) \in Nat
  BY <1>1, <1>2, FS_Subset, FS_CardinalityType
<1>. QED  BY <1>1, <1>3

\* Every step keeps ProducedExact.
LEMMA StepProduced ==
  TypeOK /\ UniqueIds /\ StampInv /\ ProducedExact /\ [Next]_vars => ProducedExact'
<1>. HAVE TypeOK /\ UniqueIds /\ StampInv /\ ProducedExact /\ [Next]_vars
<1>1. \A t \in Topics : /\ Counted(t) <= Cardinality(OnTopic(t))
                        /\ faults = 0 => Counted(t) = Cardinality(OnTopic(t))
  BY ProducedParts
<1>2. \A t \in Topics : /\ IsFiniteSet(OnTopic(t)) /\ Cardinality(OnTopic(t)) \in Nat
                        /\ reported[t] \in Nat /\ tick.metrics[t] \in Nat /\ faults \in Nat
  BY CountFacts
<1>3. faults \in Nat
  BY DEF TypeOK
<1>4. CASE Control \/ CommitControl \/ CommitFails \/ Reopen \/ Wake \/ UNCHANGED vars
  <2>1. reported' = reported /\ sent' = sent /\ (faults' = faults \/ faults' = faults + 1)
    BY <1>4 DEF Control, CommitControl, CommitFails, Reopen, Wake, Fault, vars
  <2>2. tick'.metrics = tick.metrics
    <3>1. CASE Wake
      BY <3>1, WakeStep
    <3>2. CASE ~Wake
      BY <1>4, <3>2 DEF Control, CommitControl, CommitFails, Reopen, vars
    <3>. QED  BY <3>1, <3>2
  <2>3. \A t \in Topics : Counted(t)' = Counted(t) /\ OnTopic(t)' = OnTopic(t)
    BY <2>1, <2>2 DEF Counted, OnTopic
  <2>4. faults' = 0 => faults = 0
    BY <1>3, <2>1
  <2>. QED  BY <1>1, <2>3, <2>4, ProducedParts
<1>5. CASE Emit
  <2>1. /\ reported' = [t \in Topics |-> reported[t] + tick.metrics[t]] /\ tick' = Asleep
        /\ UNCHANGED <<sent, faults>>
    BY <1>5 DEF Emit
  <2>2. \A t \in Topics : tick'.metrics[t] = 0
    BY <2>1 DEF Asleep, NoCounts
  <2>3. \A t \in Topics : Counted(t)' = Counted(t) /\ OnTopic(t)' = OnTopic(t)
    <3>. TAKE t \in Topics
    <3>1. reported'[t] = reported[t] + tick.metrics[t] /\ tick'.metrics[t] = 0
      BY <2>1, <2>2
    <3>2. Counted(t)' = reported'[t] + 0 /\ Counted(t) = reported'[t]
      BY <3>1 DEF Counted
    <3>3. reported'[t] \in Nat
      BY <1>2, <3>1
    <3>. QED  BY <2>1, <3>2, <3>3 DEF OnTopic
  <2>. QED  BY <1>1, <2>1, <2>3, ProducedParts
<1>6. CASE EmitFails \/ RestartSim
  <2>1. /\ tick' = Asleep /\ UNCHANGED <<sent, reported>> /\ faults' = faults + 1
    BY <1>6 DEF EmitFails, RestartSim, Fault
  <2>2. \A t \in Topics : tick'.metrics[t] = 0
    BY <2>1 DEF Asleep, NoCounts
  <2>3. \A t \in Topics : Counted(t)' <= Counted(t) /\ OnTopic(t)' = OnTopic(t) /\ Counted(t)' \in Nat
    <3>. TAKE t \in Topics
    <3>1. reported'[t] = reported[t] /\ tick'.metrics[t] = 0
      BY <2>1, <2>2
    <3>2. Counted(t)' = reported[t] + 0 /\ Counted(t) = reported[t] + tick.metrics[t]
      BY <3>1 DEF Counted
    <3>3. reported[t] \in Nat /\ tick.metrics[t] \in Nat
      BY <1>2
    <3>4. Counted(t)' <= Counted(t) /\ Counted(t)' \in Nat
      BY <3>2, <3>3
    <3>. QED  BY <2>1, <3>4 DEF OnTopic
  <2>4. faults' # 0
    BY <1>3, <2>1
  <2>5. \A t \in Topics : Counted(t)' <= Cardinality(OnTopic(t)')
    <3>. TAKE t \in Topics
    <3>1. Counted(t) \in Nat
      BY <1>2 DEF Counted
    <3>. QED  BY <1>1, <1>2, <2>3, <3>1
  <2>. QED  BY <2>4, <2>5, ProducedParts
<1>7. CASE \E t \in Topics : Send(t)
  <2>1. PICK t \in Topics : Send(t)
    BY <1>7
  <2>2. reported' = reported
    BY <2>1, SendStep
  <2>3. PICK acked, kept : Sent(t, acked, kept)
    BY <2>1, SendStep
  <2>4. /\ DOMAIN sent' = DOMAIN sent \cup kept /\ kept \cap DOMAIN sent = {}
        /\ \A r \in kept : r.line.topic = t
    BY <2>3, SentOut
  <2>5. /\ acked \in SUBSET kept /\ kept \in SUBSET plan[t]
        /\ faults' = faults + (IF acked = plan[t] THEN 0 ELSE 1)
        /\ tick'.metrics = [tick.metrics EXCEPT ![t] = @ + Cardinality(acked)]
    BY <2>3 DEF Sent
  <2>6. tick.metrics \in [Topics -> Nat]
    BY TypeFacts
  <2>7. /\ IsFiniteSet(kept) /\ Cardinality(kept) \in Nat
        /\ Cardinality(acked) \in Nat /\ Cardinality(acked) <= Cardinality(kept)
    <3>1. IsFiniteSet(plan[t])
      BY DEF TypeOK
    <3>2. IsFiniteSet(kept)
      BY <2>5, <3>1, FS_Subset
    <3>3. IsFiniteSet(acked) /\ Cardinality(acked) <= Cardinality(kept)
      BY <2>5, <3>2, FS_Subset
    <3>. QED  BY <3>2, <3>3, FS_CardinalityType
  <2>8. faults' = 0 => faults = 0 /\ acked = kept
    <3>1. faults' = 0 => faults = 0 /\ acked = plan[t]
      BY <1>3, <2>5
    <3>2. acked = plan[t] => acked = kept
      BY <2>5
    <3>. QED  BY <3>1, <3>2
  <2>9. \A u \in Topics \ {t} : Counted(u)' = Counted(u) /\ OnTopic(u)' = OnTopic(u)
    BY <2>2, <2>4, <2>5, <2>6 DEF Counted, OnTopic
  <2>10. Counted(t)' = Counted(t) + Cardinality(acked)
    <3>1. tick'.metrics[t] = tick.metrics[t] + Cardinality(acked)
      BY <2>5, <2>6
    <3>. QED  BY <1>2, <2>2, <2>7, <3>1 DEF Counted
  <2>11. Cardinality(OnTopic(t)') = Cardinality(OnTopic(t)) + Cardinality(kept)
    <3>1. OnTopic(t)' = OnTopic(t) \cup kept /\ OnTopic(t) \cap kept = {}
      BY <2>4 DEF OnTopic
    <3>2. Cardinality(OnTopic(t) \cup kept)
            = Cardinality(OnTopic(t)) + Cardinality(kept) - Cardinality(OnTopic(t) \cap kept)
      BY <1>2, <2>7, FS_Union
    <3>3. Cardinality(OnTopic(t) \cap kept) = 0
      BY <3>1, FS_EmptySet
    <3>4. Cardinality(OnTopic(t)) \in Nat
      BY <1>2
    <3>. DEFINE a == Cardinality(OnTopic(t))
                b == Cardinality(kept)
    <3>5. Cardinality(OnTopic(t)') = a + b - 0
      BY <3>1, <3>2, <3>3
    <3>6. a \in Nat /\ b \in Nat
      BY <2>7, <3>4
    <3>. HIDE DEF a, b
    <3>7. Cardinality(OnTopic(t)') = a + b
      BY <3>5, <3>6
    <3>. QED  BY <3>7 DEF a, b
  <2>12. /\ Counted(t)' <= Cardinality(OnTopic(t)')
         /\ faults' = 0 => Counted(t)' = Cardinality(OnTopic(t)')
    <3>1. Counted(t) \in Nat /\ Cardinality(OnTopic(t)) \in Nat
      BY <1>2 DEF Counted
    <3>2. /\ Counted(t) <= Cardinality(OnTopic(t))
          /\ faults = 0 => Counted(t) = Cardinality(OnTopic(t))
      BY <1>1
    <3>. QED  BY <2>7, <2>8, <2>10, <2>11, <3>1, <3>2
  <2>13. \A u \in Topics \ {t} : /\ Counted(u)' <= Cardinality(OnTopic(u)')
                                 /\ faults' = 0 => Counted(u)' = Cardinality(OnTopic(u)')
    BY <1>1, <2>8, <2>9
  <2>. QED  BY <2>12, <2>13, ProducedParts
<1>. QED  BY <1>4, <1>5, <1>6, <1>7 DEF Next

(***************************************************************************)
(* The theorems                                                            *)
(***************************************************************************)

\* The start satisfies the invariant.
LEMMA InitInv == Init => Inv
<1>. HAVE Init
<1>1. /\ st = Started /\ epoch = 1 /\ plan = NoPlan /\ tick = Asleep /\ sent = EmptyBag
      /\ reported = NoCounts /\ controls = <<>> /\ reader = Reopened(0)
      /\ owed = [o \in Overlays |-> {}] /\ late = {} /\ planned = {} /\ skipped = {}
      /\ frames = 0 /\ faults = 0
  BY DEF Init
<1>2. DOMAIN sent = {} /\ IsABag(sent)
  BY <1>1 DEF EmptyBag, SetToBag, IsABag
<1>3. Out = {} /\ ~MidFrame /\ \A t \in Topics : plan[t] = {}
  BY <1>1, <1>2 DEF Out, MidFrame, NoPlan, Asleep
<1>4. TypeOK
  <2>1. StateTyped
    BY <1>1, CatalogAssumption, FS_EmptySet
    DEF StateTyped, StateOK, Started, States, Scenarios, Ticks, Asleep, NoCounts
  <2>2. PlanTyped
    BY <1>1, FS_EmptySet DEF PlanTyped, NoPlan, Asleep
  <2>3. ReaderTyped
    BY <1>1 DEF ReaderTyped, Reopened
  <2>4. SentTyped
    BY <1>2, FS_EmptySet DEF SentTyped
  <2>5. HistTyped /\ CountTyped
    BY <1>1 DEF HistTyped, CountTyped, NoCounts
  <2>. QED  BY <2>1, <2>2, <2>3, <2>4, <2>5, TypeParts
<1>5. UniqueIds /\ StampInv /\ SourceInv
  BY <1>2, <1>3 DEF UniqueIds, StampInv, SourceInv
<1>6. ProducedExact
  <2>1. \A t \in Topics : OnTopic(t) = {} /\ reported[t] + tick.metrics[t] = 0
    BY <1>1, <1>2 DEF OnTopic, NoCounts, Asleep
  <2>. QED  BY <2>1, FS_EmptySet DEF ProducedExact
<1>7. FrameInv
  BY <1>1, <1>3 DEF FrameInv, FramesInOrder, Follows, Started
<1>8. OwedInv
  BY <1>1 DEF OwedInv, Owes, Started
<1>. QED  BY <1>4, <1>5, <1>6, <1>7, <1>8 DEF Inv

\* Every control record, send, failure and restart keeps the invariant.
THEOREM Invariance == Spec => []Inv
<1>1. Inv /\ [Next]_vars => Inv'
  BY StepType, StepStamps, StepSource, StepFrame, StepOwed, StepProduced DEF Inv
<1>. QED  BY InitInv, <1>1, PTL DEF Spec

\* No stamped record is on a topic twice, whatever controls land between two
\* sends, are read again after a reopen, or a restart (lib.rs:329-357).
THEOREM UniqueIdsTheorem == Spec => []UniqueIds
<1>1. Inv => UniqueIds
  BY DEF Inv
<1>. QED  BY Invariance, <1>1, PTL

\* In one pass the loop records of a topic come from one scenario (lib.rs:224-245,
\* 412-424).
THEOREM PassHoldsOneLoopTheorem == Spec => []PassHoldsOneLoop
<1>1. Inv => PassHoldsOneLoop
  BY DEF Inv, SourceInv, PassHoldsOneLoop, Out
<1>. QED  BY Invariance, <1>1, PTL

\* The `produced` metrics never exceed what the topics hold, and without a
\* failure they are it (lib.rs:388-408, 437-444).
THEOREM ProducedExactTheorem == Spec => []ProducedExact
<1>1. Inv => ProducedExact
  BY DEF Inv
<1>. QED  BY Invariance, <1>1, PTL

\* A pass plays its frames in order, but for its frame 0 when a control began it
\* while a frame was being sent (lib.rs:485-506).
THEOREM FramesInOrderTheorem == Spec => []FramesInOrder
<1>1. Inv => FramesInOrder
  BY DEF Inv, FrameInv
<1>. QED  BY Invariance, <1>1, PTL

\* An overlay accepted between frames plays until it owes no frame
\* (lib.rs:246-266, 425-434).
THEOREM OverlayPlaysWholeTheorem == Spec => []OverlayPlaysWhole
<1>1. Inv => OverlayPlaysWhole
  <2>. HAVE Inv
  <2>. SUFFICES ASSUME NEW o \in Overlays \ late, owed[o] # {}  PROVE  o \in OverlayNames
    BY DEF OverlayPlaysWhole
  <2>1. owed[o] = Owes(st, o, MidFrame)
    BY DEF Inv, OwedInv
  <2>2. PICK x \in st.overlays : x.name = o
    BY <2>1 DEF Owes
  <2>. QED  BY <2>2 DEF OverlayNames
<1>. QED  BY Invariance, <1>1, PTL
=============================================================================
