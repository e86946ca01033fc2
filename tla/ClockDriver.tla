----------------------------- MODULE ClockDriver -----------------------------
(***************************************************************************)
(* One StepClock under an arbitrary sequence of calls, with wall time      *)
(* passing between them.  The frame timer is not punctual: a tick may come *)
(* up to MaxLag milliseconds after the previous one, so that several steps *)
(* fall due at once (a machine that slept, a window that was hidden).      *)
(***************************************************************************)
EXTENDS StepClock

CONSTANTS Start, End,    \* the replay range
          StepSizes,     \* the step sizes the active streams can give
          Speeds,        \* the speeds set_speed is called with, zero included
          Targets,       \* the times seek is called with
          MaxLag,        \* longest wall time between two ticks
          MaxPlayed      \* bound on the wall time "pace" counts

ASSUME DriverAssumption ==
  /\ Start \in Nat /\ End \in Nat /\ Start < End
  /\ StepSizes \subseteq Nat \ {0} /\ StepSizes # {}
  /\ Speeds \subseteq Nat
  /\ Targets \subseteq Nat
  /\ MaxLag \in Nat \ {0}
  /\ MaxPlayed \in Nat

VARIABLES
  clock,
  pace   \* history: wall time played and steps taken since the last play(),
         \* at one speed, one step size and without a seek in between

vars == <<clock, pace>>

NoPace == [counting |-> FALSE, played |-> 0, origin |-> 0]
PaceFrom(c) == [counting |-> TRUE, played |-> 0, origin |-> c.now]

TypeOK ==
  /\ clock \in Clock
  /\ pace \in [counting : BOOLEAN, played : 0 .. MaxPlayed, origin : Nat]

Init ==
  /\ \E step \in StepSizes : clock = NewClock(Start, End, step)
  /\ pace = NoPace

DoPlay    == clock' = Play(clock) /\ pace' = PaceFrom(clock)
DoPause   == clock' = Pause(clock) /\ pace' = NoPace
DoSeek(t) == clock' = Seek(clock, t) /\ pace' = NoPace
DoSetSpeed(s) == clock' = SetSpeed(clock, s) /\ pace' = NoPace
DoSetStepSize(step) == clock' = SetStepSize(clock, step) /\ pace' = NoPace
DoSetWaiting == clock' = SetWaiting(clock) /\ pace' = NoPace

DoResumeFromWaiting ==
  /\ clock.status = "Waiting"
  /\ clock' = ResumeFromWaiting(clock)
  /\ pace' = PaceFrom(clock)

DoTick(elapsed) ==
  /\ clock.status = "Playing"
  /\ clock' = Tick(clock, elapsed)
  /\ pace' = IF /\ pace.counting
                /\ clock'.status = "Playing"
                /\ pace.played + elapsed <= MaxPlayed
               THEN [pace EXCEPT !.played = @ + elapsed]
               ELSE NoPace

Ticking == \E elapsed \in 1 .. MaxLag : DoTick(elapsed)

Caller ==
  \/ DoPlay
  \/ DoPause
  \/ \E t \in Targets : DoSeek(t)
  \/ \E s \in Speeds : DoSetSpeed(s)
  \/ \E step \in StepSizes : DoSetStepSize(step)
  \/ DoSetWaiting
  \/ DoResumeFromWaiting

Next == Caller \/ Ticking

(* Message::Tick fires on every UI frame (src/src/main.rs, subscription()). *)
Spec == Init /\ [][Next]_vars /\ WF_vars(Ticking)

-----------------------------------------------------------------------------
(* tick() as it is written, a loop: Iterate is its body, and most is at    *)
(* least how often it runs, as a delay is a millisecond or more.           *)
IsDue(c) == c.status = "Playing" /\ c.wait <= 0

Iterate(c) ==
  LET n == IF c.now + c.step < c.end THEN c.now + c.step ELSE c.end
  IN IF ~IsDue(c) THEN c
     ELSE IF n >= c.end THEN [Pause(c) EXCEPT !.now = n]
     ELSE [c EXCEPT !.now = n, !.wait = @ + StepDelay(c)]

CatchUp(c, most) ==
  LET loop[k \in 0 .. most] == IF k = 0 THEN c ELSE Iterate(loop[k - 1])
  IN loop[most]

LoopTick(c, elapsed) ==
  IF c.status # "Playing" THEN c
  ELSE IF StepDelay(c) = 0 THEN [Pause(c) EXCEPT !.now = c.end]
  ELSE CatchUp([c EXCEPT !.wait = @ - elapsed], IF elapsed < c.wait THEN 0 ELSE elapsed - c.wait + 1)

(* The closed form of Tick is what the loop comes to, for every tick that  *)
(* could come next; and there the loop ends (the catch-up loop of tick()). *)
TickIsTheLoop ==
  \A elapsed \in 0 .. (2 * MaxLag) :
    Tick(clock, elapsed) = LoopTick(clock, elapsed) /\ ~IsDue(LoopTick(clock, elapsed))

(* Whatever the order of the calls, the clock stays in its range and on a  *)
(* bar boundary of its step size (or at the end of the range), and it has  *)
(* a due time exactly when it plays: tick() unwraps it (clock.rs, "now_ms  *)
(* は常にバー境界値").                                                     *)
ClockSane == ClockOK(clock)

(* Late ticks neither lose nor repeat a step: however the wall time of one *)
(* uninterrupted stretch of playing was cut into ticks, the clock stands   *)
(* at floor(played / delay) steps from where it was started                *)
(* (the catch-up loop of tick()).                                          *)
KeepsPace ==
  (pace.counting /\ StepDelay(clock) > 0) =>
    clock.now = pace.origin + (pace.played \div StepDelay(clock)) * clock.step

(* Left alone, a playing clock comes to rest at the end of its range, also *)
(* when the last step is shorter than the others.                          *)
RunsToTheEnd ==
  (<>[][~Caller]_vars) =>
    ((clock.status = "Playing") ~> (clock.status # "Playing"))
=============================================================================
