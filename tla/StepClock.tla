------------------------------ MODULE StepClock ------------------------------
(***************************************************************************)
(* The virtual clock of a replay (src/src/replay/clock.rs): a bar-stepped  *)
(* cursor that a UI frame asks, again and again, whether a step is due.    *)
(*                                                                         *)
(* A clock is a record.  The Instant next_step_at is kept relative to the  *)
(* wall clock: "armed" says whether it is Some, and "wait" is how many     *)
(* milliseconds of wall time are left until it (negative when it is past). *)
(* Every operator is one method; Tick takes the wall time that went by     *)
(* since the clock was last looked at.                                     *)
(***************************************************************************)
EXTENDS Integers

CONSTANT BASE_STEP_DELAY_MS   \* wall milliseconds of one step at speed 1

ASSUME DelayAssumption == BASE_STEP_DELAY_MS \in Nat \ {0}

ClockStatus == {"Paused", "Playing", "Waiting"}

Clock == [now    : Nat,          \* virtual time
          armed  : BOOLEAN,      \* next_step_at.is_some()
          wait   : Int,          \* next_step_at - wall now, 0 when disarmed
          step   : Nat \ {0},    \* virtual time of one step
          speed  : Nat \ {0},
          status : ClockStatus,
          start  : Nat,
          end    : Nat]

NewClock(start, end, step) ==
  [now |-> start, armed |-> FALSE, wait |-> 0, step |-> step, speed |-> 1,
   status |-> "Paused", start |-> start, end |-> end]

(* base_step_delay_ms / speed, truncated to whole milliseconds: zero for a *)
(* speed above the base delay, the "instant" replay of the tests.          *)
StepDelay(c) == BASE_STEP_DELAY_MS \div c.speed

Disarmed(c) == [c EXCEPT !.armed = FALSE, !.wait = 0]

Play(c)  == [c EXCEPT !.status = "Playing", !.armed = TRUE, !.wait = StepDelay(c)]
Pause(c) == [Disarmed(c) EXCEPT !.status = "Paused"]

(* The last multiple of step, counted from start, that is not after t.     *)
FloorTo(start, step, t) == t - ((t - start) % step)

ClampToEnd(c, t) == IF t > c.end THEN c.end ELSE t   \* mutant of Clamp

Clamp(c, t) == IF t < c.start THEN c.start ELSE IF t > c.end THEN c.end ELSE t

SeekWithoutSnap(c, t) == [c EXCEPT !.now = Clamp(c, t)]   \* mutant of Seek

(* The end of the range is a legal resting place even when no step lands   *)
(* on it; anything else snaps down to a step.                              *)
Seek(c, t) ==
  LET clamped == Clamp(c, t)
  IN  [c EXCEPT !.now = IF clamped = c.end THEN clamped
                        ELSE FloorTo(c.start, c.step, clamped)]

SetSpeed(c, s) == IF s <= 0 THEN Pause(c) ELSE [c EXCEPT !.speed = s]

(* Snaps down like Seek, but without the exception for the end.            *)
SetStepSize(c, step) ==
  [c EXCEPT !.step = step, !.now = FloorTo(c.start, step, c.now)]

SetWaiting(c) ==
  IF c.status = "Waiting" THEN c ELSE [Disarmed(c) EXCEPT !.status = "Waiting"]

ResumeFromWaiting(c) == IF c.status = "Waiting" THEN Play(c) ELSE c

(* How many steps have fallen due "elapsed" milliseconds later: the first  *)
(* when wait runs out, one more per delay after that.                      *)
StepsDueLate(c, elapsed) ==   \* mutant of StepsDue
  IF elapsed < c.wait THEN 0 ELSE (elapsed - c.wait) \div StepDelay(c)

StepsDue(c, elapsed) ==
  IF elapsed < c.wait THEN 0 ELSE 1 + ((elapsed - c.wait) \div StepDelay(c))

OneStep(c, k) ==   \* mutant of Advance
  IF k = 0 THEN c.now ELSE IF c.now + c.step < c.end THEN c.now + c.step ELSE c.end

(* The catch-up loop in closed form: k steps, cut off at the end.          *)
Advance(c, k) == IF c.now + k * c.step < c.end THEN c.now + k * c.step ELSE c.end

StopLate(c) == [c EXCEPT !.now = c.end]   \* mutant of Stop
Stop(c)     == [Pause(c) EXCEPT !.now = c.end]

Tick(c, elapsed) ==
  IF c.status # "Playing" THEN c
  ELSE IF StepDelay(c) = 0 THEN Stop(c)
  ELSE LET k == StepsDue(c, elapsed)
           n == Advance(c, k)
       IN  IF k > 0 /\ n = c.end THEN Stop(c)
           ELSE [c EXCEPT !.now  = IF k = 0 THEN @ ELSE n,
                          !.wait = @ - elapsed + k * StepDelay(c)]

-----------------------------------------------------------------------------
(* What holds of every clock the program can build, in named parts.        *)

InRange(c) == c.start <= c.now /\ c.now <= c.end

(* tick() unwraps next_step_at of a playing clock.                         *)
ArmedIffPlaying(c) == c.armed <=> (c.status = "Playing")

OnStep(c) == \E q \in 0 .. (c.now - c.start) : c.now = c.start + q * c.step

OnBarBoundary(c) == OnStep(c) \/ c.now = c.end

ClockOK(c) == InRange(c) /\ ArmedIffPlaying(c) /\ OnBarBoundary(c)
=============================================================================
