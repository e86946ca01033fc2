--------------------------- MODULE StepClockProofs ---------------------------
(***************************************************************************)
(* What each operator of StepClock returns, for every clock: the lemmas    *)
(* that the proofs about the modules built on it rest on.                  *)
(***************************************************************************)
EXTENDS StepClock, FiniteSetsExt, WellFoundedInduction, TLAPS

-----------------------------------------------------------------------------
(* Numbers.                                                                *)

(* Every set of naturals that is not empty has a least element, and Min is *)
(* it.                                                                     *)
LEMMA MinOfNat ==
  ASSUME NEW S, S \subseteq Nat, S # {}
  PROVE  Min(S) \in S /\ \A y \in S : Min(S) <= y
<1>1. PICK x \in S : \A y \in S : ~(<<y, x>> \in OpToRel(<, Nat))
  BY NatLessThanWellFounded, WFMin
<1>2. \A y \in S : ~(y < x)
  BY <1>1 DEF OpToRel
<1>3. \A y \in S : x <= y
  BY <1>2
<1> QED
  BY <1>3 DEF Min

(* A bounded one has a greatest, and Max is it.                            *)
LEMMA MaxOfNat ==
  ASSUME NEW S, S \subseteq Nat, S # {}, NEW n \in Nat, \A s \in S : s <= n
  PROVE  Max(S) \in S /\ \A y \in S : Max(S) >= y
<1> DEFINE T == {n - s : s \in S}
<1>1. T \subseteq Nat /\ T # {}
  <2>1. \A s \in S : n - s \in Nat
    OBVIOUS
  <2> QED
    BY <2>1
<1>2. Min(T) \in T /\ \A y \in T : Min(T) <= y
  BY <1>1, MinOfNat
<1>3. PICK x \in S : Min(T) = n - x
  BY <1>2
<1>4. \A y \in S : x >= y
  <2> TAKE y \in S
  <2>1. n - x <= n - y
    BY <1>2, <1>3
  <2> QED
    BY <2>1
<1> QED
  BY <1>4 DEF Max

(* Division with remainder, the arithmetic of "% step_size_ms" and of the  *)
(* catch-up loop.                                                          *)
LEMMA DivMod ==
  ASSUME NEW a \in Nat, NEW b \in Nat \ {0}
  PROVE  /\ a % b \in 0 .. (b - 1)
         /\ a \div b \in Nat
         /\ a = b * (a \div b) + (a % b)
BY Z3

(* A count of steps is at most the distance it covers.                     *)
LEMMA AtMostProduct ==
  ASSUME NEW q \in Nat, NEW b \in Nat \ {0}
  PROVE  q * b \in Nat /\ q <= q * b
BY Z3

(* Snapping down (seek(), set_step_size()) stays at or above start, at or  *)
(* below t, and on a step.                                                 *)
LEMMA FloorToFacts ==
  ASSUME NEW start \in Nat, NEW step \in Nat \ {0}, NEW t \in Nat, start <= t
  PROVE  /\ FloorTo(start, step, t) \in Nat
         /\ start <= FloorTo(start, step, t)
         /\ FloorTo(start, step, t) <= t
         /\ \E q \in 0 .. (FloorTo(start, step, t) - start) :
               FloorTo(start, step, t) = start + q * step
<1> DEFINE d == t - start
           q == d \div step
<1>1. d \in Nat
  OBVIOUS
<1>2. /\ d % step \in 0 .. (step - 1)
      /\ q \in Nat
      /\ d = step * q + (d % step)
  BY <1>1, DivMod
<1>3. q * step \in Nat /\ q <= q * step /\ step * q = q * step
  BY <1>2, AtMostProduct
<1> HIDE DEF q
<1>4. FloorTo(start, step, t) = start + q * step
  BY <1>1, <1>2, <1>3 DEF FloorTo
<1>5. start + q * step <= t
  BY <1>1, <1>2, <1>3
<1> QED
  BY <1>2, <1>3, <1>4, <1>5

(* base_step_delay_ms / speed is a natural number.                         *)
LEMMA StepDelayType ==
  ASSUME NEW c \in Clock
  PROVE  StepDelay(c) \in Nat
BY DelayAssumption, DivMod DEF StepDelay, Clock

(* StepClock::new() builds a sane clock.                                   *)
LEMMA NewClockOK ==
  ASSUME NEW start \in Nat, NEW end \in Nat, start <= end, NEW step \in Nat \ {0}
  PROVE  NewClock(start, end, step) \in Clock /\ ClockOK(NewClock(start, end, step))
<1> DEFINE c == NewClock(start, end, step)
<1>1. c \in Clock /\ InRange(c) /\ ArmedIffPlaying(c)
  BY DEF NewClock, Clock, ClockStatus, InRange, ArmedIffPlaying
<1>2. c.now = c.start + 0 * c.step /\ 0 \in 0 .. (c.now - c.start)
  BY DEF NewClock
<1>3. OnStep(c)
  BY <1>2 DEF OnStep
<1> QED
  BY <1>1, <1>3 DEF ClockOK, OnBarBoundary

(* Operations that leave time, step and range alone only have to keep the  *)
(* due time and the status in step.                                        *)
LEMMA SamePlace ==
  ASSUME NEW c \in Clock, ClockOK(c), NEW d \in Clock, ArmedIffPlaying(d),
         d.now = c.now, d.start = c.start, d.end = c.end, d.step = c.step
  PROVE  ClockOK(d)
BY DEF ClockOK, InRange, OnBarBoundary, OnStep

(* play() keeps a sane clock sane and arms it.                             *)
LEMMA PlayOK ==
  ASSUME NEW c \in Clock, ClockOK(c)
  PROVE  Play(c) \in Clock /\ ClockOK(Play(c))
<1>1. StepDelay(c) \in Int
  BY StepDelayType
<1>2. Play(c) \in Clock
  BY <1>1 DEF Play, Clock, ClockStatus
<1>3. Play(c).armed /\ Play(c).status = "Playing"
  BY DEF Play, Clock
<1> QED
  BY <1>2, <1>3, SamePlace DEF Play, Clock, ArmedIffPlaying

(* Clearing next_step_at changes nothing else.                             *)
LEMMA DisarmedFacts ==
  ASSUME NEW c \in Clock
  PROVE  /\ Disarmed(c) \in Clock
         /\ Disarmed(c).armed = FALSE
         /\ Disarmed(c).now = c.now /\ Disarmed(c).start = c.start
         /\ Disarmed(c).end = c.end /\ Disarmed(c).step = c.step
<1>1. Disarmed(c) \in Clock
  <2> DEFINE d == [c EXCEPT !.armed = FALSE]
  <2>1. d \in Clock
    BY DEF Clock
  <2>2. Disarmed(c) = [d EXCEPT !.wait = 0]
    BY DEF Disarmed
  <2> HIDE DEF d
  <2>3. 0 \in Int
    OBVIOUS
  <2> QED
    BY <2>1, <2>2, <2>3 DEF Clock
<1> QED
  BY <1>1 DEF Disarmed, Clock

(* pause() keeps a sane clock sane and disarms it.                         *)
LEMMA PauseOK ==
  ASSUME NEW c \in Clock, ClockOK(c)
  PROVE  Pause(c) \in Clock /\ ClockOK(Pause(c))
<1>1. Pause(c) \in Clock
  BY DisarmedFacts DEF Pause, Clock, ClockStatus
<1>2. Pause(c).armed = FALSE /\ Pause(c).status = "Paused"
  BY DisarmedFacts DEF Pause, Clock
<1>3. ArmedIffPlaying(Pause(c))
  BY <1>2 DEF ArmedIffPlaying
<1> QED
  BY <1>1, <1>3, DisarmedFacts, SamePlace DEF Pause, Clock

(* set_waiting() keeps a sane clock sane.                                  *)
LEMMA SetWaitingOK ==
  ASSUME NEW c \in Clock, ClockOK(c)
  PROVE  SetWaiting(c) \in Clock /\ ClockOK(SetWaiting(c))
<1>1. CASE c.status = "Waiting"
  BY <1>1 DEF SetWaiting
<1>2. CASE c.status # "Waiting"
  <2>1. SetWaiting(c) \in Clock
    BY <1>2, DisarmedFacts DEF SetWaiting, Clock, ClockStatus
  <2>2. SetWaiting(c).armed = FALSE /\ SetWaiting(c).status = "Waiting"
    BY <1>2, DisarmedFacts DEF SetWaiting, Clock
  <2>3. ArmedIffPlaying(SetWaiting(c))
    BY <2>2 DEF ArmedIffPlaying
  <2> QED
    BY <1>2, <2>1, <2>3, DisarmedFacts, SamePlace DEF SetWaiting, Clock
<1> QED
  BY <1>1, <1>2

(* resume_from_waiting() keeps a sane clock sane.                          *)
LEMMA ResumeFromWaitingOK ==
  ASSUME NEW c \in Clock, ClockOK(c)
  PROVE  ResumeFromWaiting(c) \in Clock /\ ClockOK(ResumeFromWaiting(c))
BY PlayOK DEF ResumeFromWaiting

(* set_speed() keeps a sane clock sane, the speed zero that pauses it      *)
(* included.                                                               *)
LEMMA SetSpeedOK ==
  ASSUME NEW c \in Clock, ClockOK(c), NEW s \in Nat
  PROVE  SetSpeed(c, s) \in Clock /\ ClockOK(SetSpeed(c, s))
<1>1. CASE s = 0
  BY <1>1, PauseOK DEF SetSpeed
<1>2. CASE s # 0
  <2>1. SetSpeed(c, s) \in Clock /\ ArmedIffPlaying(SetSpeed(c, s))
    BY <1>2 DEF SetSpeed, Clock, ArmedIffPlaying, ClockOK
  <2> QED
    BY <1>2, <2>1, SamePlace DEF SetSpeed, Clock
<1> QED
  BY <1>1, <1>2

(* A clock that was put on a step between its start and its end.           *)
LEMMA PlacedOK ==
  ASSUME NEW c \in Clock, ClockOK(c), NEW step \in Nat \ {0}, NEW t \in Nat,
         c.start <= t, t <= c.end
  PROVE  LET d == [c EXCEPT !.step = step, !.now = FloorTo(c.start, step, t)]
         IN  d \in Clock /\ ClockOK(d)
<1> DEFINE n == FloorTo(c.start, step, t)
           d == [c EXCEPT !.step = step, !.now = n]
<1>1. /\ n \in Nat /\ c.start <= n /\ n <= t
      /\ \E q \in 0 .. (n - c.start) : n = c.start + q * step
  BY FloorToFacts DEF Clock
<1> HIDE DEF n
<1>2. d \in Clock
  BY <1>1 DEF Clock
<1>3. /\ d.now = n /\ d.start = c.start /\ d.end = c.end /\ d.step = step
      /\ d.armed = c.armed /\ d.status = c.status
  BY DEF Clock
<1>4. InRange(d)
  BY <1>1, <1>3 DEF Clock, InRange
<1>5. ArmedIffPlaying(d)
  BY <1>3 DEF ClockOK, ArmedIffPlaying
<1>6. OnStep(d)
  BY <1>1, <1>3 DEF OnStep
<1> QED
  BY <1>2, <1>4, <1>5, <1>6 DEF ClockOK, OnBarBoundary, n

(* set_step_size() puts the clock on a step of the new size, inside the    *)
(* range.                                                                  *)
LEMMA SetStepSizeOK ==
  ASSUME NEW c \in Clock, ClockOK(c), NEW step \in Nat \ {0}
  PROVE  SetStepSize(c, step) \in Clock /\ ClockOK(SetStepSize(c, step))
BY PlacedOK DEF SetStepSize, ClockOK, InRange, Clock

(* seek() puts the clock on a step or at the end, inside the range, for    *)
(* every target.                                                           *)
LEMMA SeekOK ==
  ASSUME NEW c \in Clock, ClockOK(c), NEW t \in Nat
  PROVE  Seek(c, t) \in Clock /\ ClockOK(Seek(c, t))
<1> DEFINE m == Clamp(c, t)
<1>1. m \in Nat /\ c.start <= m /\ m <= c.end
  BY DEF Clamp, ClockOK, InRange, Clock
<1>2. CASE m = c.end
  <2>1. Seek(c, t) = [c EXCEPT !.now = c.end]
    BY <1>2 DEF Seek
  <2> QED
    BY <2>1, <1>1, <1>2 DEF ClockOK, InRange, ArmedIffPlaying, OnBarBoundary, Clock
<1>3. CASE m # c.end
  <2>1. Seek(c, t) = [c EXCEPT !.step = c.step, !.now = FloorTo(c.start, c.step, m)]
    BY <1>3 DEF Seek, Clock
  <2>2. c.step \in Nat \ {0}
    BY DEF Clock
  <2> HIDE DEF m
  <2> QED
    BY <2>1, <2>2, <1>1, PlacedOK
<1> QED
  BY <1>2, <1>3

(* Steps fall due only once wait has run out, and then the due time moves. *)
LEMMA StepsDueType ==
  ASSUME NEW c \in Clock, NEW elapsed \in Nat, StepDelay(c) # 0
  PROVE  StepsDue(c, elapsed) \in Nat
<1>1. StepDelay(c) \in Nat \ {0}
  BY StepDelayType
<1>2. CASE elapsed < c.wait
  BY <1>2 DEF StepsDue
<1>3. CASE ~(elapsed < c.wait)
  <2>1. elapsed - c.wait \in Nat
    BY <1>3 DEF Clock
  <2>2. (elapsed - c.wait) \div StepDelay(c) \in Nat
    BY <2>1, <1>1, DivMod
  <2> QED
    BY <2>2, <1>3 DEF StepsDue
<1> QED
  BY <1>2, <1>3

(* The catch-up loop stays on a step or stops at the end.                  *)
LEMMA AdvanceFacts ==
  ASSUME NEW c \in Clock, ClockOK(c), NEW k \in Nat
  PROVE  /\ Advance(c, k) \in Nat
         /\ c.now <= Advance(c, k) /\ Advance(c, k) <= c.end
         /\ \/ Advance(c, k) = c.end
            \/ \E q \in 0 .. (Advance(c, k) - c.start) :
                  Advance(c, k) = c.start + q * c.step
<1> DEFINE n == c.now + k * c.step
<1>1. /\ c.now \in Nat /\ c.start \in Nat /\ c.end \in Nat /\ c.step \in Nat \ {0}
      /\ c.start <= c.now /\ c.now <= c.end
  BY DEF Clock, ClockOK, InRange
<1>2. k * c.step \in Nat
  BY <1>1, AtMostProduct
<1>3. n \in Nat /\ c.now <= n
  BY <1>1, <1>2
<1>4. CASE n < c.end
  <2>1. Advance(c, k) = n
    BY <1>4 DEF Advance
  <2>2. c.now # c.end
    BY <1>1, <1>3, <1>4
  <2>3. PICK q \in 0 .. (c.now - c.start) : c.now = c.start + q * c.step
    BY <2>2 DEF ClockOK, OnBarBoundary, OnStep
  <2>4. q \in Nat /\ q + k \in Nat
    BY <2>3, <1>1
  <2>5. (q + k) * c.step = q * c.step + k * c.step
    BY <2>4, <1>1, Z3
  <2>6. q + k <= (q + k) * c.step /\ (q + k) * c.step \in Nat /\ q * c.step \in Nat
    BY <2>4, <1>1, AtMostProduct
  <2>7. n = c.start + (q + k) * c.step
    BY <2>3, <2>5, <2>6, <1>1, <1>2
  <2>8. q + k \in 0 .. (n - c.start)
    BY <2>4, <2>6, <2>7, <1>1
  <2> QED
    BY <2>1, <2>7, <2>8, <1>1, <1>3, <1>4
<1>5. CASE ~(n < c.end)
  BY <1>1, <1>5 DEF Advance
<1> QED
  BY <1>4, <1>5

(* Reaching the end leaves a sane, paused clock.                           *)
LEMMA StopOK ==
  ASSUME NEW c \in Clock, ClockOK(c)
  PROVE  Stop(c) \in Clock /\ ClockOK(Stop(c))
<1> DEFINE p == Pause(c)
<1>1. p \in Clock /\ ClockOK(p) /\ p.end = c.end
  BY PauseOK DEF Pause, Disarmed, Clock
<1>2. Stop(c) = [p EXCEPT !.now = p.end]
  BY <1>1 DEF Stop
<1> HIDE DEF p
<1>3. Stop(c) \in Clock
  BY <1>1, <1>2 DEF Clock
<1>4. /\ Stop(c).now = p.end /\ Stop(c).start = p.start /\ Stop(c).end = p.end
      /\ Stop(c).armed = p.armed /\ Stop(c).status = p.status
  BY <1>1, <1>2 DEF Clock
<1>5. p.start \in Nat /\ p.end \in Nat /\ p.now \in Nat
  BY <1>1 DEF Clock
<1> QED
  BY <1>1, <1>3, <1>4, <1>5 DEF ClockOK, InRange, ArmedIffPlaying, OnBarBoundary

(* tick() keeps a sane clock sane, however late it comes.                  *)
LEMMA TickOK ==
  ASSUME NEW c \in Clock, ClockOK(c), NEW elapsed \in Nat
  PROVE  Tick(c, elapsed) \in Clock /\ ClockOK(Tick(c, elapsed))
<1> DEFINE k == StepsDue(c, elapsed)
           n == IF k = 0 THEN c.now ELSE Advance(c, k)
           w == c.wait - elapsed + k * StepDelay(c)
           d == [c EXCEPT !.now = n, !.wait = w]
<1>1. CASE c.status # "Playing"
  BY <1>1 DEF Tick
<1>2. CASE c.status = "Playing" /\ StepDelay(c) = 0
  BY <1>2, StopOK DEF Tick
<1>3. CASE c.status = "Playing" /\ StepDelay(c) # 0 /\ k > 0 /\ Advance(c, k) = c.end
  BY <1>3, StopOK DEF Tick
<1>4. CASE c.status = "Playing" /\ StepDelay(c) # 0 /\ ~(k > 0 /\ Advance(c, k) = c.end)
  <2>1. k \in Nat /\ StepDelay(c) \in Nat \ {0}
    BY <1>4, StepsDueType, StepDelayType
  <2>2. w \in Int
    <3>1. k * StepDelay(c) \in Nat
      BY <2>1, AtMostProduct
    <3> QED
      BY <3>1 DEF Clock
  <2>3. Tick(c, elapsed) = d
    BY <1>4 DEF Tick
  <2>4. /\ n \in Nat /\ c.start <= n /\ n <= c.end
        /\ n = c.end \/ \E q \in 0 .. (n - c.start) : n = c.start + q * c.step
    BY <2>1, AdvanceFacts DEF ClockOK, InRange, OnBarBoundary, OnStep, Clock
  <2> HIDE DEF k, n, w
  <2>5. d \in Clock
    BY <2>2, <2>4 DEF Clock
  <2>6. /\ d.now = n /\ d.start = c.start /\ d.end = c.end /\ d.step = c.step
        /\ d.armed = c.armed /\ d.status = c.status
    BY DEF Clock
  <2> HIDE DEF d
  <2>7. InRange(d) /\ OnBarBoundary(d)
    BY <2>4, <2>6 DEF InRange, OnBarBoundary, OnStep
  <2>8. ArmedIffPlaying(d)
    BY <2>6 DEF ClockOK, ArmedIffPlaying
  <2> QED
    BY <2>3, <2>5, <2>7, <2>8 DEF ClockOK
<1> QED
  BY <1>1, <1>2, <1>3, <1>4

-----------------------------------------------------------------------------
(* Where a clock stands at the start of its range.                         *)

(* What a loading session's clock looks like, and what keeps it so.        *)
AtStart(c) == c \in Clock /\ ClockOK(c) /\ c.status # "Playing" /\ c.now = c.start

(* A new clock is at its start.                                            *)
LEMMA NewClockAtStart ==
  ASSUME NEW start \in Nat, NEW end \in Nat, start <= end, NEW step \in Nat \ {0}
  PROVE  AtStart(NewClock(start, end, step))
BY NewClockOK DEF AtStart, NewClock

(* Snapping the start itself down leaves it where it is.                   *)
LEMMA FloorOfStart ==
  ASSUME NEW start \in Nat, NEW step \in Nat \ {0}
  PROVE  FloorTo(start, step, start) = start
<1>1. (start - start) = 0 /\ 0 % step = 0
  BY Z3
<1> QED
  BY <1>1 DEF FloorTo

(* set_step_size() leaves a clock at its start there.                      *)
LEMMA SetStepSizeAtStart ==
  ASSUME NEW c, AtStart(c), NEW step \in Nat \ {0}
  PROVE  AtStart(SetStepSize(c, step))
<1>1. SetStepSize(c, step) \in Clock /\ ClockOK(SetStepSize(c, step))
  BY SetStepSizeOK DEF AtStart
<1>2. FloorTo(c.start, step, c.now) = c.start
  BY FloorOfStart DEF AtStart, Clock
<1>3. /\ SetStepSize(c, step).now = c.start /\ SetStepSize(c, step).start = c.start
      /\ SetStepSize(c, step).status = c.status
  BY <1>2 DEF SetStepSize, AtStart, Clock
<1> QED
  BY <1>1, <1>3 DEF AtStart

(* seek(start) brings a clock that does not play to its start.             *)
LEMMA SeekStartAtStart ==
  ASSUME NEW c \in Clock, ClockOK(c), c.status # "Playing"
  PROVE  AtStart(Seek(c, c.start))
<1>1. c.start \in Nat /\ c.end \in Nat /\ c.start <= c.end /\ c.step \in Nat \ {0}
  BY DEF ClockOK, InRange, Clock
<1>2. Seek(c, c.start) \in Clock /\ ClockOK(Seek(c, c.start))
  BY <1>1, SeekOK
<1>3. Clamp(c, c.start) = c.start
  BY <1>1 DEF Clamp
<1>4. Seek(c, c.start) = [c EXCEPT !.now = c.start]
  BY <1>1, <1>3, FloorOfStart DEF Seek
<1> QED
  BY <1>2, <1>4 DEF AtStart, Clock

(* pause() stops the clock.                                                *)
LEMMA PauseFacts ==
  ASSUME NEW c \in Clock
  PROVE  /\ Pause(c).status = "Paused"
         /\ Pause(c).start = c.start /\ Pause(c).end = c.end /\ Pause(c).now = c.now
BY DisarmedFacts DEF Pause, Clock

(* set_speed() leaves a clock at its start there.                          *)
LEMMA SetSpeedAtStart ==
  ASSUME NEW c, AtStart(c), NEW s \in Nat \ {0}
  PROVE  AtStart(SetSpeed(c, s))
<1>1. SetSpeed(c, s) \in Clock /\ ClockOK(SetSpeed(c, s))
  BY SetSpeedOK DEF AtStart
<1>2. SetSpeed(c, s) = [c EXCEPT !.speed = s]
  BY DEF SetSpeed
<1> QED
  BY <1>1, <1>2 DEF AtStart, Clock

(* So does set_waiting().                                                  *)
LEMMA SetWaitingAtStart ==
  ASSUME NEW c, AtStart(c)
  PROVE  AtStart(SetWaiting(c))
<1>1. SetWaiting(c) \in Clock /\ ClockOK(SetWaiting(c))
  BY SetWaitingOK DEF AtStart
<1>2. CASE c.status = "Waiting"
  BY <1>2 DEF SetWaiting
<1>3. CASE c.status # "Waiting"
  <2>1. SetWaiting(c).now = c.now /\ SetWaiting(c).start = c.start
        /\ SetWaiting(c).status = "Waiting"
    BY <1>3, DisarmedFacts DEF SetWaiting, AtStart, Clock
  <2> QED
    BY <1>1, <2>1 DEF AtStart
<1> QED
  BY <1>2, <1>3

-----------------------------------------------------------------------------
(* What the methods do to the status and the speed.                        *)

(* Seek only moves the clock.                                              *)
LEMMA SeekKeeps ==
  ASSUME NEW c \in Clock, NEW t
  PROVE  Seek(c, t).status = c.status /\ Seek(c, t).speed = c.speed
BY DEF Seek, Clock

(* Pause stops the clock at the speed it had.                              *)
LEMMA PauseKeeps ==
  ASSUME NEW c \in Clock
  PROVE  Pause(c) \in Clock /\ Pause(c).status = "Paused" /\ Pause(c).speed = c.speed
<1>1. Pause(c) \in Clock
  BY DisarmedFacts DEF Pause, Clock, ClockStatus
<1> QED
  BY <1>1 DEF Pause, Disarmed, Clock

(* A pause followed by a seek stops the clock, and keeps the speed.        *)
LEMMA PausedSeekKeeps ==
  ASSUME NEW c \in Clock, NEW t
  PROVE  Seek(Pause(c), t).status = "Paused" /\ Seek(Pause(c), t).speed = c.speed
BY PauseKeeps, SeekKeeps

(* A new step size snaps the clock, and nothing else.                      *)
LEMMA SetStepSizeKeeps ==
  ASSUME NEW c \in Clock, NEW step
  PROVE  SetStepSize(c, step).status = c.status /\ SetStepSize(c, step).speed = c.speed
BY DEF SetStepSize, Clock

(* Play keeps the speed.                                                   *)
LEMMA PlayKeeps ==
  ASSUME NEW c \in Clock
  PROVE  Play(c).speed = c.speed
BY DEF Play, Clock

(* Waiting keeps the speed; the end of waiting is Play or nothing.         *)
LEMMA WaitingKeeps ==
  ASSUME NEW c \in Clock
  PROVE  /\ SetWaiting(c).speed = c.speed
         /\ ResumeFromWaiting(c).speed = c.speed
         /\ ResumeFromWaiting(c) \in {c, Play(c)}
BY DEF SetWaiting, ResumeFromWaiting, Play, Disarmed, Clock

(* A tick keeps the speed, and leaves a clock that is not playing alone.    *)
LEMMA TickKeeps ==
  ASSUME NEW c \in Clock, NEW elapsed
  PROVE  /\ Tick(c, elapsed).speed = c.speed
         /\ c.status # "Playing" => Tick(c, elapsed) = c
<1>1. Stop(c).speed = c.speed
  BY DEF Stop, Pause, Disarmed, Clock
<1> QED
  BY <1>1 DEF Tick, Clock

(* The clock of a new session has the speed it is given.                   *)
LEMMA FreshKeeps ==
  ASSUME NEW start, NEW end, NEW step, NEW speed \in Nat \ {0}
  PROVE  LET fresh == SetSpeed(NewClock(start, end, step), speed)
         IN  Play(fresh).speed = speed /\ SetWaiting(fresh).speed = speed
BY DEF SetSpeed, NewClock, Play, SetWaiting, Disarmed

-----------------------------------------------------------------------------
(* Where seeks, snaps and ticks lead.                                      *)

(* A time is less than a step after the boundary it snaps down to.         *)
LEMMA FloorToNear ==
  ASSUME NEW start \in Nat, NEW step \in Nat \ {0}, NEW t \in Nat, start <= t
  PROVE  t < FloorTo(start, step, t) + step
<1>1. t - start \in Nat
  OBVIOUS
<1>2. (t - start) % step \in 0 .. (step - 1)
  BY <1>1, DivMod
<1> QED
  BY <1>2 DEF FloorTo

(* Two boundaries less than a step apart are one.                          *)
LEMMA SameBoundary ==
  ASSUME NEW i \in Nat, NEW j \in Nat, NEW b \in Nat \ {0},
         i * b <= j * b, j * b < i * b + b
  PROVE  i * b = j * b
<1>1. CASE j < i
  BY <1>1, Z3
<1>2. CASE i < j
  BY <1>2, Z3
<1> QED
  BY <1>1, <1>2

(* A time that is on a step snaps down to itself.                          *)
LEMMA FloorOfStep ==
  ASSUME NEW c \in Clock, OnStep(c), c.start <= c.now
  PROVE  FloorTo(c.start, c.step, c.now) = c.now
<1> DEFINE n == FloorTo(c.start, c.step, c.now)
<1>1. c.start \in Nat /\ c.now \in Nat /\ c.step \in Nat \ {0}
  BY DEF Clock
<1>2. PICK i \in 0 .. (c.now - c.start) : c.now = c.start + i * c.step
  BY DEF OnStep
<1>3. n \in Nat /\ n <= c.now /\ c.now < n + c.step
  BY <1>1, FloorToFacts, FloorToNear
<1>4. PICK j \in 0 .. (n - c.start) : n = c.start + j * c.step
  BY <1>1, FloorToFacts
<1>5. i \in Nat /\ j \in Nat
  BY <1>1, <1>2, <1>3, <1>4
<1>6. i * c.step \in Nat /\ j * c.step \in Nat
  BY <1>1, <1>5, AtMostProduct
<1> HIDE DEF n
<1>7. j * c.step = i * c.step
  BY <1>1, <1>2, <1>3, <1>4, <1>5, <1>6, SameBoundary
<1> QED
  BY <1>2, <1>4, <1>7 DEF n

(* Seek lands less than a step before its target.                          *)
LEMMA SeekReaches ==
  ASSUME NEW c \in Clock, ClockOK(c), NEW t \in Nat, t <= c.end
  PROVE  /\ t < Seek(c, t).now + c.step
         /\ Seek(c, t).step = c.step /\ Seek(c, t).end = c.end
<1> DEFINE m == Clamp(c, t)
<1>1. /\ c.start \in Nat /\ c.end \in Nat /\ c.step \in Nat \ {0}
      /\ c.start <= c.end
  BY DEF Clock, ClockOK, InRange
<1>2. m \in Nat /\ c.start <= m /\ t <= m
  BY <1>1 DEF Clamp
<1> HIDE DEF m
<1>3. m < FloorTo(c.start, c.step, m) + c.step
  BY <1>1, <1>2, FloorToNear
<1>4. Seek(c, t).now = m \/ Seek(c, t).now = FloorTo(c.start, c.step, m)
  BY DEF Seek, Clock, m
<1>5. FloorTo(c.start, c.step, m) \in Nat
  BY <1>1, <1>2, FloorToFacts
<1> QED
  BY <1>1, <1>2, <1>3, <1>4, <1>5 DEF Seek, Clock

(* seek() lands at its target or before it, or else at the start.          *)
LEMMA SeekUpTo ==
  ASSUME NEW c \in Clock, ClockOK(c), NEW t \in Nat
  PROVE  /\ Seek(c, t).start = c.start
         /\ Seek(c, t).now = c.start \/ Seek(c, t).now <= t
<1>1. /\ c.start \in Nat /\ c.end \in Nat /\ c.step \in Nat \ {0} /\ c.start <= c.end
  BY DEF Clock, ClockOK, InRange
<1>2. Seek(c, t).start = c.start
  BY DEF Seek, Clock
<1>3. CASE t < c.start
  <2>1. Clamp(c, t) = c.start
    BY <1>3 DEF Clamp
  <2>2. FloorTo(c.start, c.step, c.start) = c.start
    BY <1>1, FloorOfStart
  <2> QED
    BY <1>2, <2>1, <2>2 DEF Seek, Clock
<1>4. CASE ~(t < c.start)
  <2>1. /\ Clamp(c, t) \in Nat /\ c.start <= Clamp(c, t) /\ Clamp(c, t) <= t
    BY <1>1, <1>4 DEF Clamp
  <2>2. /\ FloorTo(c.start, c.step, Clamp(c, t)) <= Clamp(c, t)
        /\ FloorTo(c.start, c.step, Clamp(c, t)) \in Nat
    BY <1>1, <2>1, FloorToFacts
  <2>3. Seek(c, t).now \in {Clamp(c, t), FloorTo(c.start, c.step, Clamp(c, t))}
    BY DEF Seek, Clock
  <2> QED
    BY <1>2, <2>1, <2>2, <2>3
<1> QED
  BY <1>3, <1>4

(* A tick does not go back, and changes neither the step nor the range.    *)
LEMMA TickMoves ==
  ASSUME NEW c \in Clock, ClockOK(c), NEW elapsed \in Nat
  PROVE  /\ c.now <= Tick(c, elapsed).now
         /\ Tick(c, elapsed).step = c.step /\ Tick(c, elapsed).end = c.end
<1> DEFINE k == StepsDue(c, elapsed)
<1>1. c.now \in Nat /\ c.end \in Nat /\ c.now <= c.end
  BY DEF Clock, ClockOK, InRange
<1>2. Stop(c).now = c.end /\ Stop(c).step = c.step /\ Stop(c).end = c.end
  BY DEF Stop, Pause, Disarmed, Clock
<1>3. CASE c.status # "Playing" \/ StepDelay(c) = 0
  BY <1>1, <1>2, <1>3 DEF Tick
<1>4. CASE c.status = "Playing" /\ StepDelay(c) # 0
  <2>1. k \in Nat
    BY <1>4, StepsDueType
  <2>2. c.now <= Advance(c, k)
    BY <2>1, AdvanceFacts
  <2>3. Tick(c, elapsed) = IF k > 0 /\ Advance(c, k) = c.end THEN Stop(c)
                           ELSE [c EXCEPT !.now  = IF k = 0 THEN @ ELSE Advance(c, k),
                                          !.wait = @ - elapsed + k * StepDelay(c)]
    BY <1>4 DEF Tick
  <2> HIDE DEF k
  <2> QED
    BY <1>1, <1>2, <2>2, <2>3 DEF Clock
<1> QED
  BY <1>3, <1>4

-----------------------------------------------------------------------------
(* What the methods leave alone: the range, the step, and the time.        *)

(* What Playback sees of two clocks is the same.                           *)
SameFrame(c, d) == d.start = c.start /\ d.end = c.end
(* So are the moment they stand at and their step.                         *)
StandsAs(c, d) == SameFrame(c, d) /\ d.now = c.now /\ d.step = c.step

(* What the methods that do not move a clock leave alone.                  *)
LEMMA StandingStill ==
  ASSUME NEW c \in Clock,
         NEW d \in {Play(c), Pause(c), SetWaiting(c), ResumeFromWaiting(c),
                    Play(ResumeFromWaiting(c))}
  PROVE  StandsAs(c, d)
BY DEF StandsAs, SameFrame, Play, Pause, SetWaiting, ResumeFromWaiting, Disarmed, Clock

(* A tick of a playing clock leaves its time, or moves it forward and      *)
(* keeps it playing just when the end is not reached.                      *)
LEMMA TickAdvances ==
  ASSUME NEW c \in Clock, ClockOK(c), c.status = "Playing", NEW elapsed \in Nat
  PROVE  LET d == Tick(c, elapsed)
         IN  /\ SameFrame(c, d) /\ d.step = c.step
             /\ \/ d.now = c.now
                \/ /\ c.now < d.now /\ d.now <= d.end
                   /\ (d.status = "Playing") <=> (d.now < d.end)
<1> DEFINE k == StepsDue(c, elapsed)
<1>1. c.now \in Nat /\ c.end \in Nat /\ c.now <= c.end
  BY DEF Clock, ClockOK, InRange
<1>2. /\ SameFrame(c, Stop(c)) /\ Stop(c).step = c.step
      /\ Stop(c).now = c.end /\ Stop(c).status = "Paused"
  BY DEF Stop, Pause, Disarmed, Clock, SameFrame
<1>3. CASE Tick(c, elapsed) = Stop(c)
  BY <1>1, <1>2, <1>3 DEF SameFrame
<1>4. CASE Tick(c, elapsed) # Stop(c)
  <2>1. StepDelay(c) # 0 /\ ~(k > 0 /\ Advance(c, k) = c.end)
    BY <1>4 DEF Tick
  <2>2. k \in Nat
    BY <2>1, StepsDueType
  <2>3. Advance(c, k) \in Nat /\ c.now <= Advance(c, k) /\ Advance(c, k) <= c.end
    BY <2>2, AdvanceFacts
  <2>4. Tick(c, elapsed) = [c EXCEPT !.now  = IF k = 0 THEN @ ELSE Advance(c, k),
                                     !.wait = @ - elapsed + k * StepDelay(c)]
    BY <2>1 DEF Tick
  <2> HIDE DEF k
  <2>5. CASE k = 0
    BY <2>4, <2>5 DEF SameFrame, Clock
  <2>6. CASE k # 0
    <3>1. k > 0
      BY <2>2, <2>6
    <3>2. Advance(c, k) < c.end
      BY <1>1, <2>1, <2>3, <3>1 DEF k
    <3> QED
      BY <1>1, <2>3, <2>4, <2>6, <3>2 DEF SameFrame, Clock
  <2> QED
    BY <2>5, <2>6
<1> QED
  BY <1>3, <1>4

(* The clock of a new session stands at the start of the range asked for.  *)
LEMMA FreshStands ==
  ASSUME NEW start, NEW end, NEW step, NEW speed \in Nat \ {0}
  PROVE  LET fresh == SetSpeed(NewClock(start, end, step), speed)
         IN  /\ Play(fresh).start = start /\ SetWaiting(fresh).start = start
             /\ Play(fresh).end = end /\ SetWaiting(fresh).end = end
             /\ Play(fresh).now = start /\ SetWaiting(fresh).now = start
             /\ Play(fresh).status = "Playing" /\ SetWaiting(fresh).status = "Waiting"
  BY DEF NewClock, SetSpeed, Play, SetWaiting, Disarmed
=============================================================================
