------------------------- MODULE ReplayPartsProofs --------------------------
(***************************************************************************)
(* Proofs about the parts of a replay that stand alone: the virtual clock  *)
(* (src/src/replay/clock.rs) under its callers, the virtual exchange       *)
(* (src/src/replay/virtual_exchange/) under arbitrary orders and ticks,    *)
(* and the panes of the dashboard.                                         *)
(*                                                                         *)
(* 1. The invariant of ClockDriver (DriverInv) and its theorems.           *)
(* 2. Late ticks neither lose nor repeat a step (PaceInv).                 *)
(* 3. The book stays sound (ExchangeInv).                                  *)
(* 4. Order panels, for any layouts, panes and kinds of panels: they keep  *)
(*    to their types, and orders follow the mode.                          *)
(* 5. Subscriptions, for any panes, tickers, kinds and timeframes: which   *)
(*    panes are without their streams.                                     *)
(* 6. All of these keep to their types, in whatever part a step is taken.  *)
(***************************************************************************)
EXTENDS MCReplayParts, StepClockProofs, OrderBookProofs

-----------------------------------------------------------------------------
(* TypeOK alone is not inductive: a step count is a number only because    *)
(* wait and the delay are, and a floor only because the clock is not       *)
(* before its start.  Together with ClockSane it is.                       *)
DriverInv == TypeOK /\ ClockSane

(* The invariant holds of a new clock.                                     *)
LEMMA DriverInit == Init => DriverInv
<1> SUFFICES ASSUME Init PROVE DriverInv
  OBVIOUS
<1>1. PICK step \in StepSizes : clock = NewClock(Start, End, step)
  BY DEF Init
<1>2. clock \in Clock /\ ClockOK(clock)
  BY <1>1, NewClockOK, DriverAssumption
<1>3. pace \in [counting : BOOLEAN, played : 0 .. MaxPlayed, origin : Nat]
  BY DriverAssumption DEF Init, NoPace
<1> QED
  BY <1>2, <1>3 DEF DriverInv, TypeOK, ClockSane

(* The two values pace is reset to have its type.                          *)
LEMMA PaceTypes ==
  ASSUME NEW c \in Clock
  PROVE  {NoPace, PaceFrom(c)} \subseteq [counting : BOOLEAN, played : 0 .. MaxPlayed, origin : Nat]
BY DriverAssumption DEF NoPace, PaceFrom, Clock

(* Every call and every tick preserves the invariant.                      *)
LEMMA DriverStep == DriverInv /\ [Next]_vars => DriverInv'
<1> SUFFICES ASSUME DriverInv, [Next]_vars PROVE DriverInv'
  OBVIOUS
<1> DEFINE Pace == [counting : BOOLEAN, played : 0 .. MaxPlayed, origin : Nat]
<1>0. clock \in Clock /\ ClockOK(clock) /\ pace \in Pace
  BY DEF DriverInv, TypeOK, ClockSane
<1>p. NoPace \in Pace /\ PaceFrom(clock) \in Pace
  BY <1>0, PaceTypes
<1> SUFFICES clock' \in Clock /\ ClockOK(clock') /\ pace' \in Pace
  BY DEF DriverInv, TypeOK, ClockSane
<1> HIDE DEF Pace
<1>1. CASE DoPlay
  BY <1>0, <1>p, <1>1, PlayOK DEF DoPlay
<1>2. CASE DoPause
  BY <1>0, <1>p, <1>2, PauseOK DEF DoPause
<1>3. ASSUME NEW t \in Targets, DoSeek(t)
      PROVE  clock' \in Clock /\ ClockOK(clock') /\ pace' \in Pace
  BY <1>0, <1>p, <1>3, SeekOK, DriverAssumption DEF DoSeek
<1>4. ASSUME NEW s \in Speeds, DoSetSpeed(s)
      PROVE  clock' \in Clock /\ ClockOK(clock') /\ pace' \in Pace
  BY <1>0, <1>p, <1>4, SetSpeedOK, DriverAssumption DEF DoSetSpeed
<1>5. ASSUME NEW step \in StepSizes, DoSetStepSize(step)
      PROVE  clock' \in Clock /\ ClockOK(clock') /\ pace' \in Pace
  BY <1>0, <1>p, <1>5, SetStepSizeOK, DriverAssumption DEF DoSetStepSize
<1>6. CASE DoSetWaiting
  BY <1>0, <1>p, <1>6, SetWaitingOK DEF DoSetWaiting
<1>7. CASE DoResumeFromWaiting
  BY <1>0, <1>p, <1>7, ResumeFromWaitingOK DEF DoResumeFromWaiting
<1>8. ASSUME NEW elapsed \in 1 .. MaxLag, DoTick(elapsed)
      PROVE  clock' \in Clock /\ ClockOK(clock') /\ pace' \in Pace
  <2>1. elapsed \in Nat
    BY DriverAssumption
  <2>2. clock' \in Clock /\ ClockOK(clock')
    BY <1>0, <1>8, <2>1, TickOK DEF DoTick
  <2>3. pace' \in Pace
    <3>1. CASE pace.counting /\ clock'.status = "Playing" /\ pace.played + elapsed <= MaxPlayed
      <4>1. pace.played + elapsed \in 0 .. MaxPlayed
        BY <1>0, <2>1, <3>1, DriverAssumption DEF Pace
      <4>2. pace' = [pace EXCEPT !.played = pace.played + elapsed]
        BY <1>8, <3>1 DEF DoTick
      <4> QED
        BY <1>0, <4>1, <4>2 DEF Pace
    <3>2. CASE ~(pace.counting /\ clock'.status = "Playing" /\ pace.played + elapsed <= MaxPlayed)
      BY <1>p, <1>8, <3>2 DEF DoTick
    <3> QED
      BY <3>1, <3>2
  <2> QED
    BY <2>2, <2>3
<1>9. CASE UNCHANGED vars
  BY <1>0, <1>9 DEF vars
<1> QED
  BY <1>1, <1>2, <1>3, <1>4, <1>5, <1>6, <1>7, <1>8, <1>9 DEF Next, Caller, Ticking

(* The clock keeps to its types under any calls, for every range, every    *)
(* set of step sizes, speeds and targets, and any lag of the frame timer   *)
(* (StepClock in clock.rs).                                                *)
THEOREM DriverTypes == Spec => []TypeOK
<1>1. DriverInv => TypeOK
  BY DEF DriverInv
<1> QED
  BY <1>1, DriverInit, DriverStep, PTL DEF Spec

(* Whatever the calls, the clock stays in its range, on a bar boundary or  *)
(* at the end, and has a due time exactly while it plays, so that tick()   *)
(* never unwraps a missing one.                                            *)
THEOREM DriverSane == Spec => []ClockSane
<1>1. DriverInv => ClockSane
  BY DEF DriverInv
<1> QED
  BY <1>1, DriverInit, DriverStep, PTL DEF Spec

-----------------------------------------------------------------------------
(* KeepsPace says where the clock stands; why it stays there is that the   *)
(* due time of the next step is one delay after that of the last one,      *)
(* however late the ticks came: wait makes up exactly for what was played. *)
OnPace(c, origin, played) ==
  \E k \in Nat :
    /\ c.now = origin + k * c.step
    /\ c.wait = (k + 1) * StepDelay(c) - played
    /\ 0 < c.wait /\ c.wait <= StepDelay(c)

(* While a stretch is counted the clock plays, and is on pace.             *)
PaceInv ==
  pace.counting => /\ clock.status = "Playing"
                   /\ StepDelay(clock) > 0 => OnPace(clock, pace.origin, pace.played)

(* Multiplication distributes over addition (the provers need it said).    *)
LEMMA Distribute ==
  ASSUME NEW i \in Int, NEW j \in Int, NEW b \in Int
  PROVE  (i + j) * b = i * b + j * b /\ i * b \in Int /\ j * b \in Int
BY Z3

(* The quotient is the one k with k * b <= a < (k + 1) * b.                *)
LEMMA DivIsUnique ==
  ASSUME NEW a \in Nat, NEW b \in Nat \ {0}, NEW k \in Nat,
         k * b <= a, a < k * b + b
  PROVE  a \div b = k
BY Z3

(* One tick, however late, keeps the due time on the grid that playing     *)
(* started.                                                                *)
LEMMA TickKeepsPace ==
  ASSUME NEW c \in Clock, NEW elapsed \in Nat, NEW origin \in Nat, NEW played \in Nat,
         c.status = "Playing", StepDelay(c) > 0, OnPace(c, origin, played),
         Tick(c, elapsed).status = "Playing"
  PROVE  OnPace(Tick(c, elapsed), origin, played + elapsed)
<1> DEFINE m == StepsDue(c, elapsed)
           d == Tick(c, elapsed)
           delay == StepDelay(c)
<1>0. /\ delay \in Nat \ {0} /\ c.now \in Nat /\ c.step \in Nat \ {0} /\ c.wait \in Int
      /\ m \in Nat
  BY StepDelayType, StepsDueType DEF Clock
<1>1. PICK k \in Nat : /\ c.now = origin + k * c.step
                       /\ c.wait = (k + 1) * delay - played
                       /\ 0 < c.wait /\ c.wait <= delay
  BY DEF OnPace
<1>2. ~(m > 0 /\ Advance(c, m) = c.end)
  <2>1. Stop(c).status = "Paused"
    BY DisarmedFacts DEF Stop, Pause, Clock
  <2> QED
    BY <1>0, <2>1 DEF Tick
<1>3. d = [c EXCEPT !.now = IF m = 0 THEN c.now ELSE Advance(c, m),
                    !.wait = c.wait - elapsed + m * delay]
  BY <1>0, <1>2 DEF Tick
<1>4. /\ d.now = IF m = 0 THEN c.now ELSE Advance(c, m)
      /\ d.wait = c.wait - elapsed + m * delay
      /\ d.step = c.step /\ StepDelay(d) = delay
  BY <1>3 DEF Clock, StepDelay
<1>5. d.now = c.now + m * c.step
  <2>1. CASE m = 0
    <3>1. m * c.step = 0
      BY <1>0, <2>1
    <3> QED
      BY <1>0, <1>4, <2>1, <3>1
  <2>2. CASE m # 0
    <3>1. Advance(c, m) = c.now + m * c.step
      BY <1>0, <1>2, <2>2 DEF Advance
    <3> QED
      BY <1>4, <2>2, <3>1
  <2> QED
    BY <2>1, <2>2
<1>6. 0 < d.wait /\ d.wait <= delay
  <2>1. CASE elapsed < c.wait
    <3>1. m = 0
      BY <2>1 DEF StepsDue
    <3>2. d.wait = c.wait - elapsed
      BY <1>0, <1>4, <3>1
    <3> QED
      BY <1>0, <1>1, <2>1, <3>2
  <2>2. CASE ~(elapsed < c.wait)
    <3> DEFINE late == elapsed - c.wait
               whole == late \div delay
    <3>1. late \in Nat
      BY <1>0, <2>2
    <3>2. /\ whole \in Nat /\ late % delay \in 0 .. (delay - 1)
          /\ late = delay * whole + (late % delay)
      BY <1>0, <3>1, DivMod
    <3>3. m = 1 + whole
      BY <2>2 DEF StepsDue
    <3> HIDE DEF whole, late, m, delay
    <3>4. m * delay = delay + delay * whole
      BY <1>0, <3>2, <3>3, Z3
    <3>5. delay * whole \in Int
      BY <1>0, <3>2
    <3>6. late % delay \in Int /\ 0 <= late % delay /\ late % delay < delay
      BY <1>0, <3>2
    <3>7. c.wait - elapsed = -late
      BY <1>0, <3>1 DEF late
    <3>8. d.wait = delay - (late % delay)
      BY <1>0, <1>4, <3>1, <3>2, <3>4, <3>5, <3>6, <3>7
    <3> QED
      BY <1>0, <3>6, <3>8
  <2> QED
    BY <2>1, <2>2
<1> HIDE DEF m, d, delay
<1>7. d.now = origin + (k + m) * d.step
  BY <1>0, <1>1, <1>4, <1>5, Distribute
<1>8. d.wait = ((k + m) + 1) * delay - (played + elapsed)
  <2>1. ((k + 1) + m) * delay = (k + 1) * delay + m * delay
    BY <1>0, Distribute
  <2>2. (k + m) + 1 = (k + 1) + m
    BY <1>0
  <2>3. (k + 1) * delay \in Int /\ m * delay \in Int
    BY <1>0, Distribute
  <2> QED
    BY <1>0, <1>1, <1>4, <2>1, <2>2, <2>3
<1>9. k + m \in Nat
  BY <1>0
<1> QED
  BY <1>4, <1>6, <1>7, <1>8, <1>9 DEF OnPace, d

(* A new clock is not being paced.                                         *)
LEMMA PaceInit == Init => PaceInv
BY DEF Init, NoPace, PaceInv

(* play() puts the first due time one delay ahead.                         *)
LEMMA PlayStartsOnPace ==
  ASSUME NEW c \in Clock
  PROVE  /\ Play(c).status = "Playing"
         /\ StepDelay(Play(c)) > 0 => OnPace(Play(c), c.now, 0)
<1>1. /\ Play(c).status = "Playing" /\ Play(c).now = c.now /\ Play(c).step = c.step
      /\ Play(c).wait = StepDelay(c) /\ StepDelay(Play(c)) = StepDelay(c)
  BY DEF Play, Clock, StepDelay
<1>2. StepDelay(c) \in Nat /\ c.now \in Nat /\ c.step \in Nat
  BY StepDelayType DEF Clock
<1>3. c.now = c.now + 0 * c.step /\ StepDelay(c) = (0 + 1) * StepDelay(c) - 0
  BY <1>2
<1> QED
  BY <1>1, <1>2, <1>3 DEF OnPace

(* Every call and every tick preserves the pace invariant.                 *)
LEMMA PaceStep == DriverInv /\ PaceInv /\ [Next]_vars => PaceInv'
<1> SUFFICES ASSUME DriverInv, PaceInv, [Next]_vars PROVE PaceInv'
  OBVIOUS
<1>0. clock \in Clock /\ pace \in [counting : BOOLEAN, played : 0 .. MaxPlayed, origin : Nat]
  BY DEF DriverInv, TypeOK
<1>1. ASSUME pace' = NoPace PROVE PaceInv'
  BY <1>1 DEF NoPace, PaceInv
<1>2. ASSUME clock' = Play(clock), pace' = PaceFrom(clock) PROVE PaceInv'
  BY <1>0, <1>2, PlayStartsOnPace DEF PaceFrom, PaceInv
<1>3. CASE DoPlay
  BY <1>2, <1>3 DEF DoPlay
<1>4. CASE DoResumeFromWaiting
  BY <1>2, <1>4 DEF DoResumeFromWaiting, ResumeFromWaiting
<1>5. ASSUME NEW elapsed \in 1 .. MaxLag, DoTick(elapsed) PROVE PaceInv'
  <2>1. CASE /\ pace.counting /\ clock'.status = "Playing"
             /\ pace.played + elapsed <= MaxPlayed
    <3>1. /\ pace'.counting = pace.counting /\ pace'.origin = pace.origin
          /\ pace'.played = pace.played + elapsed
      BY <1>0, <1>5, <2>1 DEF DoTick
    <3>2. elapsed \in Nat /\ pace.origin \in Nat /\ pace.played \in Nat
      BY <1>0, DriverAssumption
    <3>3. clock' = Tick(clock, elapsed) /\ clock.status = "Playing"
      BY <1>5 DEF DoTick
    <3>4. StepDelay(clock') = StepDelay(clock)
      BY <1>0, <3>3, DisarmedFacts DEF Tick, Stop, Pause, Disarmed, StepDelay, Clock
    <3>5. StepDelay(clock) > 0 => OnPace(clock', pace.origin, pace.played + elapsed)
      BY <1>0, <2>1, <3>2, <3>3, TickKeepsPace DEF PaceInv
    <3> QED
      BY <2>1, <3>1, <3>4, <3>5 DEF PaceInv
  <2>2. CASE ~(/\ pace.counting /\ clock'.status = "Playing"
               /\ pace.played + elapsed <= MaxPlayed)
    BY <1>1, <1>5, <2>2 DEF DoTick
  <2> QED
    BY <2>1, <2>2
<1>6. CASE UNCHANGED vars
  BY <1>6 DEF vars, PaceInv, OnPace, StepDelay
<1> QED
  BY <1>1, <1>3, <1>4, <1>5, <1>6
  DEF Next, Caller, Ticking, DoPause, DoSeek, DoSetSpeed, DoSetStepSize, DoSetWaiting

(* A due time on the grid, at most one delay ahead, fixes how many steps   *)
(* were taken.                                                             *)
LEMMA PaceImplied == DriverInv /\ PaceInv => KeepsPace
<1> SUFFICES ASSUME DriverInv, PaceInv, pace.counting, StepDelay(clock) > 0
             PROVE  clock.now = pace.origin + (pace.played \div StepDelay(clock)) * clock.step
  BY DEF KeepsPace
<1> DEFINE delay == StepDelay(clock)
<1>1. /\ clock \in Clock /\ delay \in Nat \ {0} /\ pace.played \in Nat /\ clock.wait \in Int
  BY StepDelayType, DriverAssumption DEF DriverInv, TypeOK, Clock
<1>2. PICK k \in Nat : /\ clock.now = pace.origin + k * clock.step
                       /\ clock.wait = (k + 1) * delay - pace.played
                       /\ 0 < clock.wait /\ clock.wait <= delay
  BY DEF PaceInv, OnPace
<1> HIDE DEF delay
<1>3. (k + 1) * delay = k * delay + delay /\ k * delay \in Int
  BY <1>1, Distribute
<1>4. k * delay <= pace.played /\ pace.played < k * delay + delay
  BY <1>1, <1>2, <1>3
<1>5. pace.played \div delay = k
  BY <1>1, <1>4, DivIsUnique
<1> QED
  BY <1>2, <1>5 DEF delay

(* Late ticks neither lose nor repeat a step, for any lag of the frame     *)
(* timer and any way of cutting the wall time into ticks (the catch-up     *)
(* loop of tick()).                                                        *)
THEOREM DriverKeepsPace == Spec => []KeepsPace
<1>1. Init => DriverInv /\ PaceInv
  BY DriverInit, PaceInit
<1>2. (DriverInv /\ PaceInv) /\ [Next]_vars => (DriverInv /\ PaceInv)'
  BY DriverStep, PaceStep
<1> QED
  BY <1>1, <1>2, PaceImplied, PTL DEF Spec

-----------------------------------------------------------------------------
(* W holds the clock after each iteration of the catch-up loop, the        *)
(* recursion of CatchUp written out.                                       *)
AreIterations(W, c, n) == W[0] = c /\ \A i \in 1 .. n : W[i] = Iterate(W[i - 1])

(* The recursion of CatchUp defines a function.                            *)
LEMMA CatchUpDef ==
  ASSUME NEW c, NEW n \in Nat
  PROVE  \E W : AreIterations(W, c, n) /\ CatchUp(c, n) = W[n]
<1> DEFINE Graph(f, k) == f = [i \in 0 .. k |-> IF i = 0 THEN c ELSE Iterate(f[i - 1])]
           T == {k \in 0 .. n : \E f : Graph(f, k)}
<1>1. CatchUp(c, n) = (CHOOSE W : Graph(W, n))[n]
  BY DEF CatchUp
<1>2. 0 \in T
  <2>1. Graph([i \in 0 .. 0 |-> c], 0)
    OBVIOUS
  <2> HIDE DEF Graph
  <2>2. \E f : Graph(f, 0)
    BY <2>1
  <2> QED
    BY <2>2
<1>3. ASSUME NEW k \in 0 .. n - 1, k \in T
      PROVE  k + 1 \in T
  <2>1. PICK f : Graph(f, k)
    BY <1>3
  <2> DEFINE g == [i \in 0 .. k + 1 |-> IF i = k + 1 THEN Iterate(f[k]) ELSE f[i]]
  <2>2. \A i \in 0 .. k : g[i] = f[i]
    OBVIOUS
  <2>3. g[k + 1] = Iterate(f[k]) /\ k + 1 # 0
    OBVIOUS
  <2>4. ASSUME NEW i \in 0 .. k + 1
        PROVE  g[i] = IF i = 0 THEN c ELSE Iterate(g[i - 1])
    <3>1. CASE i = k + 1
      BY <2>2, <2>3, <3>1
    <3>2. CASE i # k + 1
      <4>1. i \in 0 .. k /\ (i # 0 => i - 1 \in 0 .. k)
        BY <3>2
      <4>2. f[i] = IF i = 0 THEN c ELSE Iterate(f[i - 1])
        BY <2>1, <4>1
      <4> HIDE DEF g
      <4> QED
        BY <2>2, <4>1, <4>2
    <3> QED
      BY <3>1, <3>2
  <2>5. Graph(g, k + 1)
    BY <2>4
  <2> HIDE DEF g, Graph
  <2>6. \E h : Graph(h, k + 1)
    BY <2>5
  <2> QED
    BY <2>6
<1>4. n \in T
  <2> HIDE DEF T
  <2>1. 0 .. n \subseteq T
    BY <1>2, <1>3, SetInduction
  <2> QED
    BY <2>1
<1> DEFINE W == CHOOSE W : Graph(W, n)
<1>5. Graph(W, n)
  BY <1>4
<1> HIDE DEF W
<1>6. W[0] = c /\ \A i \in 1 .. n : W[i] = Iterate(W[i - 1])
  BY <1>5
<1> QED
  BY <1>1, <1>6 DEF W, AreIterations

(* Stopping is the same for clocks that differ in their time and in when   *)
(* the next step is due.                                                   *)
LEMMA StopsAlike ==
  ASSUME NEW c \in Clock, NEW n, NEW w
  PROVE  LET d == [c EXCEPT !.now = n, !.wait = w]
         IN [Pause(d) EXCEPT !.now = c.end] = Stop(c)
BY DEF Stop, Pause, Disarmed, Clock

(* What the loop does to a playing clock, and that it ends: after k        *)
(* iterations it has taken k steps, or it is where Tick says.              *)
LEMMA LoopIsTick ==
  ASSUME NEW c \in Clock, c.status = "Playing", StepDelay(c) # 0, NEW e \in Nat
  PROVE  LET most == IF e < c.wait THEN 0 ELSE e - c.wait + 1
         IN /\ CatchUp([c EXCEPT !.wait = @ - e], most) = Tick(c, e)
            /\ ~IsDue(Tick(c, e))
<1> DEFINE most == IF e < c.wait THEN 0 ELSE e - c.wait + 1
           D == StepDelay(c) K == StepsDue(c, e) w == c.wait - e tick == Tick(c, e)
           S(k) == k * c.step P(k) == k * D
           Placed(n, v) == [c EXCEPT !.now = n, !.wait = v]
           At(k) == Placed(c.now + S(k), w + P(k))
           Runs(k) == k = 0 \/ c.now + S(k) < c.end
           first == [c EXCEPT !.wait = @ - e]
<1>1. /\ c.now \in Nat /\ c.wait \in Int /\ c.step \in Nat \ {0} /\ c.end \in Nat
      /\ D \in Nat \ {0} /\ w \in Int /\ most \in Nat
  BY StepDelayType DEF Clock
<1>2. K \in Nat
  BY StepsDueType
<1>3. /\ S(0) = 0 /\ P(0) = 0
      /\ \A k \in Nat : /\ S(k) \in Nat /\ P(k) \in Nat /\ k <= P(k)
                        /\ S(k + 1) = S(k) + c.step /\ P(k + 1) = P(k) + D
      /\ \A j, k \in Nat : j <= k => S(j) <= S(k) /\ P(j) <= P(k)
  <2>1. \A s \in Nat \ {0} : /\ 0 * s = 0
                             /\ \A k \in Nat : k * s \in Nat /\ k <= k * s /\ (k + 1) * s = k * s + s
                             /\ \A j, k \in Nat : j <= k => j * s <= k * s
    BY Z3
  <2> QED
    BY <1>1, <2>1
<1>4. /\ w > 0 => K = 0 /\ most = 0
      /\ w <= 0 => K > 0 /\ w + P(K - 1) <= 0 /\ w + P(K) > 0 /\ K <= most
  <2>1. CASE w > 0
    BY <1>1, <2>1 DEF StepsDue
  <2>2. CASE w <= 0
    <3> DEFINE q == (0 - w) \div D
    <3>1. 0 - w \in Nat /\ 0 - w = e - c.wait /\ ~(e < c.wait)
      BY <1>1, <2>2
    <3>2. K = 1 + q
      BY <3>1 DEF StepsDue
    <3>3. q \in Nat /\ (0 - w) % D \in 0 .. D - 1 /\ 0 - w = D * q + ((0 - w) % D)
      BY <1>1, <3>1, DivMod
    <3>4. D * q = P(q) /\ P(q) \in Nat /\ q <= P(q) /\ P(q + 1) = P(q) + D
      <4>1. \A a, b \in Nat : a * b = b * a
        BY Z3
      <4> QED
        BY <1>1, <1>3, <3>3, <4>1
    <3>5. P(K - 1) = P(q) /\ P(K) = P(q + 1)
      BY <3>2, <3>3
    <3> HIDE DEF q, K, P, w, D, S, At, Runs
    <3>6. most = e - c.wait + 1
      BY <3>1
    <3> HIDE DEF most
    <3> QED
      BY <1>1, <2>2, <3>1, <3>2, <3>3, <3>4, <3>5, <3>6
  <2> QED
    BY <1>1, <2>1, <2>2
<1>5. Tick(c, e) = IF K > 0 /\ Advance(c, K) = c.end THEN Stop(c)
                   ELSE [c EXCEPT !.now = IF K = 0 THEN @ ELSE Advance(c, K), !.wait = @ - e + K * D]
  BY DEF Tick
<1>6. Advance(c, K) = IF c.now + S(K) < c.end THEN c.now + S(K) ELSE c.end
  BY DEF Advance
<1> HIDE DEF K, D
<1>a. c = Placed(c.now, c.wait) /\ first = Placed(c.now, w)
      /\ \A n : [c EXCEPT !.now = n, !.wait = @ - e + K * D] = Placed(n, c.wait - e + K * D)
  BY DEF Clock
<1>c. \A n, u : [Pause(Placed(n, u)) EXCEPT !.now = c.end] = Stop(c)
  BY StopsAlike
<1>d. \A n, u : LET p == Placed(n, u)
                IN p.now = n /\ p.wait = u /\ p.status = "Playing" /\ p.step = c.step /\ p.end = c.end
                   /\ p.speed = c.speed
  BY DEF Clock
<1> DEFINE v == c.wait - e + K * D
<1>e. w + P(K) = v
  OBVIOUS
<1>5a. tick = IF K > 0 /\ Advance(c, K) = c.end THEN Stop(c)
              ELSE Placed(IF K = 0 THEN c.now ELSE Advance(c, K), v)
  BY <1>5, <1>a
<1> HIDE DEF S, P, w, v, tick, Placed, first, At, most
<1>g. \A x \in Int : x + 0 = x
  OBVIOUS
<1>h. c.now + S(0) = c.now /\ w + P(0) = w
  <2>1. S(0) = 0 /\ P(0) = 0
    BY <1>3
  <2>2. c.now \in Int /\ w \in Int
    BY <1>1
  <2> QED
    BY <1>g, <2>1, <2>2
<1>f. \A k \in Nat : c.now + S(k) \in Nat /\ w + P(k) \in Int
  <2> TAKE k \in Nat
  <2>1. S(k) \in Nat /\ P(k) \in Nat
    BY <1>3
  <2> QED
    BY <1>1, <2>1
<1>8. first = At(0)
  <2>1. c.now + S(0) = c.now /\ w + P(0) = w
    BY <1>h
  <2> QED
    BY <1>a, <2>1 DEF At
<1>7. tick = IF Runs(K) THEN At(K) ELSE Stop(c)
  <2>1. CASE K = 0
    <3>1. At(K) = first /\ w = v
      BY <1>8, <1>e, <1>h, <2>1
    <3>2. tick = Placed(c.now, v)
      BY <1>5a, <2>1
    <3> QED
      BY <1>a, <2>1, <3>1, <3>2
  <2>2. CASE K # 0 /\ c.now + S(K) < c.end
    <3>1. K > 0 /\ Advance(c, K) = c.now + S(K)
      BY <1>2, <1>6, <2>2
    <3>3. c.now + S(K) # c.end
      <4> DEFINE x == c.now + S(K) y == c.end
      <4>1. x < y /\ x \in Int /\ y \in Int
        BY <1>1, <1>2, <1>f, <2>2
      <4> HIDE DEF x, y
      <4>2. x # y
        BY <4>1
      <4> QED
        BY <4>2 DEF x, y
    <3>2. tick = Placed(c.now + S(K), v)
      BY <1>5a, <2>2, <3>1, <3>3
    <3> QED
      BY <1>e, <2>2, <3>2 DEF At
  <2>3. CASE K # 0 /\ ~(c.now + S(K) < c.end)
    <3>1. K > 0 /\ Advance(c, K) = c.end
      BY <1>2, <1>6, <2>3
    <3> QED
      BY <1>5a, <2>3, <3>1
  <2> QED
    BY <2>1, <2>2, <2>3
<1>9. \A k \in Nat : /\ At(k).now = c.now + S(k) /\ At(k).wait = w + P(k) /\ At(k).status = "Playing"
                     /\ At(k).step = c.step /\ At(k).end = c.end /\ At(k).speed = c.speed
  BY <1>d DEF At
<1>10. \A k \in Nat : /\ c.now + S(k + 1) = c.now + S(k) + c.step
                      /\ w + P(k + 1) = w + P(k) + D
                      /\ At(k + 1) = [At(k) EXCEPT !.now = c.now + S(k) + c.step, !.wait = w + P(k) + D]
  <2> TAKE k \in Nat
  <2>1. S(k) \in Nat /\ P(k) \in Nat /\ S(k + 1) = S(k) + c.step /\ P(k + 1) = P(k) + D
    BY <1>3
  <2>2. c.now + S(k + 1) = c.now + S(k) + c.step /\ w + P(k + 1) = w + P(k) + D
    BY <1>1, <2>1
  <2> DEFINE a1 == c.now + S(k) + c.step a2 == w + P(k) + D
  <2>3. At(k + 1) = Placed(a1, a2)
    BY <2>2 DEF At
  <2>4. [At(k) EXCEPT !.now = a1, !.wait = a2] = Placed(a1, a2)
    <3> DEFINE b1 == c.now + S(k) b2 == w + P(k)
    <3>1. At(k) = Placed(b1, b2)
      BY DEF At
    <3> HIDE DEF a1, a2, b1, b2
    <3>2. [Placed(b1, b2) EXCEPT !.now = a1, !.wait = a2] = Placed(a1, a2)
      BY DEF Placed, Clock
    <3> QED
      BY <3>1, <3>2
  <2> QED
    BY <2>2, <2>3, <2>4
<1>11. \A k \in Nat : [Pause(At(k)) EXCEPT !.now = c.end] = Stop(c)
  BY <1>c DEF At
<1>12. Stop(c).status = "Paused"
  BY DEF Stop, Pause, Disarmed, Clock
<1>13. \A k \in Nat : StepDelay(At(k)) = D
  BY <1>9 DEF StepDelay, D
<1>14. ~IsDue(tick)
  <2>1. ~IsDue(Stop(c))
    BY <1>12 DEF IsDue
  <2>2. ~IsDue(At(K))
    <3>1. w + P(K) > 0 /\ w + P(K) \in Int
      <4>1. CASE w > 0
        <5>1. P(K) \in Nat
          BY <1>2, <1>3
        <5> QED
          BY <1>1, <4>1, <5>1
      <4>2. CASE w <= 0
        BY <1>2, <1>4, <1>f, <4>2
      <4> QED
        BY <1>1, <4>1, <4>2
    <3>2. At(K).wait = w + P(K)
      BY <1>2, <1>9
    <3> QED
      BY <3>1, <3>2 DEF IsDue
  <2> QED
    BY <1>7, <2>1, <2>2
<1>15. ASSUME NEW k \in Nat, k <= K, Runs(k)
       PROVE  Iterate(At(k)) = IF k = K THEN tick ELSE IF Runs(k + 1) THEN At(k + 1) ELSE Stop(c)
  <2> DEFINE b == At(k) n == IF b.now + b.step < b.end THEN b.now + b.step ELSE b.end
  <2>1. Iterate(b) = IF ~IsDue(b) THEN b
                     ELSE IF n >= b.end THEN [Pause(b) EXCEPT !.now = n]
                     ELSE [b EXCEPT !.now = n, !.wait = @ + StepDelay(b)]
    BY DEF Iterate
  <2>2. CASE k = K
    BY <1>7, <1>14, <1>15, <2>1, <2>2
  <2>3. CASE k # K
    <3>1. k <= K - 1 /\ K > 0 /\ w <= 0
      BY <1>1, <1>2, <1>4, <1>15, <2>3
    <3>2. w + P(k) <= 0
      <4>1. K - 1 \in Nat /\ P(k) <= P(K - 1) /\ P(K - 1) \in Nat /\ P(k) \in Nat
        BY <1>2, <1>3, <3>1
      <4> QED
        BY <1>1, <1>4, <3>1, <4>1
    <3>3. IsDue(b)
      BY <1>9, <3>2 DEF IsDue
    <3>4. n = IF c.now + S(k + 1) < c.end THEN c.now + S(k + 1) ELSE c.end
      <4>1. b.now + b.step = c.now + S(k + 1) /\ b.end = c.end
        BY <1>9, <1>10
      <4> HIDE DEF b
      <4> QED
        BY <4>1
    <3>5. k + 1 # 0 /\ k + 1 \in Nat
      OBVIOUS
    <3>6. CASE c.now + S(k + 1) < c.end
      <4>1. n = c.now + S(k) + c.step /\ ~(n >= b.end)
        <5>1. c.now + S(k + 1) = c.now + S(k) + c.step /\ c.now + S(k + 1) \in Nat /\ b.end = c.end
          BY <1>9, <1>10, <1>f, <3>5
        <5>2. n = c.now + S(k + 1)
          BY <3>4, <3>6
        <5> HIDE DEF b, n
        <5> QED
          BY <1>1, <3>6, <5>1, <5>2
      <4>2. b.wait + StepDelay(b) = w + P(k) + D
        BY <1>9, <1>13
      <4>3. Iterate(b) = [b EXCEPT !.now = n, !.wait = b.wait + StepDelay(b)]
        BY <2>1, <3>3, <4>1
      <4> HIDE DEF b, n
      <4>4. Iterate(b) = At(k + 1)
        BY <1>10, <4>1, <4>2, <4>3 DEF b
      <4> QED
        BY <2>3, <3>6, <4>4 DEF b
    <3>7. CASE ~(c.now + S(k + 1) < c.end)
      <4>1. n = c.end /\ n >= b.end
        BY <1>1, <1>9, <3>4, <3>7
      <4>2. Iterate(b) = [Pause(b) EXCEPT !.now = n]
        BY <2>1, <3>3, <4>1
      <4> HIDE DEF n
      <4>3. Iterate(b) = Stop(c)
        BY <1>11, <4>1, <4>2
      <4> QED
        BY <2>3, <3>5, <3>7, <4>3
    <3> QED
      BY <3>6, <3>7
  <2> QED
    BY <2>2, <2>3
<1>16. PICK W : AreIterations(W, first, most) /\ CatchUp(first, most) = W[most]
  BY <1>1, CatchUpDef
<1> DEFINE Held(k) == W[k] = tick \/ (k <= K /\ Runs(k) /\ W[k] = At(k))
           T == {k \in 0 .. most : Held(k)}
<1>17. 0 \in T
  BY <1>1, <1>2, <1>8, <1>16 DEF AreIterations
<1> HIDE DEF most
<1>18. ASSUME NEW k \in 0 .. most - 1, k \in T
       PROVE  k + 1 \in T
  <2>1. k \in Nat /\ k + 1 \in 1 .. most /\ k + 1 \in 0 .. most /\ (k + 1) - 1 = k
    BY <1>1
  <2>2. W[k + 1] = Iterate(W[k])
    BY <1>16, <2>1 DEF AreIterations
  <2>3. CASE W[k] = tick
    <3>1. Iterate(tick) = tick
      BY <1>14 DEF Iterate
    <3> QED
      BY <2>1, <2>2, <2>3, <3>1
  <2>4. CASE k <= K /\ Runs(k) /\ W[k] = At(k)
    <3>1. W[k + 1] = IF k = K THEN tick ELSE IF Runs(k + 1) THEN At(k + 1) ELSE Stop(c)
      BY <1>15, <2>1, <2>2, <2>4
    <3>2. CASE k = K
      BY <2>1, <3>1, <3>2
    <3>3. CASE k # K /\ Runs(k + 1)
      BY <1>2, <2>1, <2>4, <3>1, <3>3
    <3>4. CASE k # K /\ ~Runs(k + 1)
      <4>1. K # 0 /\ k + 1 <= K
        BY <1>2, <2>1, <2>4, <3>4
      <4>2. S(k + 1) <= S(K) /\ S(k + 1) \in Nat /\ S(K) \in Nat
        <5> DEFINE m == k + 1
        <5>1. m \in Nat /\ m <= K
          BY <2>1, <4>1
        <5> HIDE DEF m
        <5>2. S(m) <= S(K) /\ S(m) \in Nat /\ S(K) \in Nat
          BY <1>2, <1>3, <5>1
        <5> QED
          BY <5>2 DEF m
      <4>3. ~Runs(K)
        BY <1>1, <3>4, <4>1, <4>2
      <4>4. tick = Stop(c)
        BY <1>7, <4>3
      <4> QED
        BY <2>1, <3>1, <3>4, <4>4
    <3> QED
      BY <3>2, <3>3, <3>4
  <2> QED
    BY <1>18, <2>3, <2>4
<1>19. most \in T
  <2> HIDE DEF T
  <2>1. 0 .. most \subseteq T
    BY <1>1, <1>17, <1>18, SetInduction
  <2> QED
    BY <1>1, <2>1
<1>20. W[most] = tick
  <2>1. CASE most <= K /\ Runs(most) /\ W[most] = At(most)
    <3>1. most = K
      BY <1>1, <1>2, <1>4, <2>1
    <3> QED
      BY <1>7, <2>1, <3>1
  <2> QED
    BY <1>19, <2>1
<1> QED
  BY <1>14, <1>16, <1>20 DEF most, first, tick

(* For every clock and every lag, the closed form of Tick is what the      *)
(* catch-up loop of tick() comes to, and there the loop ends.              *)
THEOREM TickComesToTheLoop == Spec => []TickIsTheLoop
<1>1. DriverInv => TickIsTheLoop
  <2> SUFFICES ASSUME DriverInv, NEW e \in 0 .. (2 * MaxLag)
               PROVE  Tick(clock, e) = LoopTick(clock, e) /\ ~IsDue(LoopTick(clock, e))
    BY DEF TickIsTheLoop
  <2> DEFINE c == clock
  <2>1. c \in Clock /\ e \in Nat
    BY DriverAssumption DEF DriverInv, TypeOK
  <2> HIDE DEF c
  <2>2. Tick(c, e) = LoopTick(c, e) /\ ~IsDue(LoopTick(c, e))
    <3>1. CASE c.status # "Playing"
      BY <3>1 DEF Tick, LoopTick, IsDue
    <3>2. CASE c.status = "Playing" /\ StepDelay(c) = 0
      <4>1. Tick(c, e) = Stop(c) /\ LoopTick(c, e) = Stop(c)
        BY <3>2 DEF Tick, LoopTick, Stop
      <4>2. Stop(c).status = "Paused"
        BY <2>1 DEF Stop, Pause, Disarmed, Clock
      <4> QED
        BY <4>1, <4>2 DEF IsDue
    <3>3. CASE c.status = "Playing" /\ StepDelay(c) # 0
      <4> DEFINE most == IF e < c.wait THEN 0 ELSE e - c.wait + 1
                 first == [c EXCEPT !.wait = @ - e]
      <4>1. CatchUp(first, most) = Tick(c, e) /\ ~IsDue(Tick(c, e))
        BY <2>1, <3>3, LoopIsTick
      <4>2. LoopTick(c, e) = CatchUp(first, most)
        BY <3>3 DEF LoopTick
      <4> QED
        BY <4>1, <4>2
    <3> QED
      BY <3>1, <3>2, <3>3
  <2> QED
    BY <2>2 DEF c
<1> QED
  BY <1>1, DriverInit, DriverStep, PTL DEF Spec

-----------------------------------------------------------------------------
(* The virtual exchange.                                                   *)

(* BookIsSound becomes inductive with the types of the book and of the     *)
(* history, and with the positions in the order of their times, none after *)
(* the last tick (Sound).                                                  *)
ExchangeInv ==
  /\ TypeOKExchange
  /\ Sound(book, now)
  /\ EveryOrderAccountedFor
  /\ LimitsAreKept

(* Two names for the closed positions.                                     *)
LEMMA ClosedIsClosedOf == Closed = ClosedOf(book)
BY DEF Closed, ClosedOf

(* The sets of ids of EveryOrderAccountedFor in the terms of the lemmas.   *)
LEMMA IdsInDomain ==
  ASSUME book \in Book, fills \in Seq(Fill)
  PROVE  /\ {book.orders[i].id : i \in DOMAIN book.orders} = OrderIds(book.orders, Len(book.orders))
         /\ {fills[i].order.id : i \in DOMAIN fills} = FilledIds(fills)
         /\ DOMAIN fills = 1 .. Len(fills)
<1>1. book.orders \in Seq(Order)
  BY DEF Book
<1>2. DOMAIN book.orders = 1 .. Len(book.orders) /\ DOMAIN fills = 1 .. Len(fills)
  BY <1>1
<1> QED
  BY <1>2 DEF OrderIds, FilledIds

(* The two history conjuncts in the terms of the lemmas.                   *)
Accounts(b, fs, n) ==
  /\ OrderIds(b.orders, Len(b.orders)) \cup FilledIds(fs) = 1 .. n
  /\ Len(b.orders) + Len(fs) = n
  /\ Len(fs) = Traded(b)
  /\ \A i \in 1 .. Len(fs) : Within(fs[i])

(* The two ways to write the history agree.                                *)
LEMMA AccountsDef ==
  ASSUME book \in Book, fills \in Seq(Fill)
  PROVE  EveryOrderAccountedFor /\ LimitsAreKept <=> Accounts(book, fills, placed)
<1>1. EveryOrderAccountedFor <=>
        /\ OrderIds(book.orders, Len(book.orders)) \cup FilledIds(fills) = 1 .. placed
                                 /\ Len(book.orders) + Len(fills) = placed
        /\ Len(fills) = Traded(book)
  BY IdsInDomain, ClosedIsClosedOf DEF EveryOrderAccountedFor, Traded
<1>2. LimitsAreKept <=> \A i \in 1 .. Len(fills) : Within(fills[i])
  BY IdsInDomain DEF LimitsAreKept, Within
<1> QED
  BY <1>1, <1>2 DEF Accounts

(* Nothing has been placed in a new book.                                  *)
LEMMA AccountsOfEmpty == Accounts(EmptyBook, <<>>, 0)
<1>1. EmptyBook.orders = <<>> /\ EmptyBook.positions = <<>>
  BY DEF EmptyBook
<1>2. Len(<<>>) = 0 /\ DOMAIN <<>> = {} /\ 1 .. 0 = {}
  OBVIOUS
<1>3. OrderIds(<<>>, 0) = {} /\ FilledIds(<<>>) = {}
  BY <1>2 DEF OrderIds, FilledIds
<1>4. ClosedOf(EmptyBook) = {}
  BY <1>1, <1>2 DEF ClosedOf
<1>5. Traded(EmptyBook) = 0
  BY <1>1, <1>2, <1>4, FS_EmptySet DEF Traded
<1> QED
  BY <1>1, <1>2, <1>3, <1>5 DEF Accounts

(* place_order puts the new id among the pending ones.                     *)
LEMMA PlaceAccounts ==
  ASSUME NEW t \in Nat, NEW b, Sound(b, t), NEW fs \in Seq(Fill), NEW n \in Nat,
         Accounts(b, fs, n), NEW o \in Order, o.id = n + 1
  PROVE  LET c == PlaceOrder(b, o)
         IN  Sound(c, t) /\ Accounts(c, fs, n + 1)
<1> DEFINE all == Append(b.orders, o)
           c == [b EXCEPT !.orders = all]
<1>1. b \in Book /\ b.orders \in Seq(Order) /\ Len(b.orders) \in Nat /\ Len(fs) \in Nat
  BY DEF Sound, Book
<1>2. all \in Seq(Order) /\ Len(all) = Len(b.orders) + 1
  BY <1>1, AppendProperties
<1>3. Sound(c, t) /\ Traded(c) = Traded(b) /\ c.orders = all
  <2> HIDE DEF all
  <2>1. t <= t
    OBVIOUS
  <2> QED
    BY <1>2, <2>1, OrdersDoNotMatter
<1>4. OrderIds(all, Len(all)) = OrderIds(b.orders, Len(b.orders)) \cup {n + 1}
  BY <1>1, IdsOfAppend
<1>5. PlaceOrder(b, o) = c
  BY DEF PlaceOrder
<1> HIDE DEF all, c
<1>6. /\ OrderIds(b.orders, Len(b.orders)) \cup FilledIds(fs) = 1 .. n
      /\ Len(b.orders) + Len(fs) = n /\ Len(fs) = Traded(b)
      /\ \A i \in 1 .. Len(fs) : Within(fs[i])
  BY DEF Accounts
<1>7. 1 .. n + 1 = 1 .. n \cup {n + 1}
  OBVIOUS
<1>8. OrderIds(c.orders, Len(c.orders)) \cup FilledIds(fs) = 1 .. n + 1
  BY <1>3, <1>4, <1>6, <1>7
<1>9. Len(c.orders) + Len(fs) = n + 1
  <2>1. Len(c.orders) = Len(b.orders) + 1
    BY <1>2, <1>3
  <2>2. (Len(b.orders) + 1) + Len(fs) = (Len(b.orders) + Len(fs)) + 1
    BY <1>1, PlusAssociative
  <2> QED
    BY <1>6, <2>1, <2>2
<1> QED
  BY <1>3, <1>5, <1>6, <1>8, <1>9 DEF Accounts

(* Fill events accumulate.                                                 *)
LEMMA ConcatFills ==
  ASSUME NEW fs \in Seq(Fill), NEW gs \in Seq(Fill),
         \A i \in 1 .. Len(fs) : Within(fs[i]), \A i \in 1 .. Len(gs) : Within(gs[i])
  PROVE  /\ fs \o gs \in Seq(Fill) /\ Len(fs \o gs) = Len(fs) + Len(gs)
         /\ FilledIds(fs \o gs) = FilledIds(fs) \cup FilledIds(gs)
         /\ \A i \in 1 .. Len(fs \o gs) : Within((fs \o gs)[i])
<1> DEFINE all == fs \o gs
           m == Len(fs)
           l == Len(gs)
<1>1. /\ all \in Seq(Fill) /\ Len(all) = m + l /\ m \in Nat /\ l \in Nat
      /\ \A i \in 1 .. m + l : all[i] = IF i <= m THEN fs[i] ELSE gs[i - m]
  BY ConcatProperties
<1> HIDE DEF all, m, l
<1>2. \A i \in 1 .. m : i \in 1 .. m + l /\ all[i] = fs[i]
  BY <1>1
<1>3. \A i \in 1 .. l : i + m \in 1 .. m + l /\ all[i + m] = gs[i]
  <2> TAKE i \in 1 .. l
  <2>1. i + m \in 1 .. m + l /\ ~(i + m <= m) /\ (i + m) - m = i
    BY <1>1
  <2> QED
    BY <1>1, <2>1
<1>4. \A i \in 1 .. m + l : \/ i \in 1 .. m /\ all[i] = fs[i]
                            \/ i - m \in 1 .. l /\ all[i] = gs[i - m]
  BY <1>1
<1>5. FilledIds(all) = FilledIds(fs) \cup FilledIds(gs)
  <2>1. FilledIds(all) = {all[i].order.id : i \in 1 .. m + l}
    BY <1>1 DEF FilledIds
  <2>2. FilledIds(fs) = {fs[i].order.id : i \in 1 .. m} /\ FilledIds(gs) = {gs[i].order.id : i \in 1 .. l}
    BY DEF FilledIds, m, l
  <2>3. \A x : x \in FilledIds(all) => x \in FilledIds(fs) \cup FilledIds(gs)
    <3> SUFFICES ASSUME NEW i \in 1 .. m + l
                 PROVE  all[i].order.id \in FilledIds(fs) \cup FilledIds(gs)
      BY <2>1
    <3>1. CASE i \in 1 .. m /\ all[i] = fs[i]
      BY <2>2, <3>1
    <3>2. CASE i - m \in 1 .. l /\ all[i] = gs[i - m]
      BY <2>2, <3>2
    <3> QED
      BY <1>4, <3>1, <3>2
  <2>4. \A x : x \in FilledIds(fs) => x \in FilledIds(all)
    BY <1>2, <2>1, <2>2
  <2>5. \A x : x \in FilledIds(gs) => x \in FilledIds(all)
    <3> SUFFICES ASSUME NEW i \in 1 .. l
                 PROVE  gs[i].order.id \in FilledIds(all)
      BY <2>2
    <3>1. i + m \in 1 .. m + l /\ all[i + m] = gs[i]
      BY <1>3
    <3> QED
      BY <2>1, <3>1
  <2> QED
    BY <2>3, <2>4, <2>5
<1>6. \A i \in 1 .. m + l : Within(all[i])
  <2>1. \A i \in 1 .. m : Within(fs[i])
    BY DEF m
  <2>2. \A i \in 1 .. l : Within(gs[i])
    BY DEF l
  <2> QED
    BY <1>4, <2>1, <2>2
<1> QED
  BY <1>1, <1>5, <1>6 DEF all, m, l

(* on_tick moves ids from the pending to the filled ones.                  *)
LEMMA TickAccounts ==
  ASSUME NEW t \in Nat, NEW b, Sound(b, t), NEW fs \in Seq(Fill), NEW n \in Nat,
         Accounts(b, fs, n), NEW ticker, NEW trades \in Seq(Nat), NEW time \in Nat, t <= time
  PROVE  /\ Sound(OnTick(b, ticker, trades, time), time)
         /\ fs \o FillEvents(b, ticker, trades, time) \in Seq(Fill)
         /\ Accounts(OnTick(b, ticker, trades, time),
                     fs \o FillEvents(b, ticker, trades, time), n)
<1> DEFINE c == OnTick(b, ticker, trades, time)
           gs == FillEvents(b, ticker, trades, time)
           m == Len(b.orders)
<1>1. AfterTurns([book |-> c, fills |-> gs], b, m, time)
  BY OnTickKeeps
<1>2. b.orders \in Seq(Order) /\ b.positions \in Seq(Position) /\ m \in Nat
      /\ b \in Book /\ Len(b.positions) \in Nat
  BY DEF Sound, Book
<1> HIDE DEF c, gs, m
<1>3. /\ Sound(c, time) /\ gs \in Seq(Fill)
      /\ Len(c.orders) + Len(gs) = m
      /\ OrderIds(c.orders, Len(c.orders)) \cup FilledIds(gs) = OrderIds(b.orders, m)
      /\ Traded(c) = Traded(b) + Len(gs)
      /\ \A i \in 1 .. Len(gs) : Within(gs[i])
  BY <1>1 DEF AfterTurns
<1>4. /\ OrderIds(b.orders, m) \cup FilledIds(fs) = 1 .. n
      /\ m + Len(fs) = n /\ Len(fs) = Traded(b)
      /\ \A i \in 1 .. Len(fs) : Within(fs[i])
  BY DEF Accounts, m
<1>5. /\ fs \o gs \in Seq(Fill) /\ Len(fs \o gs) = Len(fs) + Len(gs)
      /\ FilledIds(fs \o gs) = FilledIds(fs) \cup FilledIds(gs)
      /\ \A i \in 1 .. Len(fs \o gs) : Within((fs \o gs)[i])
  BY <1>3, <1>4, ConcatFills
<1>6. OrderIds(c.orders, Len(c.orders)) \cup FilledIds(fs \o gs) = 1 .. n
  BY <1>3, <1>4, <1>5
<1>7. c.orders \in Seq(Order) /\ Len(c.orders) \in Nat /\ Len(gs) \in Nat /\ Len(fs) \in Nat
  BY <1>3 DEF Sound, Book
<1>8. Len(c.orders) + Len(fs \o gs) = n
  BY <1>3, <1>4, <1>5, <1>7
<1>9. Len(fs \o gs) = Traded(c)
  BY <1>3, <1>4, <1>5, <1>7
<1> QED
  BY <1>3, <1>5, <1>6, <1>8, <1>9 DEF Accounts, c, gs

(* The trades of a tick are a sequence of prices.                          *)
LEMMA TradesOfTick ==
  ASSUME NEW trades \in BoundedSeq(Prices, MaxTrades)
  PROVE  trades \in Seq(Nat)
<1>1. Prices \subseteq Nat /\ MaxTrades \in Nat
  BY ExchangeAssumption
<1>2. PICK m \in 0 .. MaxTrades : trades \in [1 .. m -> Prices]
  BY DEF BoundedSeq, SeqOf
<1>3. m \in Nat
  BY <1>1
<1>4. trades = [i \in 1 .. m |-> trades[i]] /\ \A i \in 1 .. m : trades[i] \in Nat
  BY <1>1, <1>2
<1>5. trades \in [1 .. m -> Nat]
  BY <1>4
<1> QED
  BY <1>3, <1>5, SeqDef

(* The invariant holds of the new engine.                                  *)
LEMMA ExchangeInitInv == ExchangeInit => ExchangeInv
<1> SUFFICES ASSUME ExchangeInit
             PROVE  ExchangeInv
  OBVIOUS
<1>1. book = EmptyBook /\ now = 0 /\ placed = 0 /\ fills = <<>>
  BY DEF ExchangeInit
<1>2. Sound(book, now)
  BY <1>1, EmptyIsSound
<1>3. book \in Book
  BY <1>2 DEF Sound
<1>4. fills \in Seq(Fill)
  BY <1>1
<1>5. TypeOKExchange
  BY <1>1, <1>3, <1>4, ExchangeAssumption DEF TypeOKExchange
<1>6. Accounts(book, fills, placed)
  BY <1>1, AccountsOfEmpty
<1> QED
  BY <1>2, <1>3, <1>4, <1>5, <1>6, AccountsDef DEF ExchangeInv

(* Placing an order, a tick and a reset preserve it.                       *)
LEMMA ExchangeNextInv == ExchangeInv /\ [ExchangeNext]_exchangeVars => ExchangeInv'
<1> SUFFICES ASSUME ExchangeInv, [ExchangeNext]_exchangeVars
             PROVE  ExchangeInv'
  OBVIOUS
<1>1. /\ Sound(book, now) /\ book \in Book /\ fills \in Seq(Fill)
      /\ now \in 0 .. MaxTime /\ placed \in 0 .. MaxOrders
      /\ MaxTime \in Nat /\ MaxOrders \in Nat
  BY ExchangeAssumption DEF ExchangeInv, TypeOKExchange
<1>2. Accounts(book, fills, placed)
  BY <1>1, AccountsDef DEF ExchangeInv
<1>3. now \in Nat /\ placed \in Nat
  BY <1>1
<1>4. SUFFICES /\ Sound(book', now') /\ Accounts(book', fills', placed')
               /\ fills' \in Seq(Fill) /\ now' \in 0 .. MaxTime /\ placed' \in 0 .. MaxOrders
  <2>1. ASSUME Sound(book', now'), Accounts(book', fills', placed'),
               fills' \in Seq(Fill), now' \in 0 .. MaxTime, placed' \in 0 .. MaxOrders
        PROVE  ExchangeInv'
    <3>1. book' \in Book
      BY <2>1 DEF Sound
    <3>2. (EveryOrderAccountedFor /\ LimitsAreKept)'
      <4>1. (book \in Book /\ fills \in Seq(Fill)
               => (EveryOrderAccountedFor /\ LimitsAreKept <=> Accounts(book, fills, placed)))'
        BY AccountsDef, PTL
      <4> QED
        BY <2>1, <3>1, <4>1
    <3> QED
      BY <2>1, <3>1, <3>2 DEF ExchangeInv, TypeOKExchange
  <2> QED
    BY <2>1
<1>5. CASE Place
  <2>1. PICK ticker \in Tickers, side \in Sides, qty \in Quantities, limit \in Limits :
          book' = PlaceOrder(book, [id |-> placed', ticker |-> ticker, side |-> side,
                                    qty |-> qty, limit |-> limit, placed |-> now])
    BY <1>5 DEF Place
  <2> DEFINE o == [id |-> placed + 1, ticker |-> ticker, side |-> side,
                   qty |-> qty, limit |-> limit, placed |-> now]
  <2>2. placed < MaxOrders /\ placed' = placed + 1 /\ now' = now /\ fills' = fills
    BY <1>5 DEF Place
  <2>3. o \in Order /\ o.id = placed + 1
    <3>1. placed + 1 \in Nat \ {0}
      BY <1>3
    <3>2. ticker \in STRING /\ qty \in Nat \ {0} /\ limit \in Nat \cup {Market}
      BY ExchangeAssumption, Zenon
    <3> QED
      BY <1>3, <3>1, <3>2 DEF Order
  <2>4. book' = PlaceOrder(book, o)
    BY <2>1, <2>2
  <2> HIDE DEF o
  <2>5. Sound(book', now) /\ Accounts(book', fills, placed + 1)
    BY <1>1, <1>2, <1>3, <2>3, <2>4, PlaceAccounts
  <2> QED
    BY <1>1, <2>2, <2>5
<1>6. CASE EngineTick
  <2>1. PICK ticker \in Tickers, trades \in BoundedSeq(Prices, MaxTrades), time \in now .. MaxTime :
          TickOf(ticker, trades, time)
    BY <1>6 DEF EngineTick
  <2>2. trades \in Seq(Nat) /\ time \in 0 .. MaxTime /\ time \in Nat /\ now <= time
    BY <1>1, TradesOfTick
  <2>3. /\ now' = time /\ placed' = placed
        /\ book' = OnTick(book, ticker, trades, time)
        /\ fills' = fills \o FillEvents(book, ticker, trades, time)
    BY <2>1 DEF TickOf
  <2>4. /\ Sound(book', time) /\ fills' \in Seq(Fill) /\ Accounts(book', fills', placed)
    BY <1>1, <1>2, <1>3, <2>2, <2>3, TickAccounts
  <2> QED
    BY <1>1, <2>2, <2>3, <2>4
<1>7. CASE Reset
  <2>1. book' = EmptyBook /\ now' = 0 /\ placed' = 0 /\ fills' = <<>>
    BY <1>7 DEF Reset
  <2>2. <<>> \in Seq(Fill)
    OBVIOUS
  <2> QED
    BY <1>1, <2>1, <2>2, EmptyIsSound, AccountsOfEmpty
<1>8. CASE UNCHANGED exchangeVars
  BY <1>1, <1>2, <1>8 DEF exchangeVars
<1> QED
  BY <1>5, <1>6, <1>7, <1>8 DEF ExchangeNext

(* VirtualExchangeEngine: the book, the clock of the ticks and the history *)
(* keep to their types, whatever orders and ticks come.                    *)
THEOREM ExchangeTypes == ExchangeSpec => []TypeOKExchange
<1>1. ExchangeInv => TypeOKExchange
  BY DEF ExchangeInv
<1> QED
  BY <1>1, ExchangeInitInv, ExchangeNextInv, PTL DEF ExchangeSpec

(* VirtualExchangeEngine: in every reachable book no ticker is open on     *)
(* both sides, the cash is what the positions paid and brought, positions  *)
(* close oldest first, every order is pending or filled exactly once, and  *)
(* no fill crosses its limit (order_book.rs, portfolio.rs).                *)
THEOREM BookStaysSound == ExchangeSpec => []BookIsSound
<1>1. ExchangeInv => BookIsSound
  BY DEF ExchangeInv, BookIsSound, Sound
<1> QED
  BY <1>1, ExchangeInitInv, ExchangeNextInv, PTL DEF ExchangeSpec

-----------------------------------------------------------------------------
(* The types of the order panels.                                          *)

(* A panel with new values for some fields is a panel.                     *)
LEMMA PanelUpdates ==
  ASSUME NEW panel \in Panel, NEW q \in QtyInputs,
         NEW b1 \in BOOLEAN, NEW b2 \in BOOLEAN
  PROVE  /\ [panel EXCEPT !.qty = q, !.password = b1] \in Panel
         /\ [panel EXCEPT !.modal = b1] \in Panel
         /\ [panel EXCEPT !.loading = b1] \in Panel
         /\ [panel EXCEPT !.modal = b1, !.loading = b2] \in Panel
         /\ [panel EXCEPT !.loading = b1, !.rows = b2] \in Panel
         /\ [panel EXCEPT !.loading = b1, !.password = b2] \in Panel
         /\ [panel EXCEPT !.virtualPane = b1, !.virtualPanel = b2] \in Panel
BY DEF Panel

(* A new panel is one.                                                     *)
LEMMA BlankType ==
  ASSUME NEW layout \in Layouts, NEW kind \in PanelKinds, NEW b \in BOOLEAN
  PROVE  Blank(layout, kind, b) \in Panel
BY DEF Blank, Panel, QtyInputs

(* A panel keeps to its types when the broker answers.                     *)
LEMMA AfterAnswerType ==
  ASSUME NEW panel \in Panel, NEW c, c.what \in CallKinds, NEW ok \in BOOLEAN
  PROVE  AfterAnswer(panel, c, ok) \in Panel
<1>1. (panel.password /\ ~ok) \in BOOLEAN
  OBVIOUS
<1>2. [panel EXCEPT !.loading = FALSE, !.password = @ /\ ~ok] \in Panel
  BY <1>1 DEF Panel
<1>3. /\ [panel EXCEPT !.loading = FALSE] \in Panel
      /\ [panel EXCEPT !.loading = FALSE, !.rows = TRUE] \in Panel
  BY DEF Panel
<1> QED
  BY <1>2, <1>3 DEF AfterAnswer, CallKinds

(* One panel changes, and calls are made to the broker.                    *)
LEMMA SetType ==
  ASSUME TypeOKPanels, NEW p \in DOMAIN panels, NEW panel \in Panel, Set(p, panel)
  PROVE  DOMAIN panels' = DOMAIN panels /\ \A q \in DOMAIN panels' : panels'[q] \in Panel
BY DEF Set, TypeOKPanels

(* A call is of a panel that was opened.                                   *)
LEMMA CallType ==
  ASSUME TypeOKPanels, NEW p \in opened', opened \subseteq opened',
         NEW what \in CallKinds, Call(p, what)
  PROVE  calls' \subseteq [pane : opened', what : CallKinds]
BY DEF Call, TypeOKPanels

(* Telling a layout its mode keeps the types.                              *)
LEMMA SyncType ==
  ASSUME TypeOKPanels, NEW mode \in BOOLEAN, SyncVirtualMode(mode)
  PROVE  /\ guard' \in [Layouts -> BOOLEAN]
         /\ DOMAIN panels' = DOMAIN panels
         /\ \A p \in DOMAIN panels' : panels'[p] \in Panel
<1>1. guard' \in [Layouts -> BOOLEAN] /\ panels' = Told(active, mode)
  BY DEF SyncVirtualMode, TypeOKPanels
<1>2. DOMAIN panels' = DOMAIN panels
  BY <1>1 DEF Told
<1>3. ASSUME NEW p \in DOMAIN panels
      PROVE  panels'[p] \in Panel
  <2>1. panels[p] \in Panel
    BY DEF TypeOKPanels
  <2>2. [panels[p] EXCEPT !.virtualPane = mode, !.virtualPanel = mode] \in Panel
    BY <2>1 DEF Panel
  <2> QED
    BY <1>1, <2>1, <2>2 DEF Told
<1> QED
  BY <1>1, <1>2, <1>3

(* Every step of the panels keeps the types.                               *)
LEMMA TypesStep ==
  ASSUME TypeOKPanels, [PanelNext]_panelVars
  PROVE  TypeOKPanels'
<1> USE PanelAssumption
<1> DEFINE Rest == /\ inReplay' \in BOOLEAN /\ active' \in Layouts
                   /\ guard' \in [Layouts -> BOOLEAN]
                   /\ opened' \subseteq PaneIds /\ virtual' \in 0 .. MaxVirtual
                   /\ onTheWay' \subseteq {"specs", "sync"}
           Open == /\ DOMAIN panels' \subseteq opened'
                   /\ \A p \in DOMAIN panels' : panels'[p] \in Panel
           Asks == calls' \subseteq [pane : opened', what : CallKinds]
<1>0. /\ \A p : OnScreen(p) => p \in DOMAIN panels /\ p \in opened /\ panels[p] \in Panel
      /\ \A p, k : IsKind(p, k) => p \in DOMAIN panels /\ p \in opened /\ panels[p] \in Panel
  BY DEF OnScreen, IsKind, TypeOKPanels
<1>1. CASE SwitchMode
  <2>1. inReplay' \in BOOLEAN /\ SyncVirtualMode(inReplay')
    BY <1>1 DEF SwitchMode
  <2>2. /\ guard' \in [Layouts -> BOOLEAN] /\ DOMAIN panels' = DOMAIN panels
        /\ \A p \in DOMAIN panels' : panels'[p] \in Panel
    BY <2>1, SyncType
  <2>3. Rest /\ Open
    BY <1>1, <2>1, <2>2 DEF SwitchMode, TypeOKPanels
  <2> QED
    BY <1>1, <2>3 DEF SwitchMode, TypeOKPanels
<1>2. CASE SyncHandled
  <2>1. Rest /\ Open
    BY <1>2, SyncType DEF SyncHandled, TypeOKPanels
  <2> QED
    BY <1>2, <2>1 DEF SyncHandled, TypeOKPanels
<1>3. CASE SpecsCollected \/ \E l \in Layouts : LayoutSelected(l)
  BY <1>3 DEF SpecsCollected, LayoutSelected, TypeOKPanels
<1>4. ASSUME NEW p \in PaneIds, NEW kind \in PanelKinds, OpenOrderPane(p, kind)
      PROVE  TypeOKPanels'
  <2>1. Rest
    BY <1>4 DEF OpenOrderPane, TypeOKPanels
  <2>2. Open
    BY <1>4, BlankType DEF OpenOrderPane, TypeOKPanels
  <2>3. Asks
    BY <1>4, CallType DEF OpenOrderPane, TypeOKPanels, CallKinds
  <2> QED
    BY <2>1, <2>2, <2>3 DEF TypeOKPanels
<1>5. ASSUME NEW p \in PaneIds, NEW kind \in PanelKinds, ContentSelected(p, kind)
      PROVE  TypeOKPanels'
  <2>1. Rest
    BY <1>5 DEF ContentSelected, WithSync, TypeOKPanels
  <2>2. panels[p].virtualPane \in BOOLEAN /\ p \in DOMAIN panels
    BY <1>0, <1>5 DEF ContentSelected, Panel
  <2>3. Blank(active, kind, panels[p].virtualPane) \in Panel
    BY <2>2, BlankType DEF TypeOKPanels
  <2>4. Open
    BY <1>5, <2>2, <2>3, SetType DEF ContentSelected, TypeOKPanels
  <2>5. Asks
    BY <1>0, <1>5, CallType DEF ContentSelected, TypeOKPanels, CallKinds
  <2> QED
    BY <2>1, <2>4, <2>5 DEF TypeOKPanels
<1>6. ASSUME NEW p \in PaneIds, ClosePane(p)
      PROVE  TypeOKPanels'
  <2>1. Rest /\ Asks
    BY <1>6 DEF ClosePane, WithSync, TypeOKPanels
  <2>2. Open
    BY <1>6 DEF ClosePane, TypeOKPanels
  <2> QED
    BY <2>1, <2>2 DEF TypeOKPanels
<1>7. ASSUME NEW p \in PaneIds, NEW qty \in QtyInputs, NEW password \in BOOLEAN,
             Typed(p, qty, password)
      PROVE  TypeOKPanels'
  <2>1. Rest /\ Asks
    BY <1>7 DEF Typed, WithSync, TypeOKPanels
  <2>2. Open
    BY <1>0, <1>7, PanelUpdates, SetType DEF Typed, TypeOKPanels
  <2> QED
    BY <2>1, <2>2 DEF TypeOKPanels
<1>8. ASSUME NEW p \in PaneIds,
             ConfirmClicked(p) \/ ConfirmCancelled(p) \/ ModifyClicked(p)
      PROVE  TypeOKPanels'
  <2>1. Rest /\ Asks
    BY <1>8 DEF ConfirmClicked, ConfirmCancelled, ModifyClicked, WithSync, TypeOKPanels
  <2>2. p \in DOMAIN panels /\ \E b \in BOOLEAN : Set(p, [panels[p] EXCEPT !.modal = b])
    BY <1>0, <1>8 DEF ConfirmClicked, ConfirmCancelled, ModifyClicked
  <2>3. Open
    BY <1>8, <2>2, PanelUpdates, SetType
       DEF ConfirmClicked, ConfirmCancelled, ModifyClicked, TypeOKPanels, QtyInputs
  <2> QED
    BY <2>1, <2>3 DEF TypeOKPanels
<1>9. ASSUME NEW p \in PaneIds, Rejected(p)
      PROVE  TypeOKPanels'
  BY <1>9 DEF Rejected, WithSync, TypeOKPanels
<1>10. ASSUME NEW p \in PaneIds, SubmitVirtual(p) \/ SubmitBlocked(p) \/ SubmitToBroker(p)
       PROVE  TypeOKPanels'
  <2>1. Submitted(p) /\ p \in DOMAIN panels /\ p \in opened /\ panels[p] \in Panel
    BY <1>0, <1>10 DEF SubmitVirtual, SubmitBlocked, SubmitToBroker, Submitted
  <2>2. Rest
    BY <1>10, <2>1
       DEF SubmitVirtual, SubmitBlocked, SubmitToBroker, Submitted, WithSync, TypeOKPanels
  <2>3. Open
    BY <2>1, PanelUpdates, SetType DEF Submitted, TypeOKPanels, QtyInputs
  <2>4. Asks
    <3>1. CASE SubmitToBroker(p)
      BY <2>1, <3>1, CallType DEF SubmitToBroker, Submitted, CallKinds
    <3>2. CASE SubmitVirtual(p) \/ SubmitBlocked(p)
      BY <2>1, <3>2 DEF SubmitVirtual, SubmitBlocked, Submitted, TypeOKPanels
    <3> QED
      BY <1>10, <3>1, <3>2
  <2> QED
    BY <2>2, <2>3, <2>4 DEF TypeOKPanels
<1>11. ASSUME NEW p \in PaneIds, RefreshClicked(p)
       PROVE  TypeOKPanels'
  <2>1. Rest /\ p \in DOMAIN panels /\ p \in opened'
    BY <1>0, <1>11 DEF RefreshClicked, TypeOKPanels
  <2>2. Open
    BY <1>0, <1>11, <2>1, PanelUpdates, SetType DEF RefreshClicked, TypeOKPanels, QtyInputs
  <2>3. Asks
    BY <1>11, <2>1, CallType DEF RefreshClicked, CallKinds
  <2> QED
    BY <2>1, <2>2, <2>3 DEF TypeOKPanels
<1>12. ASSUME NEW p \in PaneIds, ModifySubmitted(p)
       PROVE  TypeOKPanels'
  <2>1. Rest /\ p \in DOMAIN panels /\ p \in opened'
    BY <1>0, <1>12 DEF ModifySubmitted, WithSync, TypeOKPanels
  <2>2. Open
    BY <1>0, <1>12, <2>1, PanelUpdates, SetType DEF ModifySubmitted, TypeOKPanels, QtyInputs
  <2>3. Asks
    BY <1>12, <2>1, CallType DEF ModifySubmitted, CallKinds, TypeOKPanels
  <2> QED
    BY <2>1, <2>2, <2>3 DEF TypeOKPanels
<1>13. ASSUME NEW c \in calls, NEW ok \in BOOLEAN, CallAnswered(c, ok)
       PROVE  TypeOKPanels'
  <2>1. Rest /\ Asks
    BY <1>13 DEF CallAnswered, WithSync, TypeOKPanels
  <2>2. c.what \in CallKinds
    BY DEF TypeOKPanels
  <2>3. Open
    BY <1>13, <2>2, AfterAnswerType, SetType DEF CallAnswered, TypeOKPanels
  <2> QED
    BY <2>1, <2>3 DEF TypeOKPanels
<1>14. CASE UNCHANGED panelVars
  BY <1>14 DEF panelVars, TypeOKPanels
<1> QED
  BY <1>1, <1>2, <1>3, <1>4, <1>5, <1>6, <1>7, <1>8, <1>9, <1>10, <1>11, <1>12, <1>13, <1>14
     DEF PanelNext

(* Panes, panels, calls and messages keep to their types, for any layouts, *)
(* panes and kinds of panels.                                              *)
THEOREM PanelTypes == PanelSpec => []TypeOKPanels
<1>1. PanelInit => TypeOKPanels
  BY PanelAssumption DEF PanelInit, TypeOKPanels
<1> QED
  BY <1>1, TypesStep, PTL DEF PanelSpec

-----------------------------------------------------------------------------
(* Orders follow the mode.  When no message is on its way that brings the  *)
(* copies of the mode in step, they need not be in step: a pane opened     *)
(* from the sidebar is not.  But a dialog that is open on the screen was   *)
(* opened by a click, and the message that followed the click has been     *)
(* handled.  An order entry with its dialog open is not sending.           *)
ModalInStep(p) ==
  (onTheWay = {} /\ OnScreen(p) /\ panels[p].modal) =>
    /\ guard[active] <=> inReplay
    /\ panels[p].virtualPane <=> inReplay

(* A panel that asks for a confirmation has sent nothing yet.              *)
NotSending(p) == panels[p].kind = "entry" /\ panels[p].modal => ~panels[p].loading

(* Both, of every panel.                                                   *)
ModalsInStep == \A p \in DOMAIN panels : ModalInStep(p) /\ NotSending(p)

(* What a change of one pane does to the others.                           *)
LEMMA SetKeeps ==
  ASSUME NEW p \in DOMAIN panels, NEW panel, Set(p, panel)
  PROVE  /\ DOMAIN panels' = DOMAIN panels /\ panels'[p] = panel
         /\ \A q \in DOMAIN panels : q # p => panels'[q] = panels[q]
BY DEF Set

(* A layout that is told the mode on the screen is in step with it.        *)
LEMMA SyncPutsInStep ==
  ASSUME TypeOKPanels, ModalsInStep, SyncVirtualMode(inReplay'), active' = active
  PROVE  ModalsInStep'
<1>1. guard'[active] = inReplay' /\ panels' = Told(active, inReplay')
  BY DEF SyncVirtualMode, TypeOKPanels
<1> SUFFICES ASSUME NEW p \in DOMAIN panels'
             PROVE  ModalInStep(p)' /\ NotSending(p)'
  BY DEF ModalsInStep
<1>2. p \in DOMAIN panels /\ panels[p] \in Panel
  BY <1>1 DEF Told, TypeOKPanels
<1>3. CASE panels[p].layout = active
  <2>1. panels'[p] = [panels[p] EXCEPT !.virtualPane = inReplay', !.virtualPanel = inReplay']
    BY <1>1, <1>2, <1>3 DEF Told
  <2>2. /\ panels'[p].virtualPane = inReplay' /\ panels'[p].kind = panels[p].kind
        /\ panels'[p].modal = panels[p].modal /\ panels'[p].loading = panels[p].loading
    BY <1>2, <2>1 DEF Panel
  <2> QED
    BY <1>1, <1>2, <2>2 DEF ModalInStep, NotSending, ModalsInStep
<1>4. CASE panels[p].layout # active
  <2>1. panels'[p] = panels[p]
    BY <1>1, <1>2, <1>4 DEF Told
  <2> QED
    BY <1>2, <1>4, <2>1 DEF ModalInStep, NotSending, ModalsInStep, OnScreen
<1> QED
  BY <1>3, <1>4

(* A pane that changed, where its dialog is not open after it or was open  *)
(* before and the messages are as they were.                               *)
LEMMA PanelStepKeeps ==
  ASSUME TypeOKPanels, ModalsInStep, NEW p \in DOMAIN panels, NEW panel \in Panel,
         Set(p, panel), UNCHANGED <<inReplay, active, guard>>,
         onTheWay' # {} \/ (onTheWay' = onTheWay /\ panel.virtualPane = panels[p].virtualPane),
         panel.modal => \/ panels[p].modal /\ (panel.loading => panels[p].loading)
                        \/ onTheWay' # {} /\ (panel.kind = "entry" => ~panel.loading),
         panel.layout = panels[p].layout, panel.kind = panels[p].kind
  PROVE  ModalsInStep'
<1>1. /\ DOMAIN panels' = DOMAIN panels /\ panels'[p] = panel
      /\ \A q \in DOMAIN panels : q # p => panels'[q] = panels[q]
  BY SetKeeps
<1> SUFFICES ASSUME NEW q \in DOMAIN panels'
             PROVE  ModalInStep(q)' /\ NotSending(q)'
  BY DEF ModalsInStep
<1>2. q \in DOMAIN panels
  BY <1>1
<1>3. onTheWay' = {} => onTheWay' = onTheWay
  OBVIOUS
<1>4. CASE q # p
  <2>1. panels'[q] = panels[q]
    BY <1>1, <1>2, <1>4
  <2> QED
    BY <1>2, <1>3, <2>1 DEF ModalsInStep, ModalInStep, NotSending, OnScreen
<1>5. CASE q = p
  BY <1>1, <1>2, <1>3, <1>5 DEF ModalsInStep, ModalInStep, NotSending, OnScreen
<1> QED
  BY <1>4, <1>5

(* Where no dialog opens and the panes only become fewer.                  *)
LEMMA FewerPanesKeep ==
  ASSUME TypeOKPanels, ModalsInStep, DOMAIN panels' \subseteq DOMAIN panels,
         \A q \in DOMAIN panels' : panels'[q] = panels[q],
         \/ onTheWay' # {}
         \/ UNCHANGED <<onTheWay, active, guard, inReplay>>
  PROVE  ModalsInStep'
BY DEF ModalsInStep, ModalInStep, NotSending, OnScreen

(* Every step keeps the dialogs that are open in step.                     *)
LEMMA ModalsStep ==
  ASSUME TypeOKPanels, ModalsInStep, [PanelNext]_panelVars
  PROVE  ModalsInStep'
<1>0. /\ \A p : OnScreen(p) => p \in DOMAIN panels /\ panels[p] \in Panel
      /\ \A p, k : IsKind(p, k) => p \in DOMAIN panels /\ panels[p] \in Panel /\ panels[p].kind = k
  BY DEF OnScreen, IsKind, TypeOKPanels
<1>a. WithSync => onTheWay' # {}
  BY DEF WithSync
<1>1. CASE SwitchMode \/ SyncHandled
  <2>1. SyncVirtualMode(inReplay') /\ active' = active
    BY <1>1 DEF SwitchMode, SyncHandled
  <2> QED
    BY <2>1, SyncPutsInStep
<1>2. CASE SpecsCollected \/ \E l \in Layouts : LayoutSelected(l)
  <2>1. onTheWay' # {} /\ panels' = panels
    BY <1>2 DEF SpecsCollected, LayoutSelected
  <2> QED
    BY <2>1, FewerPanesKeep
<1>3. ASSUME NEW p \in PaneIds, NEW kind \in PanelKinds, OpenOrderPane(p, kind)
      PROVE  ModalsInStep'
  <2>1. /\ DOMAIN panels' = DOMAIN panels \cup {p}
        /\ panels'[p] = Blank(active, kind, FALSE)
        /\ \A q \in DOMAIN panels : q # p => panels'[q] = panels[q]
        /\ p \notin DOMAIN panels
    BY <1>3 DEF OpenOrderPane, TypeOKPanels
  <2>2. panels'[p].modal = FALSE
    BY <2>1 DEF Blank
  <2> QED
    BY <1>3, <2>1, <2>2
       DEF OpenOrderPane, ModalsInStep, ModalInStep, NotSending, OnScreen
<1>4. ASSUME NEW p \in PaneIds, NEW kind \in PanelKinds, ContentSelected(p, kind)
      PROVE  ModalsInStep'
  <2>1. /\ p \in DOMAIN panels /\ DOMAIN panels' = DOMAIN panels
        /\ panels'[p] = Blank(active, kind, panels[p].virtualPane)
        /\ \A q \in DOMAIN panels : q # p => panels'[q] = panels[q]
    BY <1>0, <1>4, SetKeeps DEF ContentSelected
  <2>2. panels'[p].modal = FALSE
    BY <2>1 DEF Blank
  <2>3. onTheWay' # {} \/ onTheWay' = onTheWay
    BY <1>a, <1>4 DEF ContentSelected
  <2> QED
    BY <1>4, <2>1, <2>2, <2>3
       DEF ContentSelected, ModalsInStep, ModalInStep, NotSending, OnScreen
<1>5. ASSUME NEW p \in PaneIds, ClosePane(p)
      PROVE  ModalsInStep'
  <2>1. DOMAIN panels' \subseteq DOMAIN panels /\ \A q \in DOMAIN panels' : panels'[q] = panels[q]
    BY <1>5 DEF ClosePane
  <2> QED
    BY <1>a, <1>5, <2>1, FewerPanesKeep DEF ClosePane
<1>6. ASSUME NEW p \in PaneIds, NEW qty \in QtyInputs, NEW password \in BOOLEAN,
             Typed(p, qty, password)
      PROVE  ModalsInStep'
  <2> DEFINE panel == [panels[p] EXCEPT !.qty = qty, !.password = password]
  <2>1. p \in DOMAIN panels /\ panels[p] \in Panel /\ Set(p, panel)
    BY <1>0, <1>6 DEF Typed
  <2>2. /\ panel \in Panel /\ panel.modal = panels[p].modal /\ panel.loading = panels[p].loading
        /\ panel.layout = panels[p].layout /\ panel.kind = panels[p].kind
    BY <2>1 DEF Panel
  <2> HIDE DEF panel
  <2> QED
    BY <1>a, <1>6, <2>1, <2>2, PanelStepKeeps DEF Typed
<1>7. ASSUME NEW p \in PaneIds, ConfirmClicked(p) \/ ModifyClicked(p)
      PROVE  ModalsInStep'
  <2> DEFINE panel == [panels[p] EXCEPT !.modal = TRUE]
  <2>1. /\ p \in DOMAIN panels /\ panels[p] \in Panel /\ Set(p, panel)
        /\ onTheWay' # {} /\ UNCHANGED <<inReplay, active, guard>>
        /\ ~panels[p].loading \/ panels[p].kind = "list"
    BY <1>0, <1>a, <1>7 DEF ConfirmClicked, ModifyClicked, CanConfirm
  <2>2. /\ panel \in Panel /\ (panel.loading <=> panels[p].loading)
        /\ panel.layout = panels[p].layout /\ panel.kind = panels[p].kind
    BY <2>1 DEF Panel
  <2> HIDE DEF panel
  <2> QED
    BY <2>1, <2>2, PanelStepKeeps
<1>8. ASSUME NEW p \in PaneIds, ConfirmCancelled(p)
      PROVE  ModalsInStep'
  <2> DEFINE panel == [panels[p] EXCEPT !.modal = FALSE]
  <2>1. /\ p \in DOMAIN panels /\ panels[p] \in Panel /\ Set(p, panel)
        /\ onTheWay' # {} /\ UNCHANGED <<inReplay, active, guard>>
    BY <1>0, <1>a, <1>8 DEF ConfirmCancelled
  <2>2. /\ panel \in Panel /\ ~panel.modal
        /\ panel.layout = panels[p].layout /\ panel.kind = panels[p].kind
    BY <2>1 DEF Panel
  <2> HIDE DEF panel
  <2> QED
    BY <2>1, <2>2, PanelStepKeeps
<1>9. ASSUME NEW p \in PaneIds, Rejected(p)
      PROVE  ModalsInStep'
  BY <1>a, <1>9, FewerPanesKeep DEF Rejected
<1>10. ASSUME NEW p \in PaneIds, SubmitVirtual(p) \/ SubmitBlocked(p) \/ SubmitToBroker(p)
       PROVE  ModalsInStep'
  <2> DEFINE panel == [panels[p] EXCEPT !.modal = FALSE, !.loading = TRUE]
  <2>1. /\ p \in DOMAIN panels /\ panels[p] \in Panel /\ Set(p, panel)
        /\ UNCHANGED <<inReplay, active, guard>>
    BY <1>0, <1>10 DEF SubmitVirtual, SubmitBlocked, SubmitToBroker, Submitted
  <2>2. /\ panel \in Panel /\ panel.modal = FALSE /\ panel.virtualPane = panels[p].virtualPane
        /\ panel.layout = panels[p].layout /\ panel.kind = panels[p].kind
    BY <2>1 DEF Panel
  <2>3. onTheWay' # {} \/ onTheWay' = onTheWay
    BY <1>a, <1>10 DEF SubmitVirtual, SubmitBlocked, SubmitToBroker
  <2> HIDE DEF panel
  <2> QED
    BY <2>1, <2>2, <2>3, PanelStepKeeps
<1>11. ASSUME NEW p \in PaneIds, RefreshClicked(p)
       PROVE  ModalsInStep'
  <2>1. /\ p \in DOMAIN panels /\ panels[p] \in Panel /\ DOMAIN panels' = DOMAIN panels
        /\ panels'[p] = [panels[p] EXCEPT !.loading = TRUE]
        /\ \A q \in DOMAIN panels : q # p => panels'[q] = panels[q]
    BY <1>0, <1>11, SetKeeps DEF RefreshClicked
  <2>2. /\ panels'[p].modal = panels[p].modal /\ panels'[p].virtualPane = panels[p].virtualPane
        /\ panels'[p].layout = panels[p].layout /\ panels'[p].kind # "entry"
    BY <1>11, <2>1 DEF Panel, RefreshClicked
  <2> QED
    BY <1>11, <2>1, <2>2
       DEF RefreshClicked, ModalsInStep, ModalInStep, NotSending, OnScreen
<1>12. ASSUME NEW p \in PaneIds, ModifySubmitted(p)
       PROVE  ModalsInStep'
  <2> DEFINE panel == [panels[p] EXCEPT !.modal = FALSE]
  <2>1. /\ p \in DOMAIN panels /\ panels[p] \in Panel /\ Set(p, panel)
        /\ UNCHANGED <<inReplay, active, guard>>
    BY <1>0, <1>12 DEF ModifySubmitted
  <2>2. /\ panel \in Panel /\ panel.modal = FALSE /\ panel.virtualPane = panels[p].virtualPane
        /\ panel.layout = panels[p].layout /\ panel.kind = panels[p].kind
    BY <2>1 DEF Panel
  <2>3. onTheWay' # {} \/ onTheWay' = onTheWay
    BY <1>a, <1>12 DEF ModifySubmitted
  <2> HIDE DEF panel
  <2> QED
    BY <2>1, <2>2, <2>3, PanelStepKeeps
<1>13. ASSUME NEW c \in calls, NEW ok \in BOOLEAN, CallAnswered(c, ok)
       PROVE  ModalsInStep'
  <2>1. onTheWay' # {} /\ UNCHANGED <<inReplay, active, guard>>
    BY <1>a, <1>13 DEF CallAnswered
  <2>2. CASE panels' = panels
    BY <2>1, <2>2, FewerPanesKeep
  <2>3. CASE panels' # panels
    <3> DEFINE p == c.pane
               panel == AfterAnswer(panels[p], c, ok)
    <3>1. p \in DOMAIN panels /\ panels[p] \in Panel /\ Set(p, panel)
      BY <1>13, <2>3 DEF CallAnswered, TypeOKPanels
    <3>2. c.what \in CallKinds
      BY DEF TypeOKPanels
    <3>3. panel \in Panel
      BY <3>1, <3>2, AfterAnswerType
    <3>4. /\ panel.modal = panels[p].modal /\ (panel.loading => panels[p].loading)
          /\ panel.layout = panels[p].layout /\ panel.kind = panels[p].kind
      BY <3>1, <3>2 DEF AfterAnswer, CallKinds, Panel
    <3> HIDE DEF p, panel
    <3> QED
      BY <2>1, <3>1, <3>3, <3>4, PanelStepKeeps
  <2> QED
    BY <2>2, <2>3
<1>14. CASE UNCHANGED panelVars
  BY <1>14, FewerPanesKeep DEF panelVars
<1> QED
  BY <1>1, <1>2, <1>3, <1>4, <1>5, <1>6, <1>7, <1>8, <1>9, <1>10, <1>11, <1>12, <1>13, <1>14
     DEF PanelNext

(* A step that looks like a submission to the panel is one: nothing else   *)
(* closes its dialog and makes it send.                                    *)
LEMMA OnlySubmissionsSubmit ==
  ASSUME TypeOKPanels, ModalsInStep, PanelNext, onTheWay = {},
         NEW p \in PaneIds, Submitted(p)
  PROVE  SubmitVirtual(p) \/ SubmitBlocked(p) \/ SubmitToBroker(p)
<1>0. /\ p \in DOMAIN panels /\ panels[p] \in Panel /\ panels[p].kind = "entry"
      /\ panels[p].modal /\ ~panels[p].loading
      /\ DOMAIN panels' = DOMAIN panels
      /\ panels'[p] = [panels[p] EXCEPT !.modal = FALSE, !.loading = TRUE]
      /\ \A q \in DOMAIN panels : q # p => panels'[q] = panels[q]
      /\ UNCHANGED <<inReplay, active, guard, opened>>
  BY SetKeeps DEF Submitted, IsKind, OnScreen, TypeOKPanels, ModalsInStep, NotSending
<1>1. ~panels'[p].modal /\ panels'[p].loading
  BY <1>0 DEF Panel
<1>2. ASSUME NEW q \in PaneIds \cup opened, NEW panel, Set(q, panel), q \in DOMAIN panels,
             (panel.modal <=> panels[q].modal) \/ (panel.loading <=> panels[q].loading)
      PROVE  FALSE
  <2>1. /\ panels'[q] = panel
        /\ \A r \in DOMAIN panels : r # q => panels'[r] = panels[r]
    BY <1>2, SetKeeps
  <2>2. p = q
    BY <1>0, <1>1, <2>1
  <2> QED
    BY <1>0, <1>1, <1>2, <2>1, <2>2
<1>3. ~SwitchMode
  <2>1. inReplay = TRUE \/ inReplay = FALSE
    BY DEF TypeOKPanels
  <2> QED
    BY <1>0, <2>1 DEF SwitchMode
<1>4. ~SyncHandled /\ ~SpecsCollected /\ \A l \in Layouts : ~LayoutSelected(l)
  BY <1>0 DEF SyncHandled, SpecsCollected, LayoutSelected
<1>5. \A q \in PaneIds, kind \in PanelKinds : ~OpenOrderPane(q, kind)
  BY <1>0 DEF OpenOrderPane
<1>6. ASSUME NEW q \in PaneIds, NEW kind \in PanelKinds, ContentSelected(q, kind)
      PROVE  FALSE
  <2>1. /\ q \in DOMAIN panels
        /\ panels'[q] = Blank(active, kind, panels[q].virtualPane)
        /\ \A r \in DOMAIN panels : r # q => panels'[r] = panels[r]
    BY <1>6, SetKeeps DEF ContentSelected, OnScreen
  <2>2. p = q
    BY <1>0, <1>1, <2>1
  <2> QED
    BY <1>1, <2>1, <2>2 DEF Blank
<1>7. \A q \in PaneIds : ~ClosePane(q)
  BY <1>0 DEF ClosePane, OnScreen
<1>8. ASSUME NEW q \in PaneIds, NEW qty \in QtyInputs, NEW password \in BOOLEAN,
             Typed(q, qty, password)
      PROVE  FALSE
  <2>1. q \in DOMAIN panels /\ panels[q] \in Panel
    BY <1>8 DEF Typed, IsKind, OnScreen, TypeOKPanels
  <2>2. [panels[q] EXCEPT !.qty = qty, !.password = password].modal <=> panels[q].modal
    BY <2>1 DEF Panel
  <2> QED
    BY <1>2, <1>8, <2>1, <2>2 DEF Typed
<1>9. ASSUME NEW q \in PaneIds,
             \/ ConfirmClicked(q) \/ ConfirmCancelled(q)
             \/ ModifyClicked(q) \/ ModifySubmitted(q)
      PROVE  FALSE
  <2>1. q \in DOMAIN panels /\ panels[q] \in Panel
    BY <1>9 DEF ConfirmClicked, ConfirmCancelled, ModifyClicked, ModifySubmitted,
                IsKind, OnScreen, TypeOKPanels
  <2>2. /\ [panels[q] EXCEPT !.modal = TRUE].loading <=> panels[q].loading
        /\ [panels[q] EXCEPT !.modal = FALSE].loading <=> panels[q].loading
    BY <2>1 DEF Panel
  <2>3. Set(q, [panels[q] EXCEPT !.modal = TRUE]) \/ Set(q, [panels[q] EXCEPT !.modal = FALSE])
    BY <1>9 DEF ConfirmClicked, ConfirmCancelled, ModifyClicked, ModifySubmitted
  <2> QED
    BY <1>2, <2>1, <2>2, <2>3
<1>10. \A q \in PaneIds : ~Rejected(q)
  BY <1>0, <1>1 DEF Rejected
<1>11. ASSUME NEW q \in PaneIds, RefreshClicked(q)
       PROVE  FALSE
  <2>1. q \in DOMAIN panels /\ panels[q] \in Panel
    BY <1>11 DEF RefreshClicked, OnScreen, TypeOKPanels
  <2>2. [panels[q] EXCEPT !.loading = TRUE].modal <=> panels[q].modal
    BY <2>1 DEF Panel
  <2> QED
    BY <1>2, <1>11, <2>1, <2>2 DEF RefreshClicked
<1>12. ASSUME NEW c \in calls, NEW ok \in BOOLEAN, CallAnswered(c, ok)
       PROVE  FALSE
  <2>1. panels' # panels
    BY <1>0, <1>1
  <2>2. /\ c.pane \in DOMAIN panels /\ panels[c.pane] \in Panel /\ c.pane \in opened
        /\ Set(c.pane, AfterAnswer(panels[c.pane], c, ok)) /\ c.what \in CallKinds
    BY <1>12, <2>1 DEF CallAnswered, TypeOKPanels
  <2>3. AfterAnswer(panels[c.pane], c, ok).modal <=> panels[c.pane].modal
    BY <2>2 DEF AfterAnswer, CallKinds, Panel
  <2> QED
    BY <1>2, <2>2, <2>3
<1>13. ASSUME NEW q \in PaneIds, SubmitVirtual(q) \/ SubmitBlocked(q) \/ SubmitToBroker(q)
       PROVE  q = p
  BY <1>0, <1>1, <1>13, SetKeeps
     DEF SubmitVirtual, SubmitBlocked, SubmitToBroker, Submitted, IsKind, OnScreen
<1> QED
  BY <1>3, <1>4, <1>5, <1>6, <1>7, <1>8, <1>9, <1>10, <1>11, <1>12, <1>13 DEF PanelNext

(* The broker is asked for an order or a change of one only in Live.       *)
LEMMA BrokerOnlyInLive ==
  ASSUME TypeOKPanels, ModalsInStep, [PanelNext]_panelVars, onTheWay = {},
         NEW c \in calls' \ calls, c.what \in {"order", "modify"}
  PROVE  ~inReplay
<1>1. ASSUME NEW p, NEW what, Call(p, what)
      PROVE  c.what = what
  BY <1>1 DEF Call
<1>2. \/ \E p \in PaneIds : SubmitToBroker(p) \/ (ModifySubmitted(p) /\ ~guard[active])
      \/ calls' \subseteq calls
      \/ \E p \in PaneIds, what \in {"power", "orders"} : Call(p, what)
  BY DEF PanelNext, panelVars, SwitchMode, SyncHandled, SpecsCollected, LayoutSelected,
         OpenOrderPane, ContentSelected, ClosePane, Typed, ConfirmClicked, ConfirmCancelled,
         Rejected, SubmitVirtual, SubmitBlocked, RefreshClicked, ModifyClicked,
         ModifySubmitted, CallAnswered
<1>3. \A p \in PaneIds, what \in {"power", "orders"} : ~Call(p, what)
  BY <1>1
<1>4. PICK p \in PaneIds : SubmitToBroker(p) \/ (ModifySubmitted(p) /\ ~guard[active])
  BY <1>2, <1>3
<1>5. p \in DOMAIN panels /\ OnScreen(p) /\ panels[p].modal /\ ~guard[active]
  BY <1>4 DEF SubmitToBroker, Submitted, ModifySubmitted, IsKind, OnScreen
<1> QED
  BY <1>5 DEF ModalsInStep, ModalInStep

(* An order of the screen goes where the mode says: to the broker in Live, *)
(* to the virtual exchange in Replay, whatever panes, layouts, mode        *)
(* switches and answers came before.                                       *)
THEOREM PanelOrdersFollowTheMode == PanelSpec => OrdersFollowTheMode
<1>1. PanelInit => ModalsInStep
  BY DEF PanelInit, ModalsInStep
<1>2. ASSUME TypeOKPanels, ModalsInStep, [PanelNext]_panelVars, onTheWay = {},
             NEW p \in PaneIds, Submitted(p)
      PROVE  IF inReplay THEN virtual' > virtual \/ panels[p].qty = "text"
                         ELSE [pane |-> p, what |-> "order"] \in calls'
  <2>1. p \in DOMAIN panels /\ OnScreen(p) /\ panels[p].modal /\ ~panels[p].loading
        /\ panels[p].qty \in {"number", "text"} /\ panels[p] \in Panel
    BY <1>2 DEF Submitted, IsKind, OnScreen, Complete, ModalsInStep, NotSending,
                TypeOKPanels, Panel, QtyInputs
  <2>2. (guard[active] <=> inReplay) /\ (panels[p].virtualPane <=> inReplay)
    BY <1>2, <2>1 DEF ModalsInStep, ModalInStep
  <2>3. PanelNext
    <3>1. panels'[p] = [panels[p] EXCEPT !.modal = FALSE, !.loading = TRUE]
      BY <1>2, <2>1, SetKeeps DEF Submitted
    <3>2. panels'[p].loading
      BY <2>1, <3>1 DEF Panel
    <3> QED
      BY <1>2, <2>1, <3>2 DEF panelVars
  <2>4. SubmitVirtual(p) \/ SubmitBlocked(p) \/ SubmitToBroker(p)
    BY <1>2, <2>3, OnlySubmissionsSubmit
  <2>5. CASE inReplay
    <3>1. SubmitVirtual(p)
      BY <2>2, <2>4, <2>5 DEF SubmitBlocked, SubmitToBroker
    <3>2. panels[p].qty = "number" => virtual' = virtual + 1
      BY <2>5, <3>1 DEF SubmitVirtual
    <3> QED
      BY <1>2, <2>1, <2>5, <3>2, PanelAssumption DEF TypeOKPanels
  <2>6. CASE ~inReplay
    <3>1. SubmitToBroker(p)
      BY <2>2, <2>4, <2>6 DEF SubmitBlocked, SubmitVirtual
    <3> QED
      BY <2>6, <3>1 DEF SubmitToBroker, Call
  <2> QED
    BY <2>5, <2>6
<1>3. TypeOKPanels /\ ModalsInStep /\ [PanelNext]_panelVars /\ onTheWay = {} =>
        /\ \A c \in calls' \ calls : c.what \in {"order", "modify"} => ~inReplay
        /\ \A p \in PaneIds : Submitted(p) =>
             IF inReplay THEN virtual' > virtual \/ panels[p].qty = "text"
                         ELSE [pane |-> p, what |-> "order"] \in calls'
  BY <1>2, BrokerOnlyInLive
<1>4. TypeOKPanels /\ ModalsInStep /\ [PanelNext]_panelVars => ModalsInStep'
  BY ModalsStep
<1> QED
  BY <1>1, <1>3, <1>4, PanelTypes, PTL DEF PanelSpec, OrdersFollowTheMode

-----------------------------------------------------------------------------
(* Subscriptions.                                                          *)

(* Streams are what AnyStream says, and of the ticker they were made for.  *)
LEMMA StreamTypes ==
  ASSUME NEW m \in Markets
  PROVE  /\ Trades(m) \in AnyStream /\ Trades(m).market = m
         /\ \A frame \in KlineFrames : Kline(m, frame) \in AnyStream /\ Kline(m, frame).market = m
         /\ \A size \in AllSizes, freq \in Freqs(m) :
              Depth(m, size, freq) \in AnyStream /\ Depth(m, size, freq).market = m
<1> DEFINE Of(n) == {Trades(n)} \cup {Kline(n, frame) : frame \in KlineFrames}
                      \cup {Depth(n, size, freq) : size \in AllSizes, freq \in Freqs(n)}
<1>1. Of(m) \subseteq AnyStream
  BY DEF AnyStream
<1>2. /\ Trades(m) \in Of(m)
      /\ \A frame \in KlineFrames : Kline(m, frame) \in Of(m)
      /\ \A size \in AllSizes, freq \in Freqs(m) : Depth(m, size, freq) \in Of(m)
  OBVIOUS
<1>3. /\ Trades(m).market = m
      /\ \A frame \in KlineFrames : Kline(m, frame).market = m
      /\ \A size \in AllSizes, freq \in Freqs(m) : Depth(m, size, freq).market = m
  BY DEF Trades, Kline, Depth, Stream
<1> HIDE DEF Of
<1> QED
  BY <1>1, <1>2, <1>3

(* A depth stream is one of the sizes and paces its market has.            *)
LEMMA DepthShape ==
  ASSUME NEW s \in AnyStream
  PROVE  /\ s.market \in Markets
         /\ s.kind = "depth" =>
              \E size \in AllSizes, freq \in Freqs(s.market) : s = Depth(s.market, size, freq)
<1>1. PICK m \in Markets : s \in {Trades(m)} \cup {Kline(m, frame) : frame \in KlineFrames}
                      \cup {Depth(m, size, freq) : size \in AllSizes, freq \in Freqs(m)}
  BY DEF AnyStream
<1>2. CASE s = Trades(m)
  BY <1>2 DEF Trades, Stream
<1>3. CASE \E frame \in KlineFrames : s = Kline(m, frame)
  BY <1>3 DEF Kline, Stream
<1>4. CASE \E size \in AllSizes, freq \in Freqs(m) : s = Depth(m, size, freq)
  <2>1. s.market = m
    BY <1>4 DEF Depth, Stream
  <2> QED
    BY <1>4, <2>1
<1> QED
  BY <1>1, <1>2, <1>3, <1>4

(* What PaneSetup gives a pane is a pane of the ticker asked for.          *)
LEMMA PlannedTypes ==
  ASSUME NEW kind \in Chartable, NEW basis, NEW m \in Markets, NEW before, NEW size \in AllSizes
  PROVE  /\ PlannedBasis(kind, basis) \in Frames
         /\ kind = "candle" => PlannedBasis(kind, basis) \in KlineFrames
         /\ kind = "footprint" => PlannedBasis(kind, basis) \in KlineFrames \cup {"tick"}
         /\ kind = "heatmap" => PlannedBasis(kind, basis) \in HeatFrames
         /\ PlannedSize(kind, m, before, size) \in AllSizes
BY SubscriptionAssumption
   DEF Chartable, PlannedBasis, PlannedSize, Frames, AllSizes, KlineLike, HeatLike, NoneYet

(* What is planned for a kind of pane are streams of its one market.       *)
LEMMA PlannedStreamTypes ==
  ASSUME NEW kind \in Chartable, NEW m \in Markets, NEW size \in AllSizes, NEW basis \in Frames,
         kind = "candle" => basis \in KlineFrames,
         kind = "footprint" => basis \in KlineFrames \cup {"tick"},
         kind = "heatmap" => basis \in HeatFrames
  PROVE  /\ PlannedStreams(kind, m, basis, size) \in SUBSET AnyStream
         /\ PlannedStreams(kind, m, basis, size) # {}
         /\ \A s \in PlannedStreams(kind, m, basis, size) : s.market = m
<1> DEFINE freq == IF kind = "heatmap" /\ m \in CustomFreq THEN basis ELSE "default"
<1>1. freq \in Freqs(m)
  BY DEF Freqs
<1> HIDE DEF freq
<1>2. CASE kind = "candle"
  BY <1>2, StreamTypes DEF PlannedStreams
<1>3. CASE kind = "footprint"
  BY <1>3, StreamTypes DEF PlannedStreams
<1>4. CASE kind = "tape"
  BY <1>4, StreamTypes DEF PlannedStreams
<1>5. CASE kind \notin {"candle", "footprint", "tape"}
  <2>1. PlannedStreams(kind, m, basis, size) = {Trades(m), Depth(m, size, freq)}
    BY <1>5 DEF PlannedStreams, freq
  <2> QED
    BY <2>1, <1>1, StreamTypes
<1> QED
  BY <1>2, <1>3, <1>4, <1>5

(* A pane that is given a market shows it, and is ready.                   *)
LEMMA ShowingType ==
  ASSUME NEW c, c.size \in AllSizes, NEW m \in Markets, NEW kind \in Chartable
  PROVE  LET d == Showing(c, m, kind)
         IN  d \in Pane /\ OneMarket(d) /\ d.ready /\ d.streams # {}
<1> DEFINE same  == c.kind = kind
           basis == PlannedBasis(kind, IF same THEN c.basis ELSE NoneYet)
           size  == PlannedSize(kind, m, Pair(c), IF same THEN c.size ELSE NoneYet)
<1>1. (IF same THEN c.size ELSE NoneYet) \in AllSizes
  BY DEF AllSizes
<1>2. /\ basis \in Frames /\ size \in AllSizes
      /\ kind = "candle" => basis \in KlineFrames
      /\ kind = "footprint" => basis \in KlineFrames \cup {"tick"}
      /\ kind = "heatmap" => basis \in HeatFrames
  <2> HIDE DEF same
  <2> QED
    BY <1>1, PlannedTypes
<1>3. Showing(c, m, kind) = [kind |-> kind, basis |-> basis, size |-> size,
        streams |-> PlannedStreams(kind, m, basis, size),
        ready |-> TRUE, chart |-> TRUE, replay |-> FALSE]
  BY DEF Showing
<1> HIDE DEF basis, size
<1>4. kind \in Kinds
  BY DEF Chartable
<1> QED
  BY <1>2, <1>3, <1>4, PlannedStreamTypes DEF Pane, OneMarket

-----------------------------------------------------------------------------
(* The panes are panes, each of one ticker.                                *)
PanesTyped ==
  /\ grid = [p \in DOMAIN grid |-> grid[p]]
  /\ \A p \in DOMAIN grid : grid[p] \in Pane /\ OneMarket(grid[p])

(* Putting a pane into the grid touches no other.                          *)
LEMMA PutInTyped ==
  ASSUME PanesTyped, NEW p, NEW c \in Pane, OneMarket(c), grid' = PutIn(p, c)
  PROVE  /\ DOMAIN grid' = DOMAIN grid \cup {p}
         /\ grid'[p] = c
         /\ \A q \in DOMAIN grid \ {p} : grid'[q] = grid[q]
         /\ PanesTyped'
BY DEF PanesTyped, PutIn

(* A pane's market is a market.                                            *)
LEMMA PairIsMarket ==
  ASSUME NEW c \in Pane, NEW m \in Pair(c)
  PROVE  m \in Markets
BY DepthShape DEF Pane, Pair

(* A pane is told of again, or its streams are as they were.               *)
LEMMA ExtendKeeps ==
  ASSUME LackingIsUntold, NEW p, NEW c, grid' = PutIn(p, c), grid'[p] = c,
         \A q \in DOMAIN grid \ {p} : grid'[q] = grid[q],
         DOMAIN grid' = DOMAIN grid \cup {p}, Extend(p, c.streams)
  PROVE  LackingIsUntold'
BY DEF LackingIsUntold, Lacking, Extend

(* A table derived again from the panes lacks nothing that was told.       *)
LEMMA RefreshKeeps ==
  ASSUME Refresh
  PROVE  LackingIsUntold'
BY DEF LackingIsUntold, Lacking, Refresh, Shown

(* Who does not tell the table of a change is among the untold.            *)
LEMMA NotToldKeeps ==
  ASSUME LackingIsUntold, NEW p, NotTold(p), DOMAIN grid' \subseteq DOMAIN grid \cup {p},
         \A q \in DOMAIN grid' \ {p} : grid'[q] = grid[q]
  PROVE  LackingIsUntold'
BY DEF LackingIsUntold, Lacking, NotTold

(* No pane has other streams than it had, or it is not ready.              *)
LEMMA SameStreamsKeep ==
  ASSUME LackingIsUntold, UNCHANGED subscribed, untold \cap DOMAIN grid' \subseteq untold',
         \A q \in DOMAIN grid' : grid'[q].ready =>
            /\ q \in DOMAIN grid /\ grid[q].ready
            /\ grid'[q].streams = grid[q].streams
  PROVE  LackingIsUntold'
BY DEF LackingIsUntold, Lacking

(* Both are kept together.                                                 *)
SubscriptionInv == PanesTyped /\ LackingIsUntold

(* A bare pane is one, and not ready.                                      *)
LEMMA BareType == Bare \in Pane /\ OneMarket(Bare) /\ ~Bare.ready
BY DEF Bare, Pane, OneMarket, Frames, AllSizes, NoneYet

(* A pane is given a market, and the table is told.                        *)
LEMMA GiveKeeps ==
  ASSUME SubscriptionInv, NEW p, NEW c, c.size \in AllSizes, NEW m \in Markets, NEW kind \in Chartable,
         Change(p, Showing(c, m, kind)), Extend(p, grid'[p].streams)
  PROVE  SubscriptionInv'
<1> DEFINE d == Showing(c, m, kind)
<1>0. PanesTyped /\ LackingIsUntold
  BY DEF SubscriptionInv
<1>1. d \in Pane /\ OneMarket(d)
  BY ShowingType
<1>2. grid' = PutIn(p, d)
  BY DEF Change
<1> HIDE DEF d
<1>3. /\ DOMAIN grid' = DOMAIN grid \cup {p}
      /\ grid'[p] = d
      /\ \A q \in DOMAIN grid \ {p} : grid'[q] = grid[q]
      /\ PanesTyped'
  BY <1>0, <1>1, <1>2, PutInTyped
<1>4. Extend(p, d.streams)
  BY <1>3
<1>5. LackingIsUntold'
  BY <1>0, <1>2, <1>3, <1>4, ExtendKeeps
<1> QED
  BY <1>3, <1>5 DEF SubscriptionInv

(* Every change of a pane keeps what the table owes to it.                 *)
LEMMA GivesKeep ==
  ASSUME SubscriptionInv, NEW p, NEW m \in Markets, NEW kind \in Chartable, NEW frame,
         \/ SwitchTicker(p, m) \/ ApiSetTicker(p, m)
         \/ SplitAndInit(p, m, kind) \/ ApiSetTimeframe(p, frame)
  PROVE  SubscriptionInv'
<1>1. CASE SwitchTicker(p, m)
  <2>1. grid[p].size \in AllSizes /\ grid[p].kind \in Chartable
    BY <1>1 DEF SwitchTicker, SubscriptionInv, PanesTyped, Pane
  <2> QED
    BY <1>1, <2>1, GiveKeeps DEF SwitchTicker, Give
<1>2. CASE ApiSetTicker(p, m)
  <2>1. grid[p].size \in AllSizes /\ "candle" \in Chartable
    BY <1>2 DEF ApiSetTicker, SubscriptionInv, PanesTyped, Pane, Chartable
  <2> QED
    BY <1>2, <2>1, GiveKeeps DEF ApiSetTicker, Give
<1>3. CASE SplitAndInit(p, m, kind)
  <2>1. Bare.size \in AllSizes
    BY DEF Bare, AllSizes
  <2> QED
    BY <1>3, <2>1, GiveKeeps DEF SplitAndInit
<1>4. CASE ApiSetTimeframe(p, frame)
  <2>1. grid[p] \in Pane /\ grid[p].kind \in Chartable
    BY <1>4 DEF ApiSetTimeframe, SubscriptionInv, PanesTyped
  <2> DEFINE c == [grid[p] EXCEPT !.basis = frame]
  <2>2. c.size \in AllSizes
    BY <2>1 DEF Pane
  <2>3. PICK n \in Pair(grid[p]) : Change(p, Showing(c, n, grid[p].kind))
    BY <1>4 DEF ApiSetTimeframe
  <2>4. n \in Markets
    BY <2>1, PairIsMarket
  <2>5. Extend(p, grid'[p].streams)
    BY <1>4 DEF ApiSetTimeframe
  <2> HIDE DEF c
  <2> QED
    BY <2>1, <2>2, <2>3, <2>4, <2>5, GiveKeeps
<1> QED
  BY <1>1, <1>2, <1>3, <1>4

(* Panes that are switched, split, closed or replaced.                     *)
LEMMA ClosingKeeps ==
  ASSUME SubscriptionInv, NEW p,
         SwitchOther(p) \/ SplitPane(p) \/ PaneClosed(p) \/ ReplacePane(p)
  PROVE  SubscriptionInv'
<1> USE DEF SubscriptionInv
<1>1. CASE SwitchOther(p)
  <2> DEFINE d == [grid[p] EXCEPT !.basis = NoneYet]
  <2>1. grid[p] \in Pane /\ OneMarket(grid[p])
    BY <1>1 DEF SwitchOther, PanesTyped
  <2>2. /\ d \in Pane /\ OneMarket(d)
        /\ d.streams = grid[p].streams /\ d.ready = grid[p].ready
    BY <2>1 DEF Pane, OneMarket, Frames
  <2>3. grid' = PutIn(p, d) /\ p \in DOMAIN grid /\ Keep
    BY <1>1 DEF SwitchOther, Change
  <2> HIDE DEF d
  <2>4. /\ DOMAIN grid' = DOMAIN grid \cup {p} /\ grid'[p] = d /\ PanesTyped'
        /\ \A q \in DOMAIN grid \ {p} : grid'[q] = grid[q]
    BY <2>2, <2>3, PutInTyped
  <2>5. LackingIsUntold'
    BY <2>2, <2>3, <2>4, SameStreamsKeep DEF Keep
  <2> QED
    BY <2>4, <2>5
<1>2. CASE SplitPane(p)
  <2>1. grid' = PutIn(p, Bare) /\ p \notin DOMAIN grid /\ Keep
    BY <1>2 DEF SplitPane, Change
  <2>2. /\ DOMAIN grid' = DOMAIN grid \cup {p} /\ grid'[p] = Bare /\ PanesTyped'
        /\ \A q \in DOMAIN grid \ {p} : grid'[q] = grid[q]
    BY <2>1, BareType, PutInTyped
  <2>3. LackingIsUntold'
    BY <2>1, <2>2, BareType, SameStreamsKeep DEF Keep
  <2> QED
    BY <2>2, <2>3 DEF PanesTyped
<1>3. CASE PaneClosed(p)
  <2>1. grid' = [q \in DOMAIN grid \ {p} |-> grid[q]] /\ Keep
    BY <1>3 DEF PaneClosed
  <2>2. DOMAIN grid' = DOMAIN grid \ {p} /\ \A q \in DOMAIN grid' : grid'[q] = grid[q]
    BY <2>1
  <2>3. LackingIsUntold'
    BY <2>1, <2>2, SameStreamsKeep DEF Keep
  <2>4. PanesTyped'
    BY <2>1, <2>2 DEF PanesTyped
  <2> QED
    BY <2>3, <2>4 DEF PanesTyped
<1>4. CASE ReplacePane(p)
  <2>1. grid' = PutIn(p, Bare) /\ Refresh
    BY <1>4 DEF ReplacePane, Change
  <2>2. PanesTyped'
    BY <2>1, BareType, PutInTyped
  <2>3. LackingIsUntold'
    BY <2>1, RefreshKeeps
  <2> QED
    BY <2>2, <2>3 DEF PanesTyped
<1> QED
  BY <1>1, <1>2, <1>3, <1>4

(* A pane is given another kind.                                           *)
LEMMA KindSelectedKeeps ==
  ASSUME SubscriptionInv, NEW p, NEW kind \in Kinds, KindSelected(p, kind)
  PROVE  SubscriptionInv'
<1> USE DEF SubscriptionInv
<1> DEFINE c == [grid[p] EXCEPT !.kind = kind, !.chart = FALSE, !.replay = FALSE]
           d == IF kind = "order" THEN c ELSE [c EXCEPT !.streams = {}, !.ready = FALSE]
<1>1. grid[p] \in Pane /\ OneMarket(grid[p]) /\ p \in DOMAIN grid
  BY DEF KindSelected, PanesTyped
<1>2. c \in Pane /\ c.streams = grid[p].streams /\ c.ready = grid[p].ready
  BY <1>1 DEF Pane
<1>3. /\ d \in Pane /\ OneMarket(d)
      /\ d.ready => grid[p].ready /\ d.streams = grid[p].streams
  <2> HIDE DEF c
  <2> QED
    BY <1>1, <1>2 DEF Pane, OneMarket
<1>4. grid' = PutIn(p, d) /\ Keep
  BY DEF KindSelected, Change
<1> HIDE DEF d
<1>5. /\ DOMAIN grid' = DOMAIN grid \cup {p} /\ grid'[p] = d /\ PanesTyped'
      /\ \A q \in DOMAIN grid \ {p} : grid'[q] = grid[q]
  BY <1>3, <1>4, PutInTyped
<1>6. LackingIsUntold'
  BY <1>1, <1>3, <1>4, <1>5, SameStreamsKeep DEF Keep
<1> QED
  BY <1>5, <1>6 DEF PanesTyped

(* A new size changes no stream of a venue that does not group its depth.  *)
LEMMA Resized ==
  ASSUME NEW s \in AnyStream, NEW size \in AllSizes
  PROVE  LET t == IF s.kind = "depth" THEN Depth(s.market, size, s.frame) ELSE s
         IN  /\ t \in AnyStream /\ t.market = s.market
             /\ s.market \notin ServerSide => t = s
<1>1. CASE s.kind # "depth"
  BY <1>1
<1>2. CASE s.kind = "depth"
  <2>1. s.market \in Markets
    BY DepthShape
  <2>2. PICK before \in AllSizes, freq \in Freqs(s.market) : s = Depth(s.market, before, freq)
    BY <1>2, DepthShape
  <2>3. s.frame = freq /\ Depth(s.market, before, freq).market = s.market
    BY <2>2 DEF Depth, Stream
  <2>4. Depth(s.market, size, s.frame) \in AnyStream /\ Depth(s.market, size, s.frame).market = s.market
    BY <2>1, <2>3, StreamTypes
  <2>5. s.market \notin ServerSide => Depth(s.market, size, s.frame) = Depth(s.market, before, freq)
    BY <2>3 DEF Depth
  <2> QED
    BY <1>2, <2>2, <2>4, <2>5
<1> QED
  BY <1>1, <1>2

(* A pane is given another price step, which may be its depth stream's.    *)
LEMMA TicksizeKeeps ==
  ASSUME SubscriptionInv, NEW p, NEW size \in Sizes, TicksizeSelected(p, size)
  PROVE  SubscriptionInv'
<1> DEFINE resized(s) == IF s.kind = "depth" THEN Depth(s.market, size, s.frame) ELSE s
           S == {resized(s) : s \in grid[p].streams}
           d == [grid[p] EXCEPT !.size = size, !.streams = S]
<1>1. grid[p] \in Pane /\ OneMarket(grid[p]) /\ p \in DOMAIN grid
  BY DEF TicksizeSelected, PanesTyped, SubscriptionInv
<1>2. size \in AllSizes /\ grid[p].streams \subseteq AnyStream
  BY <1>1 DEF AllSizes, Pane
<1>3. \A s \in grid[p].streams :
        /\ resized(s) \in AnyStream /\ resized(s).market = s.market
        /\ s.market \notin ServerSide => resized(s) = s
  BY <1>2, Resized
<1> HIDE DEF resized
<1>4. /\ S \in SUBSET AnyStream
      /\ \A s, t \in S : s.market = t.market
      /\ (\A s \in grid[p].streams : s.market \notin ServerSide) => S = grid[p].streams
  BY <1>1, <1>3 DEF OneMarket
<1> HIDE DEF S
<1>5. d \in Pane /\ OneMarket(d) /\ d.streams = S /\ d.ready = grid[p].ready
  BY <1>1, <1>2, <1>4 DEF Pane, OneMarket
<1>6. grid' = PutIn(p, d)
  BY DEF TicksizeSelected, Change, S, resized
<1> HIDE DEF d
<1>7. /\ DOMAIN grid' = DOMAIN grid \cup {p} /\ grid'[p] = d /\ PanesTyped'
      /\ \A q \in DOMAIN grid \ {p} : grid'[q] = grid[q]
  BY <1>5, <1>6, PutInTyped DEF SubscriptionInv
<1>8. LackingIsUntold'
  <2>1. CASE Refresh
    BY <2>1, RefreshKeeps
  <2>2. CASE ~(Pair(grid[p]) \subseteq ServerSide) /\ Keep
    <3>1. S = grid[p].streams
      BY <1>1, <1>4, <2>2 DEF Pair, OneMarket
    <3> QED
      BY <1>1, <1>5, <1>7, <2>2, <3>1, SameStreamsKeep DEF Keep, SubscriptionInv
  <2> QED
    BY <2>1, <2>2 DEF TicksizeSelected
<1> QED
  BY <1>7, <1>8 DEF PanesTyped, SubscriptionInv

(* A heatmap is given another pace.                                        *)
LEMMA HeatBasisKeeps ==
  ASSUME SubscriptionInv, NEW p, NEW frame \in HeatFrames, HeatBasisSelected(p, frame)
  PROVE  SubscriptionInv'
<1> DEFINE paced(s) == IF s.kind = "depth" /\ s.market \in CustomFreq
                       THEN [s EXCEPT !.frame = frame] ELSE s
           S == {paced(s) : s \in grid[p].streams}
           d == [grid[p] EXCEPT !.basis = frame, !.streams = S]
<1>1. grid[p] \in Pane /\ OneMarket(grid[p]) /\ grid[p].streams \subseteq AnyStream
  BY DEF HeatBasisSelected, PanesTyped, SubscriptionInv, Pane
<1>2. \A s \in AnyStream : paced(s) \in AnyStream /\ paced(s).market = s.market
  <2> SUFFICES ASSUME NEW s \in AnyStream
               PROVE  paced(s) \in AnyStream /\ paced(s).market = s.market
    OBVIOUS
  <2>1. CASE ~(s.kind = "depth" /\ s.market \in CustomFreq)
    BY <2>1
  <2>2. CASE s.kind = "depth" /\ s.market \in CustomFreq
    <3>1. s.market \in Markets /\ frame \in Freqs(s.market)
      BY <2>2, DepthShape DEF Freqs
    <3>2. PICK size \in AllSizes, freq \in Freqs(s.market) : s = Depth(s.market, size, freq)
      BY <2>2, DepthShape
    <3>3. [s EXCEPT !.frame = frame] = Depth(s.market, size, frame)
      BY <3>2 DEF Depth, Stream
    <3> QED
      BY <2>2, <3>1, <3>3, StreamTypes
  <2> QED
    BY <2>1, <2>2
<1> HIDE DEF paced
<1>3. S \in SUBSET AnyStream /\ \A s, t \in S : s.market = t.market
  BY <1>1, <1>2 DEF OneMarket
<1> HIDE DEF S
<1>4. d \in Pane /\ OneMarket(d)
  BY <1>1, <1>3 DEF Pane, OneMarket, Frames
<1>5. grid' = PutIn(p, d) /\ Refresh
  BY DEF HeatBasisSelected, Change, S, paced
<1> HIDE DEF d
<1>6. PanesTyped'
  BY <1>4, <1>5, PutInTyped DEF SubscriptionInv
<1> QED
  BY <1>5, <1>6, RefreshKeeps DEF PanesTyped, SubscriptionInv

(* A chart is given another timeframe.                                     *)
LEMMA KlineBasisKeeps ==
  ASSUME SubscriptionInv, NEW p, NEW basis \in KlineFrames \cup {"tick"}, KlineBasisSelected(p, basis)
  PROVE  SubscriptionInv'
<1>0. PanesTyped /\ LackingIsUntold
  BY DEF SubscriptionInv
<1>1. PICK m \in Pair(grid[p]) :
        Change(p, [grid[p] EXCEPT !.basis = basis, !.streams = BasisStreams(grid[p], m, basis)])
  BY DEF KlineBasisSelected
<1> DEFINE S == BasisStreams(grid[p], m, basis)
           d == [grid[p] EXCEPT !.basis = basis, !.streams = S]
<1>2. grid[p] \in Pane /\ grid[p].size \in AllSizes /\ m \in Markets
  BY PairIsMarket DEF KlineBasisSelected, PanesTyped, SubscriptionInv, Pane
<1>3. S \in SUBSET AnyStream /\ \A s \in S : s.market = m
  <2> DEFINE size == IF grid[p].size = NoneYet THEN "1" ELSE grid[p].size
  <2>1. size \in AllSizes /\ "default" \in Freqs(m)
    BY <1>2 DEF AllSizes, Freqs
  <2> HIDE DEF size
  <2>2. S = LET feeds == {Depth(m, size, "default"), Trades(m)}
            IN  IF basis = "tick" THEN feeds
                ELSE {Kline(m, basis)} \cup (IF grid[p].kind = "footprint" THEN feeds ELSE {})
    BY DEF BasisStreams, size
  <2> HIDE DEF S
  <2>3. basis # "tick" => Kline(m, basis) \in AnyStream /\ Kline(m, basis).market = m
    BY <1>2, StreamTypes
  <2>4. /\ Depth(m, size, "default") \in AnyStream /\ Depth(m, size, "default").market = m
        /\ Trades(m) \in AnyStream /\ Trades(m).market = m
    BY <1>2, <2>1, StreamTypes
  <2> QED
    BY <2>2, <2>3, <2>4
<1> HIDE DEF S
<1>4. d \in Pane /\ OneMarket(d)
  BY <1>2, <1>3 DEF Pane, OneMarket, Frames
<1>5. grid' = PutIn(p, d)
  BY <1>1 DEF Change, S
<1> HIDE DEF d
<1>6. /\ DOMAIN grid' = DOMAIN grid \cup {p} /\ PanesTyped'
      /\ \A q \in DOMAIN grid \ {p} : grid'[q] = grid[q]
  BY <1>0, <1>4, <1>5, PutInTyped
<1>7. Refresh \/ NotTold(p)
  BY DEF KlineBasisSelected
<1>8. Refresh => LackingIsUntold'
  BY RefreshKeeps
<1>9. NotTold(p) => LackingIsUntold'
  BY <1>0, <1>6, NotToldKeeps
<1> QED
  BY <1>6, <1>7, <1>8, <1>9 DEF SubscriptionInv

(* What only marks panes leaves their streams alone.                       *)
LEMMA MarkingKeeps ==
  ASSUME SubscriptionInv, grid' = [p \in DOMAIN grid |-> grid'[p]],
         UNCHANGED <<subscribed, untold>>,
         \A p \in DOMAIN grid : \/ grid'[p] = grid[p]
                                \/ \E b \in BOOLEAN : grid'[p] = [grid[p] EXCEPT !.replay = b]
                                \/ \E b \in BOOLEAN : grid'[p] = [grid[p] EXCEPT !.chart = b]
  PROVE  SubscriptionInv'
<1>1. \A p \in DOMAIN grid : /\ grid'[p] \in Pane /\ OneMarket(grid'[p])
                             /\ grid'[p].streams = grid[p].streams
                             /\ grid'[p].ready = grid[p].ready
  <2> SUFFICES ASSUME NEW p \in DOMAIN grid
               PROVE  /\ grid'[p] \in Pane /\ OneMarket(grid'[p])
                      /\ grid'[p].streams = grid[p].streams
                      /\ grid'[p].ready = grid[p].ready
    OBVIOUS
  <2>1. grid[p] \in Pane /\ OneMarket(grid[p])
    BY DEF SubscriptionInv, PanesTyped
  <2>2. \A b \in BOOLEAN :
          /\ [grid[p] EXCEPT !.replay = b] \in Pane /\ [grid[p] EXCEPT !.chart = b] \in Pane
          /\ [grid[p] EXCEPT !.replay = b].streams = grid[p].streams
          /\ [grid[p] EXCEPT !.chart = b].streams = grid[p].streams
          /\ [grid[p] EXCEPT !.replay = b].ready = grid[p].ready
          /\ [grid[p] EXCEPT !.chart = b].ready = grid[p].ready
    BY <2>1 DEF Pane
  <2> QED
    BY <2>1, <2>2 DEF OneMarket
<1>2. DOMAIN grid' = DOMAIN grid
  OBVIOUS
<1>3. PanesTyped'
  BY <1>1, <1>2 DEF PanesTyped
<1>4. LackingIsUntold'
  BY <1>1, <1>2, SameStreamsKeep DEF SubscriptionInv
<1> QED
  BY <1>3, <1>4 DEF SubscriptionInv, PanesTyped

(* A frame, a switch of the mode, a layout that goes and comes.            *)
LEMMA OthersKeep ==
  ASSUME SubscriptionInv, NEW p, NEW s,
         ModeToggled \/ BarsInjected(p) \/ ResolveStreams(p) \/ LeaveLayout
           \/ LoadLayout \/ UnwantedFrame(s)
  PROVE  SubscriptionInv'
<1>1. CASE ModeToggled
  <2>1. CASE present
    BY <1>1, <2>1, MarkingKeeps DEF ModeToggled, Rebuilt
  <2>2. CASE ~present
    BY <1>1, <2>2 DEF ModeToggled, SubscriptionInv, PanesTyped, LackingIsUntold, Lacking
  <2> QED
    BY <2>1, <2>2
<1>2. CASE BarsInjected(p)
  BY <1>2, MarkingKeeps DEF BarsInjected, Rebuilt, SubscriptionInv, PanesTyped
<1>3. CASE ResolveStreams(p)
  <2>1. /\ grid' = [grid EXCEPT ![p].ready = TRUE] /\ p \in DOMAIN grid /\ Refresh
        /\ grid[p] \in Pane /\ OneMarket(grid[p])
    BY <1>3 DEF ResolveStreams, SubscriptionInv, PanesTyped
  <2>2. /\ [grid[p] EXCEPT !.ready = TRUE] \in Pane
        /\ OneMarket([grid[p] EXCEPT !.ready = TRUE])
    BY <2>1 DEF Pane, OneMarket
  <2>3. PanesTyped'
    BY <2>1, <2>2 DEF SubscriptionInv, PanesTyped
  <2> QED
    BY <2>1, <2>3, RefreshKeeps DEF SubscriptionInv, PanesTyped
<1>4. CASE LeaveLayout
  BY <1>4, MarkingKeeps DEF LeaveLayout
<1>5. CASE LoadLayout
  BY <1>5, RefreshKeeps DEF LoadLayout, SubscriptionInv, PanesTyped
<1>6. CASE UnwantedFrame(s)
  BY <1>6, RefreshKeeps DEF UnwantedFrame, SubscriptionInv, PanesTyped
<1> QED
  BY <1>1, <1>2, <1>3, <1>4, <1>5, <1>6

(* A chart that comes back has the streams its pane had, or is untold.     *)
LEMMA ResolveContentKeeps ==
  ASSUME SubscriptionInv, NEW p, ResolveContent(p)
  PROVE  SubscriptionInv'
<1>1. PICK m \in Pair(grid[p]) : grid' = [grid EXCEPT ![p] = Showing(grid[p], m, grid[p].kind)]
  BY DEF ResolveContent
<1> DEFINE d == Showing(grid[p], m, grid[p].kind)
<1>2. /\ p \in DOMAIN grid /\ grid[p] \in Pane /\ grid[p].kind \in Chartable
      /\ Pair(grid[p]) # {} /\ m \in Markets /\ grid[p].size \in AllSizes
  BY PairIsMarket DEF ResolveContent, SubscriptionInv, PanesTyped, Pane
<1>3. d \in Pane /\ OneMarket(d) /\ grid[p].ready
  BY <1>2, ShowingType DEF Pair
<1> HIDE DEF d
<1>4. grid' = [grid EXCEPT ![p] = d]
  BY <1>1 DEF d
<1>5. /\ DOMAIN grid' = DOMAIN grid /\ grid'[p] = d
      /\ \A q \in DOMAIN grid \ {p} : grid'[q] = grid[q]
  BY <1>2, <1>4
<1>6. PanesTyped'
  BY <1>3, <1>4, <1>5 DEF SubscriptionInv, PanesTyped
<1>7. LackingIsUntold'
  <2>1. CASE d.streams = grid[p].streams /\ UNCHANGED <<subscribed, untold>>
    BY <1>3, <1>5, <2>1, SameStreamsKeep DEF SubscriptionInv
  <2>2. CASE NotTold(p)
    BY <1>5, <2>2, NotToldKeeps DEF SubscriptionInv
  <2> QED
    BY <1>5, <2>1, <2>2 DEF ResolveContent
<1> QED
  BY <1>6, <1>7 DEF SubscriptionInv, PanesTyped

(* A pane that is restored is not ready yet.                               *)
LEMMA RestoredType ==
  ASSUME NEW c \in Pane, OneMarket(c)
  PROVE  Restored(c) \in Pane /\ OneMarket(Restored(c)) /\ ~Restored(c).ready
<1>1. CASE c.kind \in {"starter", "order"}
  <2>1. c.kind \in Kinds \cup {"starter"}
    BY DEF Pane
  <2> QED
    BY <1>1, <2>1, BareType DEF Restored, Pane, Bare, OneMarket
<1>2. CASE c.kind \notin {"starter", "order"}
  BY <1>2 DEF Restored, Pane, OneMarket
<1> QED
  BY <1>1, <1>2

(* A restart restores every pane.                                          *)
LEMMA RestartKeeps ==
  ASSUME SubscriptionInv, Restart
  PROVE  SubscriptionInv'
<1>1. /\ DOMAIN grid' = DOMAIN grid /\ grid' = [p \in DOMAIN grid' |-> grid'[p]]
      /\ \A p \in DOMAIN grid : grid'[p] = Restored(grid[p])
  BY DEF Restart
<1>2. \A p \in DOMAIN grid : Restored(grid[p]) \in Pane /\ OneMarket(Restored(grid[p]))
                              /\ ~Restored(grid[p]).ready
  BY RestoredType DEF SubscriptionInv, PanesTyped
<1> QED
  BY <1>1, <1>2 DEF SubscriptionInv, PanesTyped, LackingIsUntold, Lacking

(* The panes the program starts with.                                      *)
LEMMA FirstPanes == SubscriptionInit => SubscriptionInv
<1> SUFFICES ASSUME SubscriptionInit PROVE SubscriptionInv
  OBVIOUS
<1>1. \A m \in Markets, k \in Chartable :
        LET c == Restored(Showing(Bare, m, k)) IN c \in Pane /\ OneMarket(c) /\ ~c.ready
  <2> SUFFICES ASSUME NEW m \in Markets, NEW k \in Chartable
               PROVE  LET c == Restored(Showing(Bare, m, k))
                      IN  c \in Pane /\ OneMarket(c) /\ ~c.ready
    OBVIOUS
  <2>1. Bare.size \in AllSizes
    BY DEF Bare, AllSizes
  <2> QED
    BY <2>1, ShowingType, RestoredType
<1>2. /\ DOMAIN grid = Cells /\ grid = [p \in Cells |-> grid[p]]
      /\ \A p \in Cells : \E m \in Markets, k \in Chartable : grid[p] = Restored(Showing(Bare, m, k))
  BY DEF SubscriptionInit, SavedGrids
<1>3. \A p \in Cells : grid[p] \in Pane /\ OneMarket(grid[p]) /\ ~grid[p].ready
  BY <1>1, <1>2
<1> QED
  BY <1>2, <1>3 DEF SubscriptionInv, PanesTyped, LackingIsUntold, Lacking

(* Every step keeps what the table owes to the panes.                      *)
LEMMA SubscriptionStep == SubscriptionInv /\ [SubscriptionNext]_subscriptionVars => SubscriptionInv'
<1> SUFFICES ASSUME SubscriptionInv, [SubscriptionNext]_subscriptionVars
             PROVE  SubscriptionInv'
  OBVIOUS
<1>1. ASSUME NEW p, NEW m \in Markets, SwitchTicker(p, m) \/ ApiSetTicker(p, m)
      PROVE  SubscriptionInv'
  <2>1. CASE Chartable # {}
    BY <1>1, <2>1, GivesKeep
  <2>2. CASE Chartable = {}
    BY <1>1, <2>2 DEF SwitchTicker, ApiSetTicker, Chartable
  <2> QED
    BY <2>1, <2>2
<1>2. ASSUME NEW p, NEW m \in Markets, NEW k \in Chartable, SplitAndInit(p, m, k)
      PROVE  SubscriptionInv'
  BY <1>2, GivesKeep
<1>3. ASSUME NEW p, NEW frame, ApiSetTimeframe(p, frame)
      PROVE  SubscriptionInv'
  <2>1. grid[p] \in Pane /\ Pair(grid[p]) # {} /\ grid[p].kind \in Chartable
    BY <1>3 DEF ApiSetTimeframe, SubscriptionInv, PanesTyped
  <2>2. PICK m : m \in Pair(grid[p])
    BY <2>1
  <2> QED
    BY <1>3, <2>1, <2>2, PairIsMarket, GivesKeep
<1>4. CASE UNCHANGED subscriptionVars
  BY <1>4 DEF subscriptionVars, SubscriptionInv, PanesTyped, LackingIsUntold, Lacking
<1> QED
  BY <1>1, <1>2, <1>3, <1>4, KindSelectedKeeps, KlineBasisKeeps, HeatBasisKeeps,
     TicksizeKeeps, ClosingKeeps, OthersKeep, ResolveContentKeeps, RestartKeeps
     DEF SubscriptionNext

(* For any panes, tickers, kinds and timeframes, a pane is without its     *)
(* streams only if they were changed without a word to the table of what   *)
(* the program subscribes to: every other change of a pane, a layout or    *)
(* the mode leaves each ready pane with all it needs.                      *)
THEOREM PanesLackOnlyWhatIsUntold == SubscriptionSpec => []LackingIsUntold
<1>1. SubscriptionInv => LackingIsUntold
  BY DEF SubscriptionInv
<1> QED
  BY <1>1, FirstPanes, SubscriptionStep, PTL DEF SubscriptionSpec

-----------------------------------------------------------------------------
(* All the parts of a replay.                                              *)

(* What the types of the subscriptions say besides PanesTyped: a chart is  *)
(* over streams, the table has streams, and the untold are panes.          *)
ChartsAreFed == \A p \in DOMAIN grid : grid[p].chart => grid[p].ready /\ grid[p].streams # {}

(* The rest of the types.                                                  *)
TableTyped ==
  /\ DOMAIN grid \subseteq Cells /\ ChartsAreFed
  /\ subscribed \subseteq AnyStream /\ untold \subseteq DOMAIN grid
  /\ replaying \in BOOLEAN /\ present \in BOOLEAN /\ edits \in 0 .. MaxEdits

(* What the panes show are streams.                                        *)
LEMMA ShownTyped ==
  ASSUME PanesTyped
  PROVE  Shown(grid) \subseteq AnyStream /\ \A p \in DOMAIN grid : grid[p].streams \subseteq AnyStream
BY DEF PanesTyped, Pane, Shown

(* The table after each of the ways it is told, or not.                    *)
LEMMA ToldTyped ==
  ASSUME TableTyped, PanesTyped', NEW p \in DOMAIN grid',
         Refresh \/ Keep \/ NotTold(p) \/ Extend(p, grid'[p].streams),
         DOMAIN grid \subseteq DOMAIN grid' \/ Keep
  PROVE  subscribed' \subseteq AnyStream /\ untold' \subseteq DOMAIN grid'
<1>1. Shown(grid') \subseteq AnyStream /\ grid'[p].streams \subseteq AnyStream
  BY DEF PanesTyped, Pane, Shown
<1>2. subscribed \subseteq AnyStream /\ untold \subseteq DOMAIN grid
  BY DEF TableTyped
<1>3. CASE Refresh
  BY <1>1, <1>3 DEF Refresh
<1>4. CASE Keep
  BY <1>2, <1>4 DEF Keep
<1>5. CASE NotTold(p) /\ ~Keep
  BY <1>2, <1>5 DEF NotTold
<1>6. CASE Extend(p, grid'[p].streams) /\ ~Keep
  BY <1>1, <1>2, <1>6 DEF Extend
<1> QED
  BY <1>3, <1>4, <1>5, <1>6

(* A pane is put into the grid that is fed if it has a chart.              *)
LEMMA PutInFed ==
  ASSUME TableTyped, NEW p \in Cells, NEW c, c.chart => c.ready /\ c.streams # {}, Change(p, c)
  PROVE  ChartsAreFed' /\ DOMAIN grid' = DOMAIN grid \cup {p} /\ DOMAIN grid' \subseteq Cells
<1>1. /\ DOMAIN grid' = DOMAIN grid \cup {p}
      /\ \A q \in DOMAIN grid' : grid'[q] = IF q = p THEN c ELSE grid[q]
  BY DEF Change, PutIn
<1>2. DOMAIN grid \subseteq Cells /\ ChartsAreFed
  BY DEF TableTyped
<1> QED
  BY <1>1, <1>2 DEF ChartsAreFed

(* An edit that puts a pane into the grid.                                 *)
LEMMA EditTyped ==
  ASSUME SubscriptionInv, SubscriptionInv', TableTyped, Edit,
         NEW p \in Cells, NEW c, c.chart => c.ready /\ c.streams # {}, Change(p, c),
         Refresh \/ Keep \/ NotTold(p) \/ Extend(p, grid'[p].streams)
  PROVE  TableTyped'
<1>1. ChartsAreFed' /\ DOMAIN grid' = DOMAIN grid \cup {p} /\ DOMAIN grid' \subseteq Cells
  BY PutInFed
<1>2. subscribed' \subseteq AnyStream /\ untold' \subseteq DOMAIN grid'
  BY <1>1, ToldTyped DEF SubscriptionInv
<1>3. replaying' \in BOOLEAN /\ present' \in BOOLEAN /\ edits' \in 0 .. MaxEdits
  BY SubscriptionAssumption DEF Edit, TableTyped
<1> QED
  BY <1>1, <1>2, <1>3 DEF TableTyped

(* Panes that are given a ticker.                                          *)
LEMMA GivesTyped ==
  ASSUME SubscriptionInv, SubscriptionInv', TableTyped, NEW p \in Cells, NEW m \in Markets,
         NEW kind \in Chartable, NEW c, c.size \in AllSizes,
         Edit, Change(p, Showing(c, m, kind)), Extend(p, grid'[p].streams)
  PROVE  TableTyped'
<1> DEFINE d == Showing(c, m, kind)
<1>1. d.ready /\ d.streams # {}
  BY ShowingType
<1> HIDE DEF d
<1>2. Change(p, d)
  BY DEF d
<1> QED
  BY <1>1, <1>2, EditTyped

(* A pane and its size.                                                    *)
LEMMA PaneAt ==
  ASSUME SubscriptionInv, TableTyped, NEW p \in DOMAIN grid
  PROVE  /\ p \in Cells /\ grid[p] \in Pane /\ grid[p].size \in AllSizes
         /\ grid[p].chart => grid[p].ready /\ grid[p].streams # {}
         /\ \A m \in Pair(grid[p]) : m \in Markets
<1>1. p \in Cells /\ grid[p] \in Pane
  BY DEF SubscriptionInv, PanesTyped, TableTyped
<1>2. grid[p].chart => grid[p].ready /\ grid[p].streams # {}
  BY DEF TableTyped, ChartsAreFed
<1>3. \A m \in Pair(grid[p]) : m \in Markets
  BY <1>1, PairIsMarket
<1> QED
  BY <1>1, <1>2, <1>3 DEF Pane

(* The edits that give a pane a ticker.                                    *)
LEMMA TickersTyped ==
  ASSUME SubscriptionInv, SubscriptionInv', TableTyped, NEW p \in Cells, NEW m \in Markets,
         SwitchTicker(p, m) \/ ApiSetTicker(p, m) \/ \E k \in Chartable : SplitAndInit(p, m, k)
  PROVE  TableTyped'
<1>1. CASE SwitchTicker(p, m)
  BY <1>1, PaneAt, GivesTyped DEF SwitchTicker, Give
<1>2. CASE ApiSetTicker(p, m)
  <2>1. "candle" \in Chartable
    BY <1>2 DEF ApiSetTicker, Chartable
  <2> QED
    BY <1>2, <2>1, PaneAt, GivesTyped DEF ApiSetTicker, Give
<1>3. ASSUME NEW k \in Chartable, SplitAndInit(p, m, k)
      PROVE  TableTyped'
  <2>1. Bare.size \in AllSizes
    BY DEF Bare, AllSizes
  <2> QED
    BY <1>3, <2>1, GivesTyped DEF SplitAndInit
<1> QED
  BY <1>1, <1>2, <1>3

(* The other edits of a pane.                                              *)
LEMMA EditsTyped ==
  ASSUME SubscriptionInv, SubscriptionInv', TableTyped, NEW p \in Cells, NEW x,
         \/ KindSelected(p, x) \/ ApiSetTimeframe(p, x) \/ KlineBasisSelected(p, x)
         \/ HeatBasisSelected(p, x) \/ TicksizeSelected(p, x)
         \/ SplitPane(p) \/ ReplacePane(p) \/ SwitchOther(p)
  PROVE  TableTyped'
<1>1. CASE ApiSetTimeframe(p, x)
  <2> DEFINE c == [grid[p] EXCEPT !.basis = x]
  <2>1. p \in DOMAIN grid /\ grid[p].kind \in Chartable /\ Edit /\ Extend(p, grid'[p].streams)
    BY <1>1 DEF ApiSetTimeframe
  <2>2. PICK n \in Pair(grid[p]) : Change(p, Showing(c, n, grid[p].kind))
    BY <1>1 DEF ApiSetTimeframe
  <2>3. n \in Markets /\ grid[p] \in Pane /\ grid[p].size \in AllSizes
    BY <2>1, PaneAt
  <2>4. c.size \in AllSizes
    BY <2>3 DEF Pane
  <2> HIDE DEF c
  <2> QED
    BY <2>1, <2>2, <2>3, <2>4, GivesTyped
<1>2. CASE KindSelected(p, x)
  <2> DEFINE c == [grid[p] EXCEPT !.kind = x, !.chart = FALSE, !.replay = FALSE]
             d == IF x = "order" THEN c ELSE [c EXCEPT !.streams = {}, !.ready = FALSE]
  <2>1. p \in DOMAIN grid /\ Edit /\ Change(p, d) /\ Keep
    BY <1>2 DEF KindSelected
  <2>2. grid[p] \in Pane
    BY <2>1, PaneAt
  <2>3. ~c.chart /\ ~[c EXCEPT !.streams = {}, !.ready = FALSE].chart
    BY <2>2 DEF Pane
  <2>4. ~d.chart
    <3> HIDE DEF c
    <3> QED
      BY <2>3
  <2> HIDE DEF d
  <2> QED
    BY <2>1, <2>4, EditTyped
<1>3. CASE KlineBasisSelected(p, x)
  <2>1. p \in DOMAIN grid /\ grid[p].chart /\ Edit /\ (Refresh \/ NotTold(p))
    BY <1>3 DEF KlineBasisSelected
  <2>2. PICK n \in Pair(grid[p]) :
          Change(p, [grid[p] EXCEPT !.basis = x, !.streams = BasisStreams(grid[p], n, x)])
    BY <1>3 DEF KlineBasisSelected
  <2> DEFINE S == BasisStreams(grid[p], n, x)
             d == [grid[p] EXCEPT !.basis = x, !.streams = S]
  <2>3. S # {}
    BY DEF BasisStreams
  <2> HIDE DEF S
  <2>4. grid[p] \in Pane /\ grid[p].ready
    BY <2>1, PaneAt
  <2>5. d.ready /\ d.streams # {}
    BY <2>3, <2>4 DEF Pane
  <2>6. Change(p, d)
    BY <2>2 DEF S
  <2> HIDE DEF d
  <2> QED
    BY <2>1, <2>5, <2>6, EditTyped
<1>4. CASE HeatBasisSelected(p, x)
  <2> DEFINE paced(s) == IF s.kind = "depth" /\ s.market \in CustomFreq
                         THEN [s EXCEPT !.frame = x] ELSE s
             S == {paced(s) : s \in grid[p].streams}
             d == [grid[p] EXCEPT !.basis = x, !.streams = S]
  <2>1. p \in DOMAIN grid /\ grid[p].chart /\ Edit /\ Refresh /\ Change(p, d)
    BY <1>4 DEF HeatBasisSelected
  <2> HIDE DEF paced
  <2>2. grid[p] \in Pane /\ grid[p].ready /\ S # {}
    BY <2>1, PaneAt
  <2> HIDE DEF S
  <2>3. d.ready /\ d.streams # {}
    BY <2>2 DEF Pane
  <2> HIDE DEF d
  <2> QED
    BY <2>1, <2>3, EditTyped
<1>5. CASE TicksizeSelected(p, x)
  <2> DEFINE resized(s) == IF s.kind = "depth" THEN Depth(s.market, x, s.frame) ELSE s
             S == {resized(s) : s \in grid[p].streams}
             d == [grid[p] EXCEPT !.size = x, !.streams = S]
  <2>1. p \in DOMAIN grid /\ grid[p].chart /\ Edit /\ (Refresh \/ Keep) /\ Change(p, d)
    BY <1>5 DEF TicksizeSelected
  <2> HIDE DEF resized
  <2>2. grid[p] \in Pane /\ grid[p].ready /\ S # {}
    BY <2>1, PaneAt
  <2> HIDE DEF S
  <2>3. d.ready /\ d.streams # {}
    BY <2>2 DEF Pane
  <2> HIDE DEF d
  <2> QED
    BY <2>1, <2>3, EditTyped
<1>6. CASE SplitPane(p) \/ ReplacePane(p)
  <2>1. ~Bare.chart
    BY DEF Bare
  <2> QED
    BY <1>6, <2>1, EditTyped DEF SplitPane, ReplacePane
<1>7. CASE SwitchOther(p)
  <2> DEFINE d == [grid[p] EXCEPT !.basis = NoneYet]
  <2>1. p \in DOMAIN grid /\ Edit /\ Keep /\ Change(p, d)
    BY <1>7 DEF SwitchOther
  <2>2. grid[p] \in Pane /\ (grid[p].chart => grid[p].ready /\ grid[p].streams # {})
    BY <2>1, PaneAt
  <2>3. d.chart => d.ready /\ d.streams # {}
    BY <2>2 DEF Pane
  <2> HIDE DEF d
  <2> QED
    BY <2>1, <2>3, EditTyped
<1> QED
  BY <1>1, <1>2, <1>3, <1>4, <1>5, <1>6, <1>7

(* What is only marked keeps what a chart needs.                           *)
LEMMA MarkedTyped ==
  ASSUME TableTyped, SubscriptionInv, DOMAIN grid' = DOMAIN grid, UNCHANGED <<subscribed, untold, edits>>,
         replaying' \in BOOLEAN, present' \in BOOLEAN,
         \A p \in DOMAIN grid : \/ grid'[p] = grid[p]
                                \/ \E b \in BOOLEAN : grid'[p] = [grid[p] EXCEPT !.replay = b]
                                \/ grid'[p] = [grid[p] EXCEPT !.chart = FALSE]
  PROVE  TableTyped'
<1>1. ASSUME NEW p \in DOMAIN grid, grid'[p].chart
      PROVE  grid'[p].ready /\ grid'[p].streams # {}
  <2> DEFINE c == grid[p]
  <2>1. c \in Pane /\ (c.chart => c.ready /\ c.streams # {})
    BY DEF SubscriptionInv, PanesTyped, TableTyped, ChartsAreFed
  <2>2. \/ grid'[p] = c \/ grid'[p] = [c EXCEPT !.chart = FALSE]
        \/ \E b \in BOOLEAN : grid'[p] = [c EXCEPT !.replay = b]
    OBVIOUS
  <2> HIDE DEF c
  <2>3. ASSUME NEW b \in BOOLEAN
        PROVE  LET d == [c EXCEPT !.replay = b]
               IN d.chart = c.chart /\ d.ready = c.ready /\ d.streams = c.streams
    BY <2>1 DEF Pane
  <2>4. ~[c EXCEPT !.chart = FALSE].chart
    BY <2>1 DEF Pane
  <2> QED
    BY <1>1, <2>1, <2>2, <2>3, <2>4
<1> QED
  BY <1>1 DEF TableTyped, ChartsAreFed

(* A frame, a switch of the mode, layouts, a closed pane, a restart.       *)
LEMMA OthersTyped ==
  ASSUME SubscriptionInv, SubscriptionInv', TableTyped, NEW p, NEW s,
         ModeToggled \/ BarsInjected(p) \/ ResolveStreams(p) \/ LeaveLayout \/ LoadLayout
           \/ UnwantedFrame(s) \/ ResolveContent(p) \/ PaneClosed(p) \/ Restart
  PROVE  TableTyped'
<1>1. CASE ModeToggled
  BY <1>1, MarkedTyped DEF ModeToggled, Rebuilt, TableTyped
<1>2. CASE BarsInjected(p)
  BY <1>2, MarkedTyped DEF BarsInjected, Rebuilt, TableTyped, SubscriptionInv, PanesTyped
<1>3. CASE LeaveLayout
  BY <1>3, MarkedTyped DEF LeaveLayout, TableTyped
<1>4. Shown(grid') \subseteq AnyStream
  BY DEF SubscriptionInv, PanesTyped, Pane, Shown
<1>5. CASE LoadLayout \/ UnwantedFrame(s)
  BY <1>4, <1>5 DEF LoadLayout, UnwantedFrame, Refresh, TableTyped, ChartsAreFed
<1>6. CASE ResolveStreams(p)
  <2>1. /\ p \in DOMAIN grid /\ grid' = [grid EXCEPT ![p].ready = TRUE] /\ grid[p].streams # {}
        /\ grid[p] \in Pane /\ Refresh /\ UNCHANGED <<replaying, present, edits>>
    BY <1>6 DEF ResolveStreams, SubscriptionInv, PanesTyped
  <2> DEFINE d == [grid[p] EXCEPT !.ready = TRUE]
  <2>2. d.ready /\ d.streams # {}
    BY <2>1 DEF Pane
  <2>3. grid' = [grid EXCEPT ![p] = d]
    BY <2>1
  <2> HIDE DEF d
  <2>4. DOMAIN grid' = DOMAIN grid /\ \A q \in DOMAIN grid : grid'[q] = IF q = p THEN d ELSE grid[q]
    BY <2>1, <2>3 DEF SubscriptionInv, PanesTyped
  <2>5. ChartsAreFed'
    BY <2>2, <2>4 DEF TableTyped, ChartsAreFed
  <2> QED
    BY <1>4, <2>1, <2>4, <2>5 DEF TableTyped, Refresh
<1>7. CASE ResolveContent(p)
  <2>1. /\ p \in DOMAIN grid /\ grid[p].kind \in Chartable /\ UNCHANGED <<replaying, present, edits>>
        /\ (UNCHANGED <<subscribed, untold>> \/ NotTold(p))
    BY <1>7 DEF ResolveContent
  <2>2. PICK m \in Pair(grid[p]) : grid' = [grid EXCEPT ![p] = Showing(grid[p], m, grid[p].kind)]
    BY <1>7 DEF ResolveContent
  <2>3. m \in Markets /\ grid[p].size \in AllSizes
    BY <2>1, PaneAt
  <2> DEFINE d == Showing(grid[p], m, grid[p].kind)
  <2>4. d.ready /\ d.streams # {}
    BY <2>1, <2>3, ShowingType
  <2>5. grid' = [grid EXCEPT ![p] = d]
    BY <2>2
  <2> HIDE DEF d
  <2>6. DOMAIN grid' = DOMAIN grid /\ \A q \in DOMAIN grid : grid'[q] = IF q = p THEN d ELSE grid[q]
    BY <2>1, <2>5 DEF SubscriptionInv, PanesTyped
  <2>7. ChartsAreFed'
    BY <2>4, <2>6 DEF TableTyped, ChartsAreFed
  <2> QED
    BY <2>1, <2>6, <2>7 DEF TableTyped, NotTold
<1>8. CASE PaneClosed(p)
  <2>1. /\ grid' = [q \in DOMAIN grid \ {p} |-> grid[q]] /\ Keep /\ Edit
    BY <1>8 DEF PaneClosed
  <2> QED
    BY <2>1, SubscriptionAssumption DEF Keep, Edit, TableTyped, ChartsAreFed
<1>9. CASE Restart
  <2>1. /\ DOMAIN grid' = DOMAIN grid /\ \A q \in DOMAIN grid : grid'[q] = Restored(grid[q])
        /\ subscribed' = {} /\ untold' = {} /\ Edit
    BY <1>9 DEF Restart
  <2>2. \A q \in DOMAIN grid : ~Restored(grid[q]).chart
    <3> TAKE q \in DOMAIN grid
    <3>1. grid[q] \in Pane
      BY DEF SubscriptionInv, PanesTyped
    <3> QED
      BY <3>1 DEF Restored, Bare, Pane
  <2> QED
    BY <2>1, <2>2, SubscriptionAssumption DEF Edit, TableTyped, ChartsAreFed
<1> QED
  BY <1>1, <1>2, <1>3, <1>5, <1>6, <1>7, <1>8, <1>9

(* Every step keeps the rest of the types.                                 *)
LEMMA TableStep ==
  ASSUME SubscriptionInv, SubscriptionInv', TableTyped, [SubscriptionNext]_subscriptionVars
  PROVE  TableTyped'
<1>1. CASE UNCHANGED subscriptionVars
  BY <1>1 DEF subscriptionVars, TableTyped, ChartsAreFed
<1> QED
  BY <1>1, TickersTyped, EditsTyped, OthersTyped DEF SubscriptionNext

(* The panes the program starts with have no charts.                       *)
LEMMA FirstTable == SubscriptionInit => TableTyped
<1> SUFFICES ASSUME SubscriptionInit PROVE TableTyped
  OBVIOUS
<1>1. /\ DOMAIN grid = Cells
      /\ \A p \in Cells : \E m \in Markets, k \in Chartable : grid[p] = Restored(Showing(Bare, m, k))
  BY DEF SubscriptionInit, SavedGrids
<1>2. \A m \in Markets, k \in Chartable : ~Restored(Showing(Bare, m, k)).chart
  <2> SUFFICES ASSUME NEW m \in Markets, NEW k \in Chartable
               PROVE  ~Restored(Showing(Bare, m, k)).chart
    OBVIOUS
  <2>1. Bare.size \in AllSizes
    BY DEF Bare, AllSizes
  <2> DEFINE c == Showing(Bare, m, k)
  <2>2. c \in Pane
    BY <2>1, ShowingType
  <2> HIDE DEF c
  <2>3. ~Restored(c).chart
    BY <2>2 DEF Restored, Bare, Pane
  <2> QED
    BY <2>3 DEF c
<1> QED
  BY <1>1, <1>2, SubscriptionAssumption DEF SubscriptionInit, TableTyped, ChartsAreFed

(* What is inductive of all the parts together.                            *)
PartsInv == DriverInv /\ ExchangeInv /\ TypeOKPanels /\ SubscriptionInv /\ TableTyped

(* One part moves and the others stand still: each keeps its own.          *)
LEMMA PartsStep ==
  ASSUME PartsInv, [PartsNext]_<<part, vars, exchangeVars, panelVars, subscriptionVars>>
  PROVE  PartsInv'
<1>1. [Next]_vars /\ [ExchangeNext]_exchangeVars /\ [PanelNext]_panelVars /\ [SubscriptionNext]_subscriptionVars
  BY DEF PartsNext
<1>2. DriverInv' /\ ExchangeInv' /\ TypeOKPanels'
  BY <1>1, DriverStep, ExchangeNextInv, TypesStep DEF PartsInv
<1>3. SubscriptionInv'
  BY <1>1, SubscriptionStep DEF PartsInv
<1>4. TableTyped'
  BY <1>1, <1>3, TableStep DEF PartsInv
<1> QED
  BY <1>2, <1>3, <1>4 DEF PartsInv

(* The clock, the exchange, the order panels and the subscriptions keep to *)
(* their types, for every value of their constants: among them, that a     *)
(* chart is over streams that are ready, of one ticker, and that only      *)
(* panes that are there are owed streams.                                  *)
THEOREM PartsTypes == PartsSpec => []TypeOKParts
<1>1. PartsInit => PartsInv
  <2>1. PartsInit => TypeOKPanels
    BY PanelAssumption DEF PartsInit, PanelInit, TypeOKPanels
  <2> QED
    BY <2>1, DriverInit, ExchangeInitInv, FirstPanes, FirstTable DEF PartsInit, PartsInv
<1>2. PartsInv => TypeOKParts
  BY DEF PartsInv, DriverInv, ExchangeInv, SubscriptionInv, PanesTyped, TableTyped, ChartsAreFed,
         TypeOKParts, TypeOKSubscriptions
<1> QED
  BY <1>1, <1>2, PartsStep, PTL DEF PartsSpec
=============================================================================
