---------------------------- MODULE ReplayProofs ----------------------------
(***************************************************************************)
(* Proofs about the replay controller (src/src/replay/), for every set of  *)
(* panes and streams, every timeframe, range and list of speeds, and any   *)
(* venue.                                                                  *)
(*                                                                         *)
(* 1. Three invariants: Fits (types, and the fit of clock and session),    *)
(*    then LoadsOutstanding with LoadsNumbered, which rests on Fits, and   *)
(*    FlagsAreNotLeftBehind, which is inductive by itself.                 *)
(* 2. A paused clock starts again only when asked to, and the speed        *)
(*    changes only when the user changes it: both follow from what each    *)
(*    method of the clock does to its status and its speed                 *)
(*    (StepClockProofs).                                                   *)
(* 3. Nothing that is to come is shown (NoLookAhead).                      *)
(* 4. The controller implements Playback.                                  *)
(* 5. No bar that has passed is missing (PlaybackSkipsNoBar).              *)
(* 6. With the virtual exchange wired to it (src/src/app/mod.rs,           *)
(*    src/src/app/dashboard.rs): what a trader finds in the book, however  *)
(*    the time was moved around.  The on_tick calls of one step forward,   *)
(*    by induction; the virtual time goes back only in steps that reset    *)
(*    the book; the invariant TradingInv and what follows from it.         *)
(***************************************************************************)
EXTENDS SessionProperties, ReplayTrading, StepClockProofs, OrderBookProofs, FiniteSetTheorems,
        WellFoundedInduction

-----------------------------------------------------------------------------
(* min_timeframe_ms is a positive number of milliseconds.                  *)
LEMMA MinTimeframeType ==
  ASSUME NEW S \in SUBSET Streams
  PROVE  MinTimeframe(S) \in Nat \ {0}
<1>1. CASE S = {}
  BY <1>1, SessionAssumption DEF MinTimeframe
<1>2. CASE S # {}
  <2> DEFINE T == {TimeframeOf[s] : s \in S}
  <2>1. T \subseteq Nat \ {0} /\ T # {}
    BY <1>2, SessionAssumption
  <2>2. Min(T) \in T
    BY <2>1, MinOfNat
  <2> QED
    BY <1>2, <2>1, <2>2 DEF MinTimeframe
<1> QED
  BY <1>1, <1>2

(* A load starts at a natural number, also when the history would reach    *)
(* before the epoch (saturating_sub).                                      *)
LEMMA LoadFromType ==
  ASSUME NEW s \in Streams, NEW start \in Nat
  PROVE  LoadFrom(s, start) \in Nat
<1>1. TimeframeOf[s] \in Nat \ {0} /\ HistoryBars \in Nat
  BY SessionAssumption
<1>2. HistoryBars * TimeframeOf[s] \in Nat
  BY <1>1, AtMostProduct
<1> QED
  BY <1>2 DEF LoadFrom, Monus

-----------------------------------------------------------------------------
(* A reload restarts the clock.                                            *)
LEMMA RestartAtStart ==
  ASSUME NEW c \in Clock, ClockOK(c), NEW step \in Nat \ {0}
  PROVE  AtStart(Restart(c, step))
<1> DEFINE d == SetStepSize(Pause(c), step)
<1>1. Pause(c) \in Clock /\ ClockOK(Pause(c))
  BY PauseOK
<1>2. d \in Clock /\ ClockOK(d)
  BY <1>1, SetStepSizeOK
<1>3. d.status = "Paused" /\ d.start = c.start
  BY <1>1, PauseFacts DEF SetStepSize, Clock
<1> HIDE DEF d
<1>4. AtStart(Seek(d, d.start))
  BY <1>2, <1>3, SeekStartAtStart
<1> QED
  BY <1>3, <1>4 DEF Restart, d

-----------------------------------------------------------------------------
(* Charts.                                                                 *)
Chart == [bars : SUBSET Nat, replay : BOOLEAN]

(* The bars of a stream are times.                                         *)
LEMMA BarsAreTimes ==
  ASSUME NEW s \in Streams, NEW from, NEW until
  PROVE  /\ Fetched(s, from, until) \subseteq Nat
         /\ KlinesIn(s, from, until) \subseteq Nat
<1>1. \A f, u : Fetched(s, f, u) \subseteq Nat
  BY SessionAssumption DEF Fetched
<1> QED
  BY <1>1 DEF KlinesIn, StoredBars

(* Adding bars to a chart gives a chart.                                   *)
LEMMA ShownType ==
  ASSUME NEW chart \in Chart, NEW bars \in SUBSET Nat
  PROVE  Shown(chart, bars) \in Chart
<1>1. chart.bars \cup bars \in SUBSET Nat
  BY DEF Chart
<1> QED
  BY <1>1 DEF Shown, Chart

(* Emptying the charts and injecting bars give charts.                     *)
LEMMA ChartsType ==
  ASSUME active \subseteq Streams, NEW chs \in [Panes -> Chart], NEW t, NEW replay \in BOOLEAN
  PROVE  /\ EmptyCharts(replay) \in [Panes -> Chart]
         /\ Inject(chs, t) \in [Panes -> Chart]
<1>1. EmptyCharts(replay) \in [Panes -> Chart]
  BY DEF EmptyCharts, Chart
<1>2. ASSUME NEW p \in Panes, panes[p] \in active
      PROVE  Shown(chs[p], KlinesIn(panes[p], 0, t + 1)) \in Chart
  BY <1>2, BarsAreTimes, ShownType
<1> QED
  BY <1>1, <1>2 DEF Inject

-----------------------------------------------------------------------------
(* Types and the fit of clock and session hold each other up: the clock is *)
(* a clock because its range is a range, and that a loading session's      *)
(* clock is at its start needs the clock to be one.                        *)
Fits == TypeOK /\ ClockFitsSession

(* No session, no clock: the state Idle keeps.                             *)
LEMMA NoClockFits == NoClock \in Clock /\ ClockOK(NoClock) /\ NoClock.status = "Paused"
<1>1. FallbackStep \in Nat \ {0}
  BY SessionAssumption
<1>2. AtStart(NoClock)
  BY <1>1, NewClockAtStart DEF NoClock
<1> QED
  BY <1>2 DEF AtStart, NoClock, NewClock

(* The initial state fits.                                                 *)
LEMMA FitsInit == Init => Fits
<1> SUFFICES ASSUME Init PROVE Fits
  OBVIOUS
<1>1. NoData \in [Streams -> SUBSET (Nat \X Nat)]
  BY DEF NoData
<1>2. charts \in [Panes -> [bars : SUBSET Nat, replay : BOOLEAN]]
  BY DEF Init, EmptyCharts
<1>3. 0 \in 0 .. MaxEpoch
  BY SessionAssumption
<1>4. TypeOK
  BY <1>1, <1>2, <1>3, NoClockFits DEF Init, TypeOK
<1>5. ClockFitsSession
  BY NoClockFits DEF Init, ClockFitsSession
<1> QED
  BY <1>4, <1>5 DEF Fits

(* Dropping the session, whoever does it, leaves a state that fits.        *)
LEMMA DropFits ==
  ASSUME Fits, DropSession,
         mode' \in {"Live", "Replay"}, autoPlay' \in BOOLEAN, resumePending' \in BOOLEAN,
         charts' \in [Panes -> Chart], loads' \subseteq loads,
         UNCHANGED <<rangeInput, panes, reloads, playQueued, epoch>>
  PROVE  Fits'
<1>1. NoData \in [Streams -> SUBSET (Nat \X Nat)]
  BY DEF NoData
<1>2. ClockFitsSession'
  BY NoClockFits DEF DropSession, ClockFitsSession
<1>3. TypeOK'
  BY <1>1, NoClockFits DEF DropSession, Fits, TypeOK, Chart
<1> QED
  BY <1>2, <1>3 DEF Fits

(* A step that only moves the clock, within the session it belongs to, and *)
(* redraws the charts.                                                     *)
LEMMA ClockMoveFits ==
  ASSUME Fits, clock' \in Clock, ClockOK(clock'),
         charts' \in [Panes -> Chart],
         session = "Idle" => clock' = clock,
         session = "Loading" => AtStart(clock'),
         mode' = mode, rangeInput' \in Ranges,
         autoPlay' \in BOOLEAN, resumePending' \in BOOLEAN,
         UNCHANGED <<session, pending, store, active, panes, inFlight>>
  PROVE  Fits'
<1>1. ClockFitsSession'
  BY DEF Fits, ClockFitsSession, AtStart
<1>2. TypeOK'
  BY DEF Fits, TypeOK, Chart, inFlight, Ranges
<1> QED
  BY <1>1, <1>2 DEF Fits

(* A loading session's clock is at its start.                              *)
LEMMA LoadingAtStart == Fits /\ session = "Loading" => AtStart(clock)
BY DEF Fits, TypeOK, ClockFitsSession, AtStart

(* seek_to: the clock moves into its range, and a clock sent to its start  *)
(* is paused there.                                                        *)
LEMMA SeekToFits ==
  ASSUME Fits, NEW t \in Nat, SeekTo(t)
  PROVE  /\ clock' \in Clock /\ ClockOK(clock') /\ charts' \in [Panes -> Chart]
         /\ t = clock.start => AtStart(clock')
<1>1. clock \in Clock /\ ClockOK(clock) /\ active \subseteq Streams
  BY DEF Fits, TypeOK, ClockFitsSession
<1>2. Pause(clock) \in Clock /\ ClockOK(Pause(clock))
  BY <1>1, PauseOK
<1>3. clock' \in Clock /\ ClockOK(clock')
  BY <1>2, SeekOK DEF SeekTo
<1>4. charts' \in [Panes -> Chart]
  <2>1. EmptyCharts(TRUE) \in [Panes -> Chart]
    BY DEF EmptyCharts, Chart
  <2> QED
    BY <1>1, <2>1, ChartsType DEF SeekTo
<1>5. t = clock.start => AtStart(clock')
  BY <1>1, <1>2, PauseFacts, SeekStartAtStart DEF SeekTo
<1> QED
  BY <1>3, <1>4, <1>5

(* StepBackward looks for a bar before the current time, so its target is  *)
(* a time.                                                                 *)
LEMMA StepBackTargetType ==
  ASSUME Fits
  PROVE  StepBackTarget \in Nat
<1> DEFINE earlier == UNION {KlinesIn(s, 0, clock.now) : s \in active}
<1>1. clock.now \in Nat /\ clock.start \in Nat /\ active \in SUBSET Streams
  BY DEF Fits, TypeOK, Clock
<1>2. earlier \subseteq Nat
  BY <1>1, BarsAreTimes
<1>3. \A b \in earlier : b <= clock.now
  BY <1>1, <1>2 DEF KlinesIn
<1>4. earlier # {} => Max(earlier) \in Nat
  BY <1>1, <1>2, <1>3, MaxOfNat
<1>5. Monus(clock.now, MinTimeframe(active)) \in Nat
  BY <1>1, MinTimeframeType DEF Monus
<1> QED
  BY <1>1, <1>4, <1>5 DEF StepBackTarget

-----------------------------------------------------------------------------
(* Play.                                                                   *)

(* A range that can be played is a pair of times in order.                 *)
LEMMA PlayableRange ==
  ASSUME NEW r \in Ranges, Playable(r)
  PROVE  r.start \in Nat /\ r.end \in Nat /\ r.start < r.end
BY SessionAssumption DEF Playable, ValidRange, Ranges

(* The streams of the panes are finitely many.                             *)
LEMMA KlineStreamsType ==
  ASSUME panes \in [Panes -> Streams \cup {NoStream}]
  PROVE  /\ KlineStreams \in SUBSET Streams
         /\ IsFiniteSet(KlineStreams) /\ Cardinality(KlineStreams) \in Nat
<1>1. KlineStreams \in SUBSET Streams
  BY DEF KlineStreams
<1>2. IsFiniteSet(KlineStreams)
  BY <1>1, FS_Subset, SessionAssumption
<1> QED
  BY <1>1, <1>2, FS_CardinalityType

(* The loads that a Play starts, and the bound on them.                    *)
LEMMA PlayLoadsType ==
  ASSUME Fits, NEW range \in Ranges, Playable(range), epoch < MaxEpoch
  PROVE  \A p \in {q \in Panes : panes[q] # NoStream} :
           [epoch |-> epoch + 1, for |-> p, stream |-> panes[p],
            from |-> LoadFrom(panes[p], range.start), until |-> range.end] \in Load
<1>1. epoch + 1 \in 1 .. MaxEpoch
  BY SessionAssumption DEF Fits, TypeOK
<1>2. ASSUME NEW p \in Panes, panes[p] # NoStream
      PROVE  panes[p] \in Streams /\ LoadFrom(panes[p], range.start) \in Nat
  BY <1>2, PlayableRange, LoadFromType DEF Fits, TypeOK
<1> QED
  BY <1>1, <1>2, PlayableRange DEF Load

(* Play leaves a state that fits, whoever asked for it.                    *)
LEMMA PlayFits ==
  ASSUME Fits, NEW range \in Ranges, HandlePlay(range), playQueued' \in BOOLEAN
  PROVE  Fits'
<1>0. /\ clock \in Clock /\ ClockOK(clock) /\ TypeOK /\ ClockFitsSession
      /\ charts \in [Panes -> Chart]
  BY DEF Fits, TypeOK, ClockFitsSession, Chart
<1>1. CASE PlayRejected(range)
  <2>1. ClockFitsSession'
    BY <1>0, <1>1 DEF PlayRejected, sessionVars, ClockFitsSession
  <2>2. TypeOK'
    BY <1>0, <1>1 DEF HandlePlay, PlayRejected, sessionVars, TypeOK
  <2> QED
    BY <2>1, <2>2 DEF Fits
<1>2. CASE PlayAccepted(range)
  <2> DEFINE new == NewClock(range.start, range.end, MinTimeframe(KlineStreams))
             fresh == SetSpeed(new, KeptSpeed)
  <2>1. KlineStreams \in SUBSET Streams /\ Cardinality(KlineStreams) \in Nat
    BY <1>0, KlineStreamsType DEF TypeOK
  <2>2. MinTimeframe(KlineStreams) \in Nat \ {0}
    BY <2>1, MinTimeframeType
  <2>3. Playable(range)
    BY <1>2 DEF PlayAccepted
  <2>4. AtStart(new)
    BY <2>2, <2>3, PlayableRange, NewClockAtStart
  <2>5. KeptSpeed \in Nat \ {0}
    BY <1>0 DEF KeptSpeed, Clock
  <2>6. AtStart(fresh)
    BY <2>4, <2>5, SetSpeedAtStart
  <2> HIDE DEF new, fresh
  <2>7. /\ Play(fresh) \in Clock /\ ClockOK(Play(fresh))
        /\ AtStart(SetWaiting(fresh))
    BY <2>6, PlayOK, SetWaitingAtStart DEF AtStart
  <2>8. epoch' \in 0 .. MaxEpoch
    BY <1>0, <1>2, SessionAssumption DEF PlayAccepted, TypeOK
  <2>9. /\ EmptyCharts(TRUE) \in [Panes -> Chart]
        /\ NoData \in [Streams -> SUBSET (Nat \X Nat)]
    BY DEF EmptyCharts, Chart, NoData
  <2>10. CASE KlineStreams = {}
    <3>1. session' = "Active" /\ clock' = Play(fresh) /\ pending' = 0 /\ loads' = loads
      BY <1>2, <2>10 DEF PlayAccepted, fresh, new
    <3>2. ClockFitsSession'
      BY <2>7, <3>1 DEF ClockFitsSession
    <3>3. TypeOK'
      BY <1>0, <1>2, <2>1, <2>7, <2>8, <2>9, <3>1 DEF PlayAccepted, HandlePlay, TypeOK, Chart
    <3> QED
      BY <3>2, <3>3 DEF Fits
  <2>11. CASE KlineStreams # {}
    <3>1. session' = "Loading" /\ clock' = SetWaiting(fresh)
          /\ pending' = Cardinality(KlineStreams)
      BY <1>2, <2>11 DEF PlayAccepted, fresh, new
    <3>2. ClockFitsSession'
      BY <2>7, <3>1 DEF ClockFitsSession, AtStart
    <3>3. loads' \subseteq Load
      <4>1. epoch' = epoch + 1 /\ epoch < MaxEpoch
        BY <1>2 DEF PlayAccepted
      <4>2. loads' = loads \cup
              {[epoch |-> epoch', for |-> p, stream |-> panes[p],
                from |-> LoadFrom(panes[p], range.start), until |-> range.end] :
               p \in {q \in Panes : panes[q] # NoStream}}
        BY <1>2, <2>11 DEF PlayAccepted
      <4>3. loads \subseteq Load
        BY <1>0 DEF TypeOK
      <4> QED
        BY <2>3, <4>1, <4>2, <4>3, PlayLoadsType
    <3>4. TypeOK'
      BY <1>0, <1>2, <2>1, <2>7, <2>8, <2>9, <3>1, <3>3
      DEF PlayAccepted, HandlePlay, TypeOK, Chart, AtStart
    <3> QED
      BY <3>2, <3>4 DEF Fits
  <2> QED
    BY <2>10, <2>11
<1> QED
  BY <1>1, <1>2 DEF HandlePlay

-----------------------------------------------------------------------------
(* Loads, reloads and ticks.                                               *)

(* A finished load leaves a state that fits.                               *)
LEMMA LoadFits ==
  ASSUME Fits, NEW l, KlinesLoadCompleted(l)
  PROVE  Fits'
<1>0. /\ TypeOK /\ ClockFitsSession /\ l \in Load /\ l.stream \in Streams
      /\ loads' \subseteq loads
      /\ clock \in Clock /\ ClockOK(clock)
  BY DEF Fits, TypeOK, ClockFitsSession, KlinesLoadCompleted, Load
<1>1. charts' \in [Panes -> Chart]
  <2>1. ASSUME NEW bars PROVE {b \in Fetched(l.stream, l.from, l.until) : b < bars} \subseteq Nat
    BY <1>0, BarsAreTimes
  <2>2. charts \in [Panes -> Chart]
    BY <1>0 DEF TypeOK, Chart
  <2> QED
    BY <2>1, <2>2, ShownType DEF KlinesLoadCompleted, HistoryShown
<1>2. CASE session # "Loading"
  <2>1. UNCHANGED <<session, clock, pending, store, active, resumePending>>
    BY <1>2 DEF KlinesLoadCompleted
  <2>2. ClockFitsSession'
    BY <1>0, <2>1 DEF ClockFitsSession
  <2>3. TypeOK'
    BY <1>0, <1>1, <2>1 DEF KlinesLoadCompleted, TypeOK, Chart
  <2> QED
    BY <2>2, <2>3 DEF Fits
<1>3. CASE session = "Loading"
  <2>1. store' \in [Streams -> SUBSET (Nat \X Nat)]
    BY <1>0, <1>3 DEF KlinesLoadCompleted, TypeOK, Load
  <2>2. CASE Activate
    <3> DEFINE c == ResumeFromWaiting(clock)
    <3>1. c \in Clock /\ ClockOK(c)
      BY <1>0, ResumeFromWaitingOK
    <3>2. Play(c) \in Clock /\ ClockOK(Play(c))
      BY <3>1, PlayOK
    <3>3. session' = "Active" /\ pending' = 0 /\ resumePending' = FALSE
          /\ clock' \in Clock /\ ClockOK(clock')
      BY <2>2, <3>1, <3>2 DEF Activate
    <3>4. ClockFitsSession'
      BY <3>3 DEF ClockFitsSession
    <3>5. TypeOK'
      BY <1>0, <1>1, <2>1, <3>3 DEF KlinesLoadCompleted, TypeOK, Chart
    <3> QED
      BY <3>4, <3>5 DEF Fits
  <2>3. CASE pending > 1 /\ pending' = pending - 1 /\ UNCHANGED <<session, clock, resumePending>>
    <3>1. ClockFitsSession'
      BY <1>0, <1>3, <2>3 DEF ClockFitsSession
    <3>2. pending' \in Nat
      BY <1>0, <2>3 DEF TypeOK
    <3>3. TypeOK'
      BY <1>0, <1>1, <2>1, <2>3, <3>2 DEF KlinesLoadCompleted, TypeOK, Chart
    <3> QED
      BY <3>1, <3>3 DEF Fits
  <2> QED
    BY <1>3, <2>2, <2>3 DEF KlinesLoadCompleted
<1> QED
  BY <1>2, <1>3

(* A reload leaves a state that fits.                                      *)
LEMMA ReloadFits ==
  ASSUME Fits, NEW m, ReloadKlineStream(m)
  PROVE  Fits'
<1>0. /\ TypeOK /\ ClockFitsSession /\ m \in Reload /\ m.new \in Streams
      /\ reloads' \subseteq reloads
      /\ clock \in Clock /\ ClockOK(clock)
  BY DEF Fits, TypeOK, ClockFitsSession, ReloadKlineStream, Reload
<1>1. CASE ReloadIgnored
  <2>1. ClockFitsSession'
    BY <1>0, <1>1 DEF ReloadIgnored, sessionVars, ClockFitsSession
  <2>2. TypeOK'
    BY <1>0, <1>1 DEF ReloadKlineStream, ReloadIgnored, sessionVars, inputVars, TypeOK
  <2> QED
    BY <2>1, <2>2 DEF Fits
<1>2. CASE ReloadStarted(m)
  <2>1. active' \in SUBSET Streams
    BY <1>0, <1>2 DEF ReloadStarted, TypeOK
  <2>2. clock' = Restart(clock, MinTimeframe(active'))
    BY <1>2 DEF ReloadStarted
  <2>3. AtStart(clock')
    BY <1>0, <2>1, <2>2, MinTimeframeType, RestartAtStart
  <2>4. /\ session' = "Loading" /\ pending' = 1 /\ charts' = EmptyCharts(TRUE)
        /\ epoch' = epoch + 1 /\ epoch < MaxEpoch /\ store' = store
    BY <1>2 DEF ReloadStarted
  <2>5. ClockFitsSession'
    BY <2>3, <2>4 DEF ClockFitsSession, AtStart
  <2>6. epoch' \in 1 .. MaxEpoch /\ epoch' \in 0 .. MaxEpoch
    BY <1>0, <2>4, SessionAssumption DEF TypeOK
  <2>7. LoadFrom(m.new, clock.start) \in Nat /\ clock.end \in Nat
    BY <1>0, LoadFromType DEF Clock
  <2>8. loads' \subseteq Load
    BY <1>0, <1>2, <2>6, <2>7 DEF ReloadStarted, Load, TypeOK
  <2>9. TypeOK'
    BY <1>0, <2>1, <2>3, <2>4, <2>6, <2>8
    DEF ReloadKlineStream, inputVars, TypeOK, EmptyCharts, AtStart
  <2> QED
    BY <2>5, <2>9 DEF Fits
<1> QED
  BY <1>1, <1>2 DEF ReloadKlineStream

(* A tick leaves a state that fits, and does not move the clock of a       *)
(* session that loads.                                                     *)
LEMMA TickFits ==
  ASSUME Fits, NEW elapsed \in Nat, TickSession(elapsed)
  PROVE  Fits'
<1>0. /\ TypeOK /\ ClockFitsSession /\ clock \in Clock /\ ClockOK(clock)
      /\ charts \in [Panes -> Chart] /\ active \subseteq Streams
  BY DEF Fits, TypeOK, ClockFitsSession, Chart
<1>1. /\ Tick(clock, elapsed) \in Clock /\ ClockOK(Tick(clock, elapsed))
      /\ SetWaiting(clock) \in Clock /\ ClockOK(SetWaiting(clock))
  BY <1>0, TickOK, SetWaitingOK
<1>2. clock.status # "Playing" => Tick(clock, elapsed) = clock
  BY DEF Tick
<1>3. DispatchTick(elapsed)
  BY DEF TickSession
<1>4. clock' \in Clock /\ ClockOK(clock') /\ (clock.status # "Playing" => clock' = clock)
  BY <1>0, <1>1, <1>2, <1>3 DEF DispatchTick
<1>5. charts' \in [Panes -> Chart]
  <2>1. ASSUME NEW p \in Panes, panes[p] \in active, NEW from, NEW until
        PROVE  Shown(charts[p], KlinesIn(panes[p], from, until)) \in Chart
    BY <1>0, <2>1, BarsAreTimes, ShownType
  <2> QED
    BY <1>0, <1>3, <2>1 DEF DispatchTick
<1>6. session = "Loading" => AtStart(clock')
  BY <1>0, <1>4, LoadingAtStart DEF ClockFitsSession, Fits
<1> QED
  BY <1>0, <1>4, <1>5, <1>6, ClockMoveFits DEF TickSession, inputVars, TypeOK

-----------------------------------------------------------------------------
(* The user's messages that move the clock.                                *)

(* Editing a range input.                                                  *)
LEMMA RangeInputFits ==
  ASSUME Fits, RangeInputChanged, rangeInput' \in Ranges
  PROVE  Fits'
<1>0. /\ TypeOK /\ ClockFitsSession /\ clock \in Clock /\ ClockOK(clock)
      /\ charts \in [Panes -> Chart] /\ clock.start \in Nat
  BY DEF Fits, TypeOK, ClockFitsSession, Chart, Clock
<1>1. CASE session = "Idle"
  BY <1>0, <1>1, ClockMoveFits DEF RangeInputChanged, TypeOK
<1>2. CASE session # "Idle"
  <2>1. SeekTo(clock.start)
    BY <1>2 DEF RangeInputChanged
  <2>2. AtStart(clock') /\ charts' \in [Panes -> Chart]
    BY <1>0, <2>1, SeekToFits
  <2> QED
    BY <1>0, <1>2, <2>2, ClockMoveFits DEF RangeInputChanged, TypeOK, AtStart
<1> QED
  BY <1>1, <1>2

(* StepForward.                                                            *)
LEMMA StepForwardFits ==
  ASSUME Fits, StepForward
  PROVE  Fits'
<1>0. /\ TypeOK /\ ClockFitsSession /\ clock \in Clock /\ ClockOK(clock)
      /\ charts \in [Panes -> Chart] /\ active \subseteq Streams
      /\ clock.end \in Nat /\ clock.now \in Nat
  BY DEF Fits, TypeOK, ClockFitsSession, Chart, Clock
<1> DEFINE next == clock.now + MinTimeframe(active)
<1>1. next \in Nat
  BY <1>0, MinTimeframeType
<1>2. CASE IsPlaying /\ SeekTo(clock.end)
  <2>1. clock' \in Clock /\ ClockOK(clock') /\ charts' \in [Panes -> Chart]
    BY <1>0, <1>2, SeekToFits
  <2> QED
    BY <1>0, <1>2, <2>1, ClockMoveFits DEF StepForward, IsPlaying, inputVars, TypeOK
<1>3. CASE IsPaused /\ clock' = Seek(clock, next) /\ charts' = Inject(charts, next)
  <2>1. clock' \in Clock /\ ClockOK(clock')
    BY <1>0, <1>1, <1>3, SeekOK
  <2>2. charts' \in [Panes -> Chart]
    BY <1>0, <1>3, ChartsType
  <2> QED
    BY <1>0, <1>3, <2>1, <2>2, ClockMoveFits DEF StepForward, IsPaused, inputVars, TypeOK
<1>4. CASE UNCHANGED <<clock, charts>>
  BY <1>0, <1>4, LoadingAtStart, ClockMoveFits DEF StepForward, inputVars, TypeOK
<1> HIDE DEF next
<1> QED
  BY <1>2, <1>3, <1>4 DEF StepForward, next

(* StepBackward.                                                           *)
LEMMA StepBackwardFits ==
  ASSUME Fits, StepBackward
  PROVE  Fits'
<1>0. /\ TypeOK /\ ClockFitsSession /\ clock \in Clock /\ ClockOK(clock)
      /\ charts \in [Panes -> Chart] /\ clock.start \in Nat
  BY DEF Fits, TypeOK, ClockFitsSession, Chart, Clock
<1>1. ASSUME NEW t \in Nat, session = "Active", SeekTo(t) PROVE Fits'
  <2>1. clock' \in Clock /\ ClockOK(clock') /\ charts' \in [Panes -> Chart]
    BY <1>1, SeekToFits
  <2> QED
    BY <1>0, <1>1, <2>1, ClockMoveFits DEF StepBackward, inputVars, TypeOK
<1>2. CASE UNCHANGED <<clock, charts>>
  BY <1>0, <1>2, LoadingAtStart, ClockMoveFits DEF StepBackward, inputVars, TypeOK
<1> QED
  BY <1>0, <1>1, <1>2, StepBackTargetType DEF StepBackward, IsPlaying

(* CycleSpeed.                                                             *)
LEMMA CycleSpeedFits ==
  ASSUME Fits, CycleSpeed
  PROVE  Fits'
<1>0. /\ TypeOK /\ ClockFitsSession /\ clock \in Clock /\ ClockOK(clock)
      /\ charts \in [Panes -> Chart]
  BY DEF Fits, TypeOK, ClockFitsSession, Chart
<1>1. NextSpeed(clock.speed) \in Nat \ {0}
  <2> DEFINE at == {i \in 1 .. Len(Speeds) : Speeds[i] = clock.speed}
  <2>1. Len(Speeds) \in Nat \ {0} /\ \A i \in 1 .. Len(Speeds) : Speeds[i] \in Nat \ {0}
    BY SessionAssumption
  <2>2. CASE at = {}
    BY <2>1, <2>2 DEF NextSpeed
  <2>3. CASE at # {}
    <3>1. at \subseteq Nat
      BY <2>1
    <3>2. Min(at) \in Nat
      BY <2>3, <3>1, MinOfNat
    <3>3. Min(at) % Len(Speeds) \in 0 .. (Len(Speeds) - 1)
      BY <2>1, <3>2, DivMod
    <3>4. (Min(at) % Len(Speeds)) + 1 \in 1 .. Len(Speeds)
      BY <2>1, <3>3
    <3> QED
      BY <2>1, <2>3, <3>4 DEF NextSpeed
  <2> QED
    BY <2>2, <2>3
<1>2. CASE session = "Idle"
  BY <1>0, <1>2, ClockMoveFits DEF CycleSpeed, inputVars, TypeOK
<1>3. CASE session # "Idle"
  <2>1. clock' = SetSpeed(clock, NextSpeed(clock.speed))
    BY <1>3 DEF CycleSpeed
  <2>2. clock' \in Clock /\ ClockOK(clock')
    BY <1>0, <1>1, <2>1, SetSpeedOK
  <2>3. session = "Loading" => AtStart(clock')
    BY <1>1, <2>1, LoadingAtStart, SetSpeedAtStart
  <2> QED
    BY <1>0, <1>3, <2>2, <2>3, ClockMoveFits DEF CycleSpeed, inputVars, TypeOK
<1> QED
  BY <1>2, <1>3

(* SyncReplayBuffers.                                                      *)
LEMMA SyncFits ==
  ASSUME Fits, SyncReplayBuffers
  PROVE  Fits'
<1>0. /\ TypeOK /\ ClockFitsSession /\ clock \in Clock /\ ClockOK(clock)
      /\ charts \in [Panes -> Chart] /\ active \subseteq Streams
  BY DEF Fits, TypeOK, ClockFitsSession, Chart
<1>1. CASE session = "Idle"
  BY <1>0, <1>1, ClockMoveFits DEF SyncReplayBuffers, inputVars, TypeOK
<1>2. CASE session # "Idle"
  <2>1. clock' = SetStepSize(clock, MinTimeframe(active))
    BY <1>2 DEF SyncReplayBuffers
  <2>2. clock' \in Clock /\ ClockOK(clock')
    BY <1>0, <2>1, MinTimeframeType, SetStepSizeOK
  <2>3. session = "Loading" => AtStart(clock')
    BY <1>0, <2>1, MinTimeframeType, LoadingAtStart, SetStepSizeAtStart
  <2> QED
    BY <1>0, <1>2, <2>2, <2>3, ClockMoveFits DEF SyncReplayBuffers, inputVars, TypeOK
<1> QED
  BY <1>1, <1>2

-----------------------------------------------------------------------------
(* Every step of the controller leaves a state that fits.                  *)
LEMMA FitsStep == Fits /\ [Next]_vars => Fits'
<1> SUFFICES ASSUME Fits, [Next]_vars PROVE Fits'
  OBVIOUS
<1>0. /\ TypeOK /\ ClockFitsSession /\ clock \in Clock /\ ClockOK(clock)
      /\ charts \in [Panes -> Chart] /\ active \subseteq Streams
  BY DEF Fits, TypeOK, ClockFitsSession, Chart
<1>1. CASE ToggleMode
  <2>1. \A replay \in BOOLEAN : EmptyCharts(replay) \in [Panes -> Chart]
    BY DEF EmptyCharts, Chart
  <2>2. CASE ToggleToReplay
    <3>1. ClockFitsSession'
      BY <1>0, <2>2 DEF ToggleToReplay, sessionVars, ClockFitsSession
    <3>2. TypeOK'
      BY <1>0, <2>1, <2>2 DEF ToggleToReplay, sessionVars, inFlight, TypeOK, Chart
    <3> QED
      BY <3>1, <3>2 DEF Fits
  <2>3. CASE ToggleToLive
    BY <1>0, <2>1, <2>3, DropFits DEF ToggleToLive, ResetSession, inFlight
  <2> QED
    BY <1>1, <2>2, <2>3 DEF ToggleMode
<1>2. ASSUME NEW t \in StartTexts, StartTimeChanged(t) PROVE Fits'
  <2>1. rangeInput' \in Ranges
    BY <1>0, <1>2 DEF StartTimeChanged, TypeOK, Ranges
  <2> QED
    BY <1>2, <2>1, RangeInputFits DEF StartTimeChanged
<1>3. ASSUME NEW t \in EndTexts, EndTimeChanged(t) PROVE Fits'
  <2>1. rangeInput' \in Ranges
    BY <1>0, <1>3 DEF EndTimeChanged, TypeOK, Ranges
  <2> QED
    BY <1>3, <2>1, RangeInputFits DEF EndTimeChanged
<1>4. ASSUME NEW range \in Ranges, AskForPlay(range) PROVE Fits'
  BY <1>0, <1>4, PlayFits DEF AskForPlay, TypeOK
<1>5. CASE UserPlay
  BY <1>0, <1>4, <1>5 DEF UserPlay, TypeOK
<1>6. CASE QueuedPlay
  BY <1>0, <1>6, PlayFits DEF QueuedPlay, TypeOK
<1>7. CASE Resume
  <2>1. clock' \in Clock /\ ClockOK(clock')
    BY <1>0, <1>7, PlayOK DEF Resume
  <2>2. session # "Active" => clock' = clock
    BY <1>7 DEF Resume, IsPaused
  <2>3. session = "Loading" => AtStart(clock')
    BY <2>2, LoadingAtStart
  <2> QED
    BY <1>0, <1>7, <2>1, <2>2, <2>3, ClockMoveFits DEF Resume, TypeOK
<1>8. CASE PauseReplay
  <2>1. clock' \in Clock /\ ClockOK(clock')
    BY <1>0, <1>8, PauseOK DEF PauseReplay
  <2>2. session # "Active" => clock' = clock
    BY <1>8 DEF PauseReplay
  <2>3. session = "Loading" => AtStart(clock')
    BY <2>2, LoadingAtStart
  <2> QED
    BY <1>0, <1>8, <2>1, <2>2, <2>3, ClockMoveFits DEF PauseReplay, TypeOK
<1>9. ASSUME NEW p \in Panes, NEW s \in Streams \cup {NoStream}, ChangeBasis(p, s) PROVE Fits'
  <2>1. panes' \in [Panes -> Streams \cup {NoStream}]
    BY <1>0, <1>9 DEF ChangeBasis, TypeOK
  <2>2. charts' \in [Panes -> Chart]
    BY <1>0, <1>9 DEF ChangeBasis, Chart
  <2>3. reloads' \subseteq Reload
    BY <1>0, <1>9 DEF ChangeBasis, Reload, TypeOK
  <2>4. ClockFitsSession'
    BY <1>0, <1>9 DEF ChangeBasis, sessionVars, ClockFitsSession
  <2>5. TypeOK'
    BY <1>0, <1>9, <2>1, <2>2, <2>3 DEF ChangeBasis, sessionVars, inputVars, TypeOK, Chart
  <2> QED
    BY <2>4, <2>5 DEF Fits
<1>10. CASE FireAutoPlay \/ SessionUnavailable \/ UNCHANGED vars
  <2>1. ClockFitsSession'
    BY <1>0, <1>10 DEF FireAutoPlay, SessionUnavailable, vars, sessionVars, ClockFitsSession
  <2>2. TypeOK'
    BY <1>0, <1>10
    DEF FireAutoPlay, SessionUnavailable, vars, sessionVars, inputVars, inFlight, TypeOK
  <2> QED
    BY <2>1, <2>2 DEF Fits
<1>11. ASSUME NEW l, DataLoadFailed(l) PROVE Fits'
  BY <1>0, <1>11, DropFits DEF DataLoadFailed, ResetSession, TypeOK
<1>12. CASE LoadFinishes
  BY <1>11, <1>12, LoadFits DEF LoadFinishes
<1>13. CASE Reloading
  BY <1>13, ReloadFits DEF Reloading
<1>14. CASE Frame
  BY <1>14, TickFits, SessionAssumption DEF Frame, TickReplay
<1>16. CASE StatusPoll
  BY <1>16, TickFits, SessionAssumption DEF StatusPoll, GetStatus
<1>15. CASE StepForward \/ StepBackward \/ CycleSpeed \/ SyncReplayBuffers
  BY <1>15, StepForwardFits, StepBackwardFits, CycleSpeedFits, SyncFits
<1> QED
  BY <1>1, <1>2, <1>3, <1>4, <1>5, <1>6, <1>7, <1>8, <1>9, <1>10, <1>12, <1>13, <1>14, <1>15,
     <1>16 DEF Next, User, ApiPlay

(* The controller keeps to its types, for every set of panes and streams,  *)
(* every timeframe, every range and any venue (ReplaySession in mod.rs).   *)
THEOREM SessionTypes == Spec => []TypeOK
<1>1. Fits => TypeOK
  BY DEF Fits
<1> QED
  BY <1>1, FitsInit, FitsStep, PTL DEF Spec

(* Clock and session fit each other, whatever order messages and loads     *)
(* come in: a loading session's clock is at the start and does not play,   *)
(* a session that is gone leaves nothing behind, and tick() never finds a  *)
(* playing clock without a due time.                                       *)
THEOREM SessionClockFits == Spec => []ClockFitsSession
<1>1. Fits => ClockFitsSession
  BY DEF Fits
<1> QED
  BY <1>1, FitsInit, FitsStep, PTL DEF Spec

-----------------------------------------------------------------------------
(* Pending answers.  LoadsOutstanding needs to know that a new Play or     *)
(* reload takes a number no load in flight has.                            *)
LoadsNumbered == IsFiniteSet(loads) /\ \A l \in loads : l.epoch <= epoch

(* What a step that starts no load does to the loads outstanding.          *)
LEMMA NoNewLoads ==
  ASSUME LoadsNumbered, LoadsOutstanding, UNCHANGED <<loads, epoch>>,
         session' = "Loading" => session = "Loading" /\ pending' = pending
  PROVE  LoadsNumbered' /\ LoadsOutstanding'
BY DEF LoadsNumbered, LoadsOutstanding, OwnLoads

(* Play waits for no more streams than it starts loads, one for each pane. *)
LEMMA PlayLoadsNumbered ==
  ASSUME Fits, LoadsNumbered, LoadsOutstanding, NEW range \in Ranges, HandlePlay(range)
  PROVE  LoadsNumbered' /\ LoadsOutstanding'
<1>0. /\ epoch \in Nat /\ loads \subseteq Load /\ IsFiniteSet(loads)
      /\ panes \in [Panes -> Streams \cup {NoStream}]
      /\ \A l \in loads : l.epoch \in Nat /\ l.epoch <= epoch
  BY SessionAssumption DEF Fits, TypeOK, LoadsNumbered, Load
<1>1. CASE PlayRejected(range)
  BY <1>1, NoNewLoads DEF PlayRejected, sessionVars
<1>2. CASE PlayAccepted(range)
  <2> DEFINE asking == {q \in Panes : panes[q] # NoStream}
             load(p) == [epoch |-> epoch + 1, for |-> p, stream |-> panes[p],
                         from |-> LoadFrom(panes[p], range.start), until |-> range.end]
             new == {load(p) : p \in asking}
  <2>1. epoch' = epoch + 1
    BY <1>2 DEF PlayAccepted
  <2>2. CASE KlineStreams = {}
    <3>1. loads' = loads /\ session' = "Active"
      BY <1>2, <2>2 DEF PlayAccepted
    <3> QED
      BY <1>0, <2>1, <3>1 DEF LoadsNumbered, LoadsOutstanding
  <2>3. CASE KlineStreams # {}
    <3>1. loads' = loads \cup new /\ pending' = Cardinality(KlineStreams)
      BY <1>2, <2>1, <2>3 DEF PlayAccepted
    <3>2. IsFiniteSet(asking)
      BY FS_Subset, SessionAssumption
    <3>3. IsFiniteSet(new)
      <4> DEFINE f == [p \in asking |-> load(p)]
      <4>1. f \in Surjection(asking, new)
        BY DEF Surjection
      <4> QED
        BY <3>2, <4>1, FS_Surjection
    <3>4. Cardinality(KlineStreams) <= Cardinality(new)
      <4> DEFINE f == [l \in new |-> l.stream]
      <4>1. KlineStreams = {panes[p] : p \in asking}
        BY DEF KlineStreams
      <4>2. f \in [new -> KlineStreams]
        BY <4>1
      <4>3. ASSUME NEW s \in KlineStreams PROVE \E l \in new : f[l] = s
        <5>1. PICK p \in asking : s = panes[p]
          BY <4>1
        <5>2. load(p) \in new /\ load(p).stream = s
          BY <5>1
        <5> QED
          BY <5>2
      <4>4. f \in Surjection(new, KlineStreams)
        BY <4>2, <4>3 DEF Surjection
      <4> QED
        BY <3>3, <4>4, FS_Surjection
    <3>5. Cardinality(KlineStreams) \in Nat /\ Cardinality(KlineStreams) # 0
      BY <1>0, <2>3, KlineStreamsType, FS_EmptySet
    <3>6. \A l \in new : l.epoch = epoch + 1
      OBVIOUS
    <3> HIDE DEF new
    <3>7. OwnLoads' = new
      BY <1>0, <2>1, <3>1, <3>6 DEF OwnLoads
    <3>8. LoadsNumbered'
      <4>1. IsFiniteSet(loads \cup new)
        BY <1>0, <3>3, FS_Union
      <4>2. \A l \in loads \cup new : l.epoch <= epoch + 1
        BY <1>0, <3>6
      <4> QED
        BY <2>1, <3>1, <4>1, <4>2 DEF LoadsNumbered
    <3>9. LoadsOutstanding'
      BY <3>1, <3>4, <3>5, <3>7 DEF LoadsOutstanding
    <3> QED
      BY <3>8, <3>9
  <2> QED
    BY <2>2, <2>3
<1> QED
  BY <1>1, <1>2 DEF HandlePlay

(* A reload waits for its one load.                                        *)
LEMMA ReloadLoadsNumbered ==
  ASSUME Fits, LoadsNumbered, LoadsOutstanding, NEW m, ReloadKlineStream(m)
  PROVE  LoadsNumbered' /\ LoadsOutstanding'
<1>0. /\ epoch \in Nat /\ loads \subseteq Load /\ IsFiniteSet(loads)
      /\ \A l \in loads : l.epoch \in Nat /\ l.epoch <= epoch
  BY SessionAssumption DEF Fits, TypeOK, LoadsNumbered, Load
<1>1. CASE ReloadIgnored
  BY <1>1, NoNewLoads DEF ReloadIgnored, sessionVars
<1>2. CASE ReloadStarted(m)
  <2> DEFINE l == [epoch |-> epoch + 1, for |-> NoStream, stream |-> m.new,
                   from |-> LoadFrom(m.new, clock.start), until |-> clock.end]
  <2>1. loads' = loads \cup {l} /\ l.epoch = epoch + 1
    BY <1>2 DEF ReloadStarted
  <2> HIDE DEF l
  <2>2. epoch' = epoch + 1 /\ pending' = 1
    BY <1>2 DEF ReloadStarted
  <2>3. OwnLoads' = {l}
    BY <1>0, <2>1, <2>2 DEF OwnLoads
  <2>4. Cardinality({l}) = 1
    BY FS_Singleton
  <2>5. LoadsOutstanding'
    BY <2>2, <2>3, <2>4 DEF LoadsOutstanding
  <2>6. LoadsNumbered'
    BY <1>0, <2>1, <2>2, FS_AddElement DEF LoadsNumbered
  <2> QED
    BY <2>5, <2>6
<1> QED
  BY <1>1, <1>2 DEF ReloadKlineStream

(* An answer counts down by one at most, and takes at most one load away.  *)
LEMMA LoadFinishesNumbered ==
  ASSUME Fits, LoadsNumbered, LoadsOutstanding, LoadFinishes
  PROVE  LoadsNumbered' /\ LoadsOutstanding'
<1>1. PICK l \in loads : KlinesLoadCompleted(l) \/ DataLoadFailed(l)
  BY DEF LoadFinishes
<1>2. loads' = loads \ {l} /\ epoch' = epoch
  BY <1>1 DEF KlinesLoadCompleted, DataLoadFailed
<1>3. LoadsNumbered'
  BY <1>2, FS_RemoveElement DEF LoadsNumbered
<1>4. OwnLoads' = OwnLoads \ {l} /\ IsFiniteSet(OwnLoads)
  BY <1>2, FS_Subset DEF OwnLoads, LoadsNumbered
<1>5. Cardinality(OwnLoads) \in Nat /\ Cardinality(OwnLoads') >= Cardinality(OwnLoads) - 1
  <2>1. Cardinality(OwnLoads) \in Nat
    BY <1>4, FS_CardinalityType
  <2>2. Cardinality(OwnLoads \ {l}) = IF l \in OwnLoads THEN Cardinality(OwnLoads) - 1
                                                       ELSE Cardinality(OwnLoads)
    BY <1>4, FS_RemoveElement
  <2> QED
    BY <1>4, <2>1, <2>2
<1>6. session' = "Loading" =>
        session = "Loading" /\ pending > 1 /\ pending' = pending - 1
  BY <1>1 DEF KlinesLoadCompleted, Activate, DataLoadFailed, ResetSession, DropSession
<1>7. pending \in Nat /\ Cardinality(OwnLoads') \in Nat
  BY <1>4, FS_RemoveElement, FS_CardinalityType DEF Fits, TypeOK
<1>8. LoadsOutstanding'
  BY <1>5, <1>6, <1>7 DEF LoadsOutstanding
<1> QED
  BY <1>3, <1>8

(* Every step keeps the loads outstanding.                                 *)
LEMMA LoadsStep ==
  Fits /\ LoadsNumbered /\ LoadsOutstanding /\ [Next]_vars => LoadsNumbered' /\ LoadsOutstanding'
<1> SUFFICES ASSUME Fits, LoadsNumbered, LoadsOutstanding, [Next]_vars
             PROVE  LoadsNumbered' /\ LoadsOutstanding'
  OBVIOUS
<1>0. rangeInput \in Ranges
  BY DEF Fits, TypeOK
<1>1. CASE UserPlay \/ QueuedPlay \/ \E range \in Ranges : ApiPlay(range)
  BY <1>0, <1>1, PlayLoadsNumbered DEF UserPlay, QueuedPlay, ApiPlay, AskForPlay
<1>2. CASE Reloading
  BY <1>2, ReloadLoadsNumbered DEF Reloading
<1>3. CASE LoadFinishes
  BY <1>3, LoadFinishesNumbered
<1>4. CASE ToggleMode
  <2>1. UNCHANGED <<loads, epoch>> /\ (session' = "Loading" => UNCHANGED <<session, pending>>)
    BY <1>4
    DEF ToggleMode, ToggleToReplay, ToggleToLive, ResetSession, DropSession, sessionVars, inFlight
  <2> QED
    BY <2>1, NoNewLoads
<1>5. CASE \/ \E t \in StartTexts : StartTimeChanged(t)
           \/ \E t \in EndTexts : EndTimeChanged(t)
           \/ Resume \/ PauseReplay \/ StepForward \/ StepBackward \/ CycleSpeed
           \/ \E p \in Panes, s \in Streams \cup {NoStream} : ChangeBasis(p, s)
           \/ FireAutoPlay \/ SessionUnavailable \/ SyncReplayBuffers \/ Frame
           \/ StatusPoll \/ UNCHANGED vars
  <2>1. UNCHANGED <<loads, epoch, session, pending>>
    BY <1>5
    DEF StartTimeChanged, EndTimeChanged, RangeInputChanged, Resume, PauseReplay, StepForward,
        StepBackward, CycleSpeed, ChangeBasis, FireAutoPlay, SessionUnavailable,
        SyncReplayBuffers, Frame, TickReplay, StatusPoll, GetStatus, TickSession, vars,
        sessionVars, inFlight
  <2> QED
    BY <2>1, NoNewLoads
<1> QED
  BY <1>1, <1>2, <1>3, <1>4, <1>5 DEF Next, User

(* A loading session can always finish, whatever order the loads, the late *)
(* ones of earlier sessions among them, complete in: for every set of      *)
(* panes and streams it waits for one answer at least and for no more than *)
(* its own loads can still give (pending_count).                           *)
THEOREM SessionCanFinishLoading == Spec => []LoadsOutstanding
<1>1. Init => Fits /\ LoadsNumbered /\ LoadsOutstanding
  BY FitsInit, FS_EmptySet DEF Init, LoadsNumbered, LoadsOutstanding
<1>2. (Fits /\ LoadsNumbered /\ LoadsOutstanding) /\ [Next]_vars
        => (Fits /\ LoadsNumbered /\ LoadsOutstanding)'
  BY FitsStep, LoadsStep
<1> QED
  BY <1>1, <1>2, PTL DEF Spec

-----------------------------------------------------------------------------
(* The flags: autoPlay asks for Replay without a session, so what starts   *)
(* one must clear it, and what enters Live too.                            *)
LEMMA FlagsStep == FlagsAreNotLeftBehind /\ [Next]_vars => FlagsAreNotLeftBehind'
<1> SUFFICES ASSUME FlagsAreNotLeftBehind, [Next]_vars PROVE FlagsAreNotLeftBehind'
  OBVIOUS
<1>1. CASE UserPlay \/ QueuedPlay \/ \E range \in Ranges : ApiPlay(range)
  BY <1>1 DEF UserPlay, QueuedPlay, ApiPlay, AskForPlay, HandlePlay, FlagsAreNotLeftBehind
<1>2. CASE ToggleMode
  <2>1. CASE ToggleToReplay
    <3>1. UNCHANGED <<autoPlay, resumePending, session>> /\ mode = "Live"
      BY <2>1 DEF ToggleToReplay, sessionVars
    <3> QED
      BY <3>1 DEF FlagsAreNotLeftBehind
  <2>2. CASE ToggleToLive
    <3>1. ~autoPlay' /\ ~resumePending'
      BY <2>2 DEF ToggleToLive, ResetSession
    <3> QED
      BY <3>1 DEF FlagsAreNotLeftBehind
  <2> QED
    BY <1>2, <2>1, <2>2 DEF ToggleMode
<1>3. CASE LoadFinishes
  BY <1>3
  DEF LoadFinishes, KlinesLoadCompleted, Activate, DataLoadFailed, ResetSession, DropSession,
      FlagsAreNotLeftBehind
<1>4. CASE Reloading
  <2>1. UNCHANGED <<mode, autoPlay, resumePending>>
    BY <1>4 DEF Reloading, ReloadKlineStream, inputVars
  <2>2. session' = session \/ session = "Active"
    BY <1>4 DEF Reloading, ReloadKlineStream, ReloadIgnored, ReloadStarted, sessionVars
  <2> QED
    BY <2>1, <2>2 DEF FlagsAreNotLeftBehind
<1>5. CASE \/ \E t \in StartTexts : StartTimeChanged(t)
           \/ \E t \in EndTexts : EndTimeChanged(t)
           \/ StepForward \/ StepBackward \/ CycleSpeed
           \/ \E p \in Panes, s \in Streams \cup {NoStream} : ChangeBasis(p, s)
           \/ SyncReplayBuffers \/ Frame \/ StatusPoll \/ UNCHANGED vars
  <2>1. UNCHANGED <<mode, autoPlay, resumePending, session>>
    BY <1>5
    DEF StartTimeChanged, EndTimeChanged, RangeInputChanged, StepForward, StepBackward,
        CycleSpeed, ChangeBasis, SyncReplayBuffers, Frame, TickReplay, StatusPoll, GetStatus,
        TickSession, vars, inputVars, sessionVars
  <2> QED
    BY <2>1 DEF FlagsAreNotLeftBehind
<1>6. CASE Resume \/ PauseReplay \/ FireAutoPlay \/ SessionUnavailable
  <2>1. session' = session /\ mode' = mode
    BY <1>6 DEF Resume, PauseReplay, FireAutoPlay, SessionUnavailable, sessionVars
  <2>2. autoPlay' => autoPlay
    BY <1>6 DEF Resume, PauseReplay, FireAutoPlay, SessionUnavailable
  <2>3. resumePending' => resumePending \/ session = "Loading"
    BY <1>6 DEF Resume, PauseReplay, FireAutoPlay, SessionUnavailable
  <2> QED
    BY <2>1, <2>2, <2>3 DEF FlagsAreNotLeftBehind
<1> QED
  BY <1>1, <1>2, <1>3, <1>4, <1>5, <1>6 DEF Next, User

(* Neither of the two flags that start playback by themselves outlives     *)
(* what it was set for (pending_auto_play and resume_pending, mod.rs).     *)
THEOREM SessionFlags == Spec => []FlagsAreNotLeftBehind
<1>1. Init => FlagsAreNotLeftBehind
  BY DEF Init, FlagsAreNotLeftBehind
<1> QED
  BY <1>1, FlagsStep, PTL DEF Spec

-----------------------------------------------------------------------------
(* Restart sets the step size between the pause and the seek, so that its  *)
(* fields are read off the record rather than from the lemmas.             *)
LEMMA RestartKeeps ==
  ASSUME NEW c \in Clock, NEW step
  PROVE  Restart(c, step).status = "Paused" /\ Restart(c, step).speed = c.speed
BY DEF Restart, Seek, SetStepSize, Pause, Disarmed, Clock

-----------------------------------------------------------------------------
(* The messages that seek leave the clock, or leave it where Seek does,    *)
(* after a pause or without one.                                           *)
Seeking ==
  \/ \E t \in StartTexts : StartTimeChanged(t)
  \/ \E t \in EndTexts : EndTimeChanged(t)
  \/ StepForward
  \/ StepBackward

(* Each of them leaves the clock alone, or where Seek leaves it.           *)
LEMMA SeekingMoves ==
  ASSUME clock \in Clock, Seeking
  PROVE  /\ clock'.speed = clock.speed
         /\ clock'.status \in {clock.status, "Paused"}
<1> DEFINE Kept == /\ clock'.speed = clock.speed
                   /\ clock'.status \in {clock.status, "Paused"}
<1> SUFFICES Kept
  OBVIOUS
<1>1. ASSUME NEW t, SeekTo(t) PROVE Kept
  BY <1>1, PausedSeekKeeps DEF SeekTo
<1>2. ASSUME NEW t, clock' = Seek(clock, t) PROVE Kept
  BY <1>2, SeekKeeps
<1>3. CASE UNCHANGED clock
  BY <1>3
<1> HIDE DEF Kept
<1>4. ASSUME RangeInputChanged PROVE Kept
  BY <1>1, <1>3, <1>4 DEF RangeInputChanged
<1>5. CASE StepForward
  BY <1>1, <1>2, <1>3, <1>5 DEF StepForward
<1>6. CASE StepBackward
  BY <1>1, <1>3, <1>6 DEF StepBackward
<1> QED
  BY <1>4, <1>5, <1>6 DEF Seeking, StartTimeChanged, EndTimeChanged

-----------------------------------------------------------------------------
(* One step leaves a paused clock paused, unless the user asked.           *)

(* A paused clock that starts to play was asked to.                        *)
PauseKept ==
  (session # "Idle" /\ clock.status = "Paused" /\ clock'.status = "Playing")
    => Resume \/ resumePending \/ PlayAsked

(* No step resumes a paused clock unless it was asked for.                 *)
LEMMA PausedStep == clock \in Clock /\ [Next]_vars => PauseKept
<1> SUFFICES ASSUME clock \in Clock, [Next]_vars, ~PlayAsked, ~Resume, ~resumePending,
                    clock.status = "Paused"
             PROVE  clock'.status # "Playing"
  BY DEF PauseKept
<1>1. CASE ToggleMode
  <2>1. NoClock.status = "Paused"
    BY DEF NoClock, NewClock
  <2>2. clock' = clock \/ clock' = NoClock
    BY <1>1 DEF ToggleMode, ToggleToReplay, ToggleToLive, ResetSession, DropSession, sessionVars
  <2> QED
    BY <2>1, <2>2
<1>2. CASE Seeking
  BY <1>2, SeekingMoves
<1>3. CASE PauseReplay
  BY <1>3, PauseKeeps DEF PauseReplay
<1>4. CASE CycleSpeed
  <2>1. \A s : SetSpeed(clock, s).status = "Paused"
    BY PauseKeeps DEF SetSpeed, Clock
  <2> QED
    BY <1>4, <2>1 DEF CycleSpeed
<1>5. CASE LoadFinishes
  <2>1. ResumeFromWaiting(clock) = clock
    BY DEF ResumeFromWaiting
  <2> QED
    BY <1>5, <2>1
    DEF LoadFinishes, KlinesLoadCompleted, Activate, DataLoadFailed, ResetSession,
        DropSession, NoClock, NewClock
<1>6. CASE Reloading
  BY <1>6, RestartKeeps
  DEF Reloading, ReloadKlineStream, ReloadIgnored, ReloadStarted, sessionVars
<1>7. CASE SyncReplayBuffers
  BY <1>7, SetStepSizeKeeps DEF SyncReplayBuffers
<1>8. CASE Frame \/ StatusPoll
  BY <1>8, TickKeeps
  DEF Frame, StatusPoll, TickReplay, GetStatus, TickSession, DispatchTick
<1>9. CASE \/ \E p \in Panes, s \in Streams \cup {NoStream} : ChangeBasis(p, s)
           \/ FireAutoPlay \/ SessionUnavailable \/ UNCHANGED vars
  BY <1>9 DEF ChangeBasis, FireAutoPlay, SessionUnavailable, vars, sessionVars
<1>10. CASE User
  BY <1>1, <1>2, <1>3, <1>4, <1>9, <1>10 DEF User, PlayAsked, Seeking
<1>11. CASE QueuedPlay
  BY <1>11 DEF PlayAsked
<1> QED
  BY <1>5, <1>6, <1>7, <1>8, <1>9, <1>10, <1>11 DEF Next

(* A reload or a load that completes does not restart a paused clock: only *)
(* Resume, now or while the data was loading, or a new Play does           *)
(* (dispatcher.rs, tick.rs).                                               *)
THEOREM SessionStaysPaused == Spec => PausedUntilAsked
<1>1. Fits /\ [Next]_vars => PauseKept
  BY PausedStep DEF Fits, TypeOK
<1>2. Fits /\ [Next]_vars => [PauseKept]_vars
  BY <1>1
<1>3. Spec => [][PauseKept]_vars
  BY <1>2, FitsInit, FitsStep, PTL DEF Spec
<1> QED
  BY <1>3 DEF PauseKept, PausedUntilAsked

-----------------------------------------------------------------------------
(* One step leaves the speed alone, unless it is the user's CycleSpeed or  *)
(* a session begins or ends.                                               *)

(* Within a session only CycleSpeed changes the speed.                     *)
SpeedKept ==
  (session # "Idle" /\ session' # "Idle" /\ ~CycleSpeed) => clock'.speed = clock.speed

(* A new Play during a session takes over the speed of the old clock.      *)
LEMMA PlayKeepsSpeed ==
  ASSUME clock \in Clock, session # "Idle", NEW range, HandlePlay(range)
  PROVE  clock'.speed = clock.speed
<1>1. CASE PlayRejected(range)
  BY <1>1 DEF PlayRejected, sessionVars
<1>2. CASE PlayAccepted(range)
  <2>1. clock.speed \in Nat \ {0} /\ KeptSpeed = clock.speed
    BY DEF Clock, KeptSpeed
  <2> QED
    BY <1>2, <2>1, FreshKeeps DEF PlayAccepted
<1> QED
  BY <1>1, <1>2 DEF HandlePlay

(* No step of a session but CycleSpeed changes the speed.                  *)
LEMMA SpeedStep == clock \in Clock /\ [Next]_vars => SpeedKept
<1> SUFFICES ASSUME clock \in Clock, [Next]_vars, session # "Idle", session' # "Idle",
                    ~CycleSpeed
             PROVE  clock'.speed = clock.speed
  BY DEF SpeedKept
<1>1. CASE PlayAsked
  BY <1>1, PlayKeepsSpeed DEF PlayAsked, UserPlay, QueuedPlay, ApiPlay, AskForPlay
<1>2. CASE ToggleMode
  BY <1>2 DEF ToggleMode, ToggleToReplay, ToggleToLive, ResetSession, DropSession, sessionVars
<1>3. CASE Seeking
  BY <1>3, SeekingMoves
<1>4. CASE Resume \/ PauseReplay
  BY <1>4, PlayKeeps, PauseKeeps DEF Resume, PauseReplay
<1>5. CASE LoadFinishes
  <2>1. /\ ResumeFromWaiting(clock).speed = clock.speed
        /\ ResumeFromWaiting(clock).status = "Paused" => ResumeFromWaiting(clock) = clock
    BY WaitingKeeps DEF ResumeFromWaiting, Play, Clock
  <2> QED
    BY <1>5, <2>1, PlayKeeps
    DEF LoadFinishes, KlinesLoadCompleted, Activate, DataLoadFailed, ResetSession, DropSession
<1>6. CASE Reloading
  BY <1>6, RestartKeeps
  DEF Reloading, ReloadKlineStream, ReloadIgnored, ReloadStarted, sessionVars
<1>7. CASE SyncReplayBuffers
  BY <1>7, SetStepSizeKeeps DEF SyncReplayBuffers
<1>8. CASE Frame \/ StatusPoll
  BY <1>8, TickKeeps, WaitingKeeps
  DEF Frame, StatusPoll, TickReplay, GetStatus, TickSession, DispatchTick
<1>9. CASE \/ \E p \in Panes, s \in Streams \cup {NoStream} : ChangeBasis(p, s)
           \/ FireAutoPlay \/ SessionUnavailable \/ UNCHANGED vars
  BY <1>9 DEF ChangeBasis, FireAutoPlay, SessionUnavailable, vars, sessionVars
<1>10. CASE User
  BY <1>1, <1>2, <1>3, <1>4, <1>9, <1>10 DEF User, PlayAsked, Seeking
<1>11. CASE QueuedPlay
  BY <1>1, <1>11 DEF PlayAsked
<1> QED
  BY <1>5, <1>6, <1>7, <1>8, <1>9, <1>10, <1>11 DEF Next

(* The speed survives a restart: a session keeps it through Play, reloads, *)
(* seeks and ticks, and only CycleSpeed changes it (session.rs, Play).     *)
THEOREM SessionKeepsSpeed == Spec => SpeedSurvivesRestart
<1>1. Fits /\ [Next]_vars => SpeedKept
  BY SpeedStep DEF Fits, TypeOK
<1>2. Fits /\ [Next]_vars => [SpeedKept]_vars
  BY <1>1
<1>3. Spec => [][SpeedKept]_vars
  BY <1>2, FitsInit, FitsStep, PTL DEF Spec
<1> QED
  BY <1>3 DEF SpeedKept, SpeedSurvivesRestart

-----------------------------------------------------------------------------
(* 2. NoLookAhead is not inductive.  A clock at an end of the range that   *)
(* no step lands on can be snapped back by SyncReplayBuffers, which is     *)
(* only harmless because no bar lies beyond the end; and a step forward,   *)
(* which goes by the timeframes of the active streams, only catches up     *)
(* with what is shown because the clock has that very step.  Sight says    *)
(* both.                                                                   *)
InSight(chs, c) ==
  \A p \in Panes : \A b \in chs[p].bars : b < c.now + c.step /\ b <= c.end

(* No chart shows what is out of sight of a clock of the right step.       *)
Sight ==
  session # "Idle" => clock.step = MinTimeframe(active) /\ InSight(charts, clock)

-----------------------------------------------------------------------------
(* The charts.                                                             *)

(* The bars of a chart are times.                                          *)
LEMMA BarsType ==
  ASSUME NEW chs \in [Panes -> Chart], NEW p \in Panes
  PROVE  chs[p].bars \subseteq Nat
BY DEF Chart

(* A clock that has not gone back, with the step and the end it had, has   *)
(* in sight what it had in sight.                                          *)
LEMMA StaysInSight ==
  ASSUME NEW chs \in [Panes -> Chart], NEW c \in Clock, NEW d \in Clock, InSight(chs, c),
         c.now <= d.now, d.step = c.step, d.end = c.end
  PROVE  InSight(chs, d)
<1>1. ASSUME NEW p \in Panes, NEW b \in chs[p].bars
      PROVE  b < d.now + d.step /\ b <= d.end
  <2>1. b \in Nat /\ b < c.now + c.step /\ b <= c.end
    BY BarsType DEF InSight
  <2>2. c.now \in Nat /\ d.now \in Nat /\ c.step \in Nat
    BY DEF Clock
  <2> QED
    BY <2>1, <2>2
<1> QED
  BY <1>1 DEF InSight

(* So has one that is snapped back to its own step: from the end, beyond   *)
(* which nothing is shown, or from a step, where it stays.                 *)
LEMMA SnapInSight ==
  ASSUME NEW chs \in [Panes -> Chart], NEW c \in Clock, ClockOK(c), InSight(chs, c)
  PROVE  InSight(chs, SetStepSize(c, c.step))
<1> DEFINE d == SetStepSize(c, c.step)
<1>1. d \in Clock /\ d.step = c.step /\ d.end = c.end /\ d.now = FloorTo(c.start, c.step, c.now)
  BY SetStepSizeOK DEF SetStepSize, Clock
<1>2. /\ c.start \in Nat /\ c.now \in Nat /\ c.end \in Nat /\ c.step \in Nat \ {0}
      /\ c.start <= c.now
  BY DEF Clock, ClockOK, InRange
<1> HIDE DEF d
<1>3. CASE OnStep(c)
  BY <1>1, <1>2, <1>3, FloorOfStep, StaysInSight DEF d
<1>4. CASE c.now = c.end
  <2>1. c.now < FloorTo(c.start, c.step, c.now) + c.step
    BY <1>2, FloorToNear
  <2>2. ASSUME NEW p \in Panes, NEW b \in chs[p].bars
        PROVE  b < d.now + d.step /\ b <= d.end
    <3>1. b \in Nat /\ b <= c.end
      BY BarsType DEF InSight
    <3> QED
      BY <1>1, <1>2, <1>4, <2>1, <3>1 DEF Clock
  <2>3. InSight(chs, d)
    BY <2>2 DEF InSight
  <2> QED
    BY <2>3 DEF d
<1> QED
  BY <1>3, <1>4 DEF ClockOK, OnBarBoundary

(* Empty charts show nothing of what is to come.                           *)
LEMMA EmptyInSight ==
  ASSUME NEW replay, NEW c
  PROVE  InSight(EmptyCharts(replay), c)
BY DEF InSight, EmptyCharts

(* Adding bars that are in sight to a chart.                               *)
LEMMA ShownBars ==
  ASSUME NEW chart \in Chart, NEW bars
  PROVE  Shown(chart, bars).bars = chart.bars \cup bars
BY DEF Shown, Chart

(* inject_klines_up_to adds bars up to its target.                         *)
LEMMA InjectInSight ==
  ASSUME active \subseteq Streams, NEW chs \in [Panes -> Chart], NEW c \in Clock,
         InSight(chs, c), NEW t \in Nat, t < c.now + c.step, t <= c.end
  PROVE  InSight(Inject(chs, t), c)
<1>1. ASSUME NEW p \in Panes, NEW b \in Inject(chs, t)[p].bars
      PROVE  b < c.now + c.step /\ b <= c.end
  <2>1. CASE b \in chs[p].bars
    BY <2>1 DEF InSight
  <2>2. CASE b \notin chs[p].bars
    <3>1. panes[p] \in active /\ b \in KlinesIn(panes[p], 0, t + 1)
      <4>1. chs[p] \in Chart
        OBVIOUS
      <4> QED
        BY <2>2, <4>1, ShownBars DEF Inject
    <3>2. b \in Nat /\ b < t + 1
      BY <3>1, BarsAreTimes DEF KlinesIn
    <3>3. c.now \in Nat /\ c.step \in Nat /\ c.end \in Nat
      BY DEF Clock
    <3> QED
      BY <3>2, <3>3
  <2> QED
    BY <2>1, <2>2
<1> QED
  BY <1>1 DEF InSight

-----------------------------------------------------------------------------
(* The messages, one by one.                                               *)

(* What Sight and Fits give in a session.                                  *)
LEMMA SightFacts ==
  ASSUME Fits
  PROVE  /\ clock \in Clock /\ ClockOK(clock) /\ charts \in [Panes -> Chart]
         /\ active \subseteq Streams /\ active \in SUBSET Streams
         /\ clock.now \in Nat /\ clock.start \in Nat /\ clock.end \in Nat
         /\ clock.step \in Nat \ {0}
         /\ clock.start <= clock.now /\ clock.now <= clock.end
BY DEF Fits, TypeOK, ClockFitsSession, Chart, Clock, ClockOK, InRange

(* seek_to, up to the end of the range.                                    *)
LEMMA SeekToSight ==
  ASSUME Fits, NEW t \in Nat, t <= clock.end, SeekTo(t)
  PROVE  InSight(charts', clock') /\ clock'.step = clock.step
<1> DEFINE c == Pause(clock)
           d == Seek(c, t)
<1>1. c \in Clock /\ ClockOK(c) /\ c.end = clock.end /\ c.step = clock.step
  BY SightFacts, PauseOK, PauseFacts DEF Pause, Disarmed, Clock
<1> HIDE DEF c
<1>2. t < d.now + c.step /\ d.step = c.step /\ d.end = c.end /\ d \in Clock
  BY <1>1, SeekReaches, SeekOK
<1> HIDE DEF d
<1>3. InSight(EmptyCharts(TRUE), d) /\ EmptyCharts(TRUE) \in [Panes -> Chart]
  BY EmptyInSight DEF EmptyCharts, Chart
<1>4. InSight(Inject(EmptyCharts(TRUE), t), d)
  BY <1>1, <1>2, <1>3, SightFacts, InjectInSight
<1>5. clock' = d /\ charts' = Inject(EmptyCharts(TRUE), t)
  BY DEF SeekTo, c, d
<1> QED
  BY <1>1, <1>2, <1>4, <1>5

(* A step forward goes exactly as far as the clock's own step.             *)
LEMMA StepForwardSight ==
  ASSUME Fits, Sight, StepForward
  PROVE  Sight'
<1>0. session' = session /\ active' = active
  BY DEF StepForward
<1> SUFFICES ASSUME session # "Idle"
             PROVE  clock'.step = clock.step /\ InSight(charts', clock')
  BY <1>0 DEF Sight
<1> DEFINE next == clock.now + MinTimeframe(active)
<1>1. next = clock.now + clock.step /\ next \in Nat
  BY SightFacts DEF Sight
<1>2. CASE SeekTo(clock.end)
  BY <1>2, SightFacts, SeekToSight
<1>3. CASE next <= clock.end /\ clock' = Seek(clock, next) /\ charts' = Inject(charts, next)
  <2> DEFINE d == Seek(clock, next)
  <2>1. /\ next < d.now + clock.step /\ d.step = clock.step /\ d.end = clock.end
        /\ d \in Clock /\ d.now \in Nat
    BY <1>1, <1>3, SightFacts, SeekReaches, SeekOK DEF Clock
  <2> HIDE DEF d
  <2>2. clock.now <= d.now
    BY <1>1, <2>1, SightFacts
  <2>3. InSight(charts, d)
    BY <2>1, <2>2, SightFacts, StaysInSight DEF Sight
  <2>4. InSight(Inject(charts, next), d)
    BY <1>1, <1>3, <2>1, <2>3, SightFacts, InjectInSight
  <2> QED
    BY <1>3, <2>1, <2>4 DEF d
<1>4. CASE UNCHANGED <<clock, charts>>
  BY <1>4 DEF Sight
<1>5. \/ SeekTo(clock.end)
      \/ next <= clock.end /\ clock' = Seek(clock, next) /\ charts' = Inject(charts, next)
      \/ UNCHANGED <<clock, charts>>
  BY DEF StepForward
<1> HIDE DEF next
<1> QED
  BY <1>2, <1>3, <1>4, <1>5

(* A step back goes to a bar, or a step, before the current time.          *)
LEMMA StepBackIsBack ==
  ASSUME Fits
  PROVE  StepBackTarget \in Nat /\ StepBackTarget <= clock.now
<1> DEFINE earlier == UNION {KlinesIn(s, 0, clock.now) : s \in active}
<1>1. earlier \subseteq Nat /\ \A b \in earlier : b <= clock.now
  <2>1. ASSUME NEW s \in active, NEW b \in KlinesIn(s, 0, clock.now)
        PROVE  b \in Nat /\ b <= clock.now
    BY SightFacts, BarsAreTimes DEF KlinesIn
  <2> QED
    BY <2>1
<1>2. earlier # {} => Max(earlier) \in earlier
  BY <1>1, SightFacts, MaxOfNat
<1>3. /\ Monus(clock.now, MinTimeframe(active)) \in Nat
      /\ Monus(clock.now, MinTimeframe(active)) <= clock.now
  BY SightFacts, MinTimeframeType DEF Monus
<1> HIDE DEF earlier
<1>4. \/ StepBackTarget \in {Monus(clock.now, MinTimeframe(active)), clock.start}
      \/ (earlier # {} /\ StepBackTarget = Max(earlier))
  BY DEF StepBackTarget, earlier
<1>5. CASE earlier # {} /\ StepBackTarget = Max(earlier)
  BY <1>1, <1>2, <1>5
<1>6. CASE StepBackTarget \in {Monus(clock.now, MinTimeframe(active)), clock.start}
  BY <1>3, <1>6, SightFacts
<1> QED
  BY <1>4, <1>5, <1>6

(* A step back empties the charts and shows them up to its target.         *)
LEMMA StepBackwardSight ==
  ASSUME Fits, Sight, StepBackward
  PROVE  Sight'
<1>0. session' = session /\ active' = active
  BY DEF StepBackward
<1> SUFFICES ASSUME session # "Idle"
             PROVE  clock'.step = clock.step /\ InSight(charts', clock')
  BY <1>0 DEF Sight
<1>1. CASE SeekTo(clock.start)
  BY <1>1, SightFacts, SeekToSight
<1>2. CASE SeekTo(StepBackTarget)
  BY <1>2, SightFacts, StepBackIsBack, SeekToSight
<1>3. CASE UNCHANGED <<clock, charts>>
  BY <1>3 DEF Sight
<1> QED
  BY <1>1, <1>2, <1>3 DEF StepBackward

(* An edited range takes the session back to its start.                    *)
LEMMA RangeInputSight ==
  ASSUME Fits, Sight, RangeInputChanged
  PROVE  Sight'
<1>0. session' = session /\ active' = active
  BY DEF RangeInputChanged
<1>1. CASE session = "Idle"
  BY <1>0, <1>1 DEF Sight
<1>2. CASE session # "Idle"
  BY <1>0, <1>2, SightFacts, SeekToSight DEF RangeInputChanged, Sight
<1> QED
  BY <1>1, <1>2

(* The methods that leave time, step and end alone.                        *)
LEMMA SamePlaces ==
  ASSUME NEW c \in Clock, NEW d \in {Play(c), Pause(c), SetWaiting(c), ResumeFromWaiting(c),
                                    Play(ResumeFromWaiting(c))}
  PROVE  d.now = c.now /\ d.step = c.step /\ d.end = c.end
<1>1. Play(c).now = c.now /\ Play(c).step = c.step /\ Play(c).end = c.end
  BY DEF Play, Clock
<1>2. Pause(c).now = c.now /\ Pause(c).step = c.step /\ Pause(c).end = c.end
  BY DEF Pause, Disarmed, Clock
<1>3. SetWaiting(c).now = c.now /\ SetWaiting(c).step = c.step /\ SetWaiting(c).end = c.end
  BY DEF SetWaiting, Disarmed, Clock
<1>4. /\ Play(Play(c)).now = c.now /\ Play(Play(c)).step = c.step
      /\ Play(Play(c)).end = c.end
  BY DEF Play, Clock
<1> QED
  BY <1>1, <1>2, <1>3, <1>4 DEF ResumeFromWaiting

(* A clock that stays where it is, under charts that stay as they are.     *)
LEMMA ClockStaysSight ==
  ASSUME Fits, Sight, clock'.now = clock.now, clock'.step = clock.step, clock'.end = clock.end,
         UNCHANGED <<session, active, charts>>
  PROVE  Sight'
BY DEF Sight, InSight

(* A finished load brings its history only, from before the start.         *)
LEMMA LoadSight ==
  ASSUME Fits, Sight, NEW l, KlinesLoadCompleted(l)
  PROVE  Sight'
<1>0. /\ l.stream \in Streams /\ active' = active
      /\ session' # "Idle" => session # "Idle"
  BY DEF Fits, TypeOK, KlinesLoadCompleted, Activate, Load
<1> SUFFICES ASSUME session # "Idle"
             PROVE  clock'.step = clock.step /\ InSight(charts', clock')
  BY <1>0 DEF Sight
<1>1. clock'.now = clock.now /\ clock'.step = clock.step /\ clock'.end = clock.end
  BY SightFacts, SamePlaces DEF KlinesLoadCompleted, Activate
<1>2. ASSUME NEW p \in Panes, NEW b \in HistoryShown(l)[p].bars
      PROVE  b < clock.now + clock.step /\ b <= clock.end
  <2>1. CASE b \in charts[p].bars
    BY <2>1 DEF Sight, InSight
  <2>2. CASE b \notin charts[p].bars
    <3>1. charts[p] \in Chart
      BY SightFacts
    <3>2. b \in {h \in Fetched(l.stream, l.from, l.until) : h < clock.start}
      BY <2>2, <3>1, ShownBars DEF HistoryShown
    <3>3. b \in Nat /\ b < clock.start
      BY <1>0, <3>2, BarsAreTimes
    <3> QED
      BY <3>3, SightFacts
  <2> QED
    BY <2>1, <2>2
<1> QED
  BY <1>1, <1>2 DEF KlinesLoadCompleted, InSight

(* A tick shows bars from before the time it reaches.                      *)
LEMMA TickSight ==
  ASSUME Fits, Sight, NEW elapsed \in Nat, TickSession(elapsed)
  PROVE  Sight'
<1> DEFINE c == Tick(clock, elapsed)
<1>0. session' = session /\ active' = active /\ session # "Idle" /\ DispatchTick(elapsed)
  BY DEF TickSession
<1>1. /\ clock.now <= c.now /\ c.step = clock.step /\ c.end = clock.end
      /\ c \in Clock /\ c.now \in Nat /\ c.now <= c.end
  BY SightFacts, TickMoves, TickOK DEF Clock, ClockOK, InRange
<1> HIDE DEF c
<1>2. CASE charts' = charts /\ clock' \in {clock, SetWaiting(clock)}
  BY <1>0, <1>2, SightFacts, SamePlaces, ClockStaysSight
<1>3. CASE /\ clock' = c
           /\ charts' = [p \in Panes |->
                IF panes[p] \in active
                  THEN Shown(charts[p], KlinesIn(panes[p], clock.now, c.now))
                  ELSE charts[p]]
  <2>1. InSight(charts, c)
    BY <1>0, <1>1, SightFacts, StaysInSight DEF Sight
  <2>2. ASSUME NEW p \in Panes, NEW b \in charts'[p].bars
        PROVE  b < c.now + c.step /\ b <= c.end
    <3>1. CASE b \in charts[p].bars
      BY <2>1, <3>1 DEF InSight
    <3>2. CASE b \notin charts[p].bars
      <4>1. charts[p] \in Chart
        BY SightFacts
      <4>2. panes[p] \in active /\ b \in KlinesIn(panes[p], clock.now, c.now)
        BY <1>3, <2>2, <3>2, <4>1, ShownBars
      <4>3. b \in Nat /\ b < c.now
        BY <4>2, SightFacts, BarsAreTimes DEF KlinesIn
      <4> QED
        BY <4>3, <1>1, SightFacts
    <3> QED
      BY <3>1, <3>2
  <2> QED
    BY <1>0, <1>1, <1>3, <2>2 DEF Sight, InSight
<1> QED
  BY <1>0, <1>2, <1>3 DEF DispatchTick, c

(* Neither the speed nor the first status of a new clock touches its step. *)
LEMMA FreshStep ==
  ASSUME NEW start, NEW end, NEW step, NEW speed \in Nat \ {0}
  PROVE  LET fresh == SetSpeed(NewClock(start, end, step), speed)
         IN  Play(fresh).step = step /\ SetWaiting(fresh).step = step
  BY DEF NewClock, SetSpeed, Play, SetWaiting, Disarmed

(* A new session has the step of its streams, and empty charts.            *)
LEMMA PlaySight ==
  ASSUME Fits, Sight, NEW range, HandlePlay(range)
  PROVE  Sight'
<1>1. CASE PlayRejected(range)
  BY <1>1 DEF PlayRejected, sessionVars, Sight
<1>2. CASE PlayAccepted(range)
  <2>1. KeptSpeed \in Nat \ {0}
    BY SightFacts DEF KeptSpeed, Clock
  <2>2. clock'.step = MinTimeframe(KlineStreams)
    BY <1>2, <2>1, FreshStep DEF PlayAccepted
  <2>3. active' = KlineStreams /\ charts' = EmptyCharts(TRUE)
    BY <1>2 DEF PlayAccepted
  <2>4. InSight(EmptyCharts(TRUE), clock')
    BY EmptyInSight
  <2> QED
    BY <2>2, <2>3, <2>4 DEF Sight, MinTimeframe
<1> QED
  BY <1>1, <1>2 DEF HandlePlay

(* A reload takes the step of its streams, and empties the charts.         *)
LEMMA ReloadSight ==
  ASSUME Fits, Sight, NEW m, ReloadKlineStream(m)
  PROVE  Sight'
<1>1. CASE ReloadIgnored
  BY <1>1 DEF ReloadIgnored, sessionVars, Sight
<1>2. CASE ReloadStarted(m)
  <2>1. clock' = Restart(clock, MinTimeframe(active')) /\ charts' = EmptyCharts(TRUE)
    BY <1>2 DEF ReloadStarted
  <2>2. clock'.step = MinTimeframe(active')
    BY <2>1, SightFacts DEF Restart, Seek, SetStepSize, Pause, Disarmed, Clock
  <2>3. InSight(EmptyCharts(TRUE), clock')
    BY EmptyInSight
  <2> QED
    BY <2>1, <2>2, <2>3 DEF Sight, MinTimeframe
<1> QED
  BY <1>1, <1>2 DEF ReloadKlineStream

(* SyncReplayBuffers sets the step the clock has already, and snaps it.    *)
LEMMA SyncSight ==
  ASSUME Fits, Sight, SyncReplayBuffers
  PROVE  Sight'
<1>0. UNCHANGED <<session, active, charts>>
  BY DEF SyncReplayBuffers
<1> SUFFICES ASSUME session # "Idle"
             PROVE  clock'.step = clock.step /\ InSight(charts, clock')
  BY <1>0 DEF Sight
<1>1. clock' = SetStepSize(clock, clock.step)
  BY DEF SyncReplayBuffers, Sight
<1>2. SetStepSize(clock, clock.step).step = clock.step
  BY SightFacts DEF SetStepSize, Clock
<1> QED
  BY <1>1, <1>2, SightFacts, SnapInSight DEF Sight

(* Switching the mode drops the session or empties the charts.             *)
LEMMA ToggleSight ==
  ASSUME Fits, Sight, ToggleMode
  PROVE  Sight'
<1>1. CASE ToggleToReplay
  <2>1. InSight(EmptyCharts(TRUE), clock)
    BY EmptyInSight
  <2> QED
    BY <1>1, <2>1 DEF ToggleToReplay, sessionVars, Sight, InSight
<1>2. CASE ToggleToLive
  BY <1>2 DEF ToggleToLive, ResetSession, DropSession, Sight
<1> QED
  BY <1>1, <1>2 DEF ToggleMode

(* A pane that changes its timeframe starts empty.                         *)
LEMMA BasisSight ==
  ASSUME Fits, Sight, NEW p \in Panes, NEW s, ChangeBasis(p, s)
  PROVE  Sight'
<1>1. charts' = [charts EXCEPT ![p].bars = {}] /\ UNCHANGED <<session, clock, active>>
  BY DEF ChangeBasis, sessionVars
<1>2. \A q \in Panes : charts'[q].bars \subseteq charts[q].bars
  BY <1>1, SightFacts DEF Chart
<1> QED
  BY <1>1, <1>2 DEF Sight, InSight

-----------------------------------------------------------------------------
(* Every step of the controller keeps in sight the bars the charts hold.   *)
LEMMA SightStep == Fits /\ Sight /\ [Next]_vars => Sight'
<1> SUFFICES ASSUME Fits, Sight, [Next]_vars PROVE Sight'
  OBVIOUS
<1>1. CASE PlayAsked
  BY <1>1, PlaySight DEF PlayAsked, UserPlay, QueuedPlay, ApiPlay, AskForPlay
<1>2. CASE ToggleMode
  BY <1>2, ToggleSight
<1>3. CASE Seeking
  BY <1>3, StepForwardSight, StepBackwardSight, RangeInputSight
  DEF Seeking, StartTimeChanged, EndTimeChanged
<1>4. CASE Resume \/ PauseReplay
  <2>1. clock' \in {clock, Play(clock), Pause(clock)} /\ UNCHANGED <<session, active, charts>>
    BY <1>4 DEF Resume, PauseReplay
  <2> QED
    BY <2>1, SightFacts, SamePlaces, ClockStaysSight
<1>5. CASE CycleSpeed
  <2>1. /\ clock' \in {clock, Pause(clock)} \/ \E s : clock' = [clock EXCEPT !.speed = s]
        /\ UNCHANGED <<session, active, charts>>
    BY <1>5 DEF CycleSpeed, SetSpeed
  <2>2. clock'.now = clock.now /\ clock'.step = clock.step /\ clock'.end = clock.end
    BY <2>1, SightFacts, SamePlaces DEF Clock
  <2> QED
    BY <2>1, <2>2, ClockStaysSight
<1>6. ASSUME NEW p \in Panes, NEW s \in Streams \cup {NoStream}, ChangeBasis(p, s) PROVE Sight'
  BY <1>6, BasisSight
<1>7. CASE LoadFinishes
  <2>1. ASSUME NEW l, DataLoadFailed(l) PROVE Sight'
    BY <2>1 DEF DataLoadFailed, ResetSession, DropSession, Sight
  <2> QED
    BY <1>7, <2>1, LoadSight DEF LoadFinishes
<1>8. CASE Reloading
  BY <1>8, ReloadSight DEF Reloading
<1>9. CASE SyncReplayBuffers
  BY <1>9, SyncSight
<1>10. CASE Frame \/ StatusPoll
  <2>1. \A elapsed \in 1 .. MaxLag : elapsed \in Nat
    BY SessionAssumption
  <2> QED
    BY <1>10, <2>1, TickSight DEF Frame, StatusPoll, TickReplay, GetStatus
<1>11. CASE FireAutoPlay \/ SessionUnavailable \/ UNCHANGED vars
  BY <1>11, ClockStaysSight DEF FireAutoPlay, SessionUnavailable, vars, sessionVars
<1>12. CASE User
  BY <1>1, <1>2, <1>3, <1>4, <1>5, <1>6, <1>12 DEF User, PlayAsked, Seeking
<1>13. CASE QueuedPlay
  BY <1>1, <1>13 DEF PlayAsked
<1> QED
  BY <1>7, <1>8, <1>9, <1>10, <1>11, <1>12, <1>13 DEF Next

(* No chart ever shows a bar a whole step after the virtual time or later, *)
(* whatever the order of ticks, seeks, loads and reloads (the half-open    *)
(* windows of dispatch_tick and the history filter of KlinesLoadCompleted).*)
THEOREM SessionDoesNotLookAhead == Spec => []NoLookAhead
<1>1. Init => Sight
  BY DEF Init, Sight
<1>2. Sight => NoLookAhead
  BY DEF Sight, InSight, NoLookAhead
<1> QED
  BY <1>1, <1>2, SightStep, FitsInit, FitsStep, PTL DEF Spec

-----------------------------------------------------------------------------
(* 3. The refinement: the initial states map to Playback's, and each step  *)
(* maps to one of Playback's actions or leaves what Playback sees alone.   *)
(* That clock and session fit each other (Fits) before and after a step is *)
(* what makes the steps map.                                               *)

(* A step of the abstract playback, or none.                               *)
AbstractStep == Abstract!Next \/ UNCHANGED Abstract!pvars

(* A step that leaves the place of the clock and its status is a stutter.  *)
LEMMA Stutters ==
  ASSUME session' = session, StandsAs(clock, clock'),
         (clock'.status = "Playing") <=> (clock.status = "Playing")
  PROVE  AbstractStep
BY DEF AbstractStep, Abstract!pvars, Abstract!range, StandsAs, SameFrame

(* Play, Pause and a clock set to wait start or stop an active session.    *)
LEMMA StartsOrStops ==
  ASSUME session' = session, session = "Active", StandsAs(clock, clock')
  PROVE  AbstractStep
<1>1. CASE (clock'.status = "Playing") <=> (clock.status = "Playing")
  BY <1>1, Stutters
<1>2. CASE ~((clock'.status = "Playing") <=> (clock.status = "Playing"))
  BY <1>2 DEF AbstractStep, Abstract!Next, Abstract!StartOrStop, Abstract!range, StandsAs, SameFrame
<1> QED
  BY <1>1, <1>2

(* A session that is dropped is given up.                                  *)
LEMMA Drops ==
  ASSUME DropSession
  PROVE  AbstractStep
BY DEF DropSession, NoClock, NewClock, AbstractStep, Abstract!Next, Abstract!GiveUp

(* A clock that lands paused in its range has jumped.                      *)
LEMMA Jumps ==
  ASSUME Fits', session' = session, session # "Idle",
         SameFrame(clock, clock'), clock'.step = clock.step, clock'.status # "Playing"
  PROVE  AbstractStep
<1>1. InRange(clock') /\ (session' = "Loading" => clock'.now = clock'.start)
  BY DEF Fits, ClockFitsSession, ClockOK
<1> QED
  BY <1>1 DEF InRange, SameFrame, AbstractStep, Abstract!Next, Abstract!Jump, Abstract!range

(* A session that begins stands at its start, in Loading or at once.       *)
LEMMA Begins ==
  ASSUME clock'.start <= clock'.end, clock'.now = clock'.start,
         \/ session' = "Loading" /\ clock'.status # "Playing"
         \/ session' = "Active" /\ clock'.status = "Playing"
  PROVE  AbstractStep
BY DEF AbstractStep, Abstract!Next, Abstract!Begin, Abstract!BeginEmpty

-----------------------------------------------------------------------------
(* The messages that seek.                                                 *)

(* seek_to jumps.                                                          *)
LEMMA SeekToJumps ==
  ASSUME Fits, Fits', session' = session, session # "Idle", NEW t, SeekTo(t)
  PROVE  AbstractStep
<1>1. clock \in Clock
  BY DEF Fits, TypeOK
<1>2. /\ SameFrame(clock, clock') /\ clock'.step = clock.step
      /\ clock'.status = "Paused"
  BY <1>1 DEF SeekTo, Seek, Pause, Disarmed, Clock, SameFrame
<1> QED
  BY <1>2, Jumps

(* An edit of a range input, and the two steps.                            *)
LEMMA SeekingMaps ==
  ASSUME Fits, Fits', Seeking
  PROVE  AbstractStep
<1>1. clock \in Clock /\ session' = session
  BY DEF Fits, TypeOK, Seeking, StartTimeChanged, EndTimeChanged, RangeInputChanged,
         StepForward, StepBackward
<1>2. CASE UNCHANGED clock
  BY <1>1, <1>2, Stutters DEF StandsAs, SameFrame
<1>3. ASSUME NEW t, SeekTo(t), session # "Idle" PROVE AbstractStep
  BY <1>1, <1>3, SeekToJumps
<1>4. ASSUME NEW t, IsPaused, clock' = Seek(clock, t) PROVE AbstractStep
  <2>1. /\ SameFrame(clock, clock') /\ clock'.step = clock.step
        /\ clock'.status = "Paused" /\ session # "Idle"
    BY <1>1, <1>4 DEF Seek, Clock, IsPaused, SameFrame
  <2> QED
    BY <1>1, <2>1, Jumps
<1> HIDE DEF AbstractStep
<1>5. ASSUME RangeInputChanged PROVE AbstractStep
  BY <1>2, <1>3, <1>5 DEF RangeInputChanged
<1>6. CASE StepForward
  BY <1>2, <1>3, <1>4, <1>6 DEF StepForward, IsPlaying
<1>7. CASE StepBackward
  BY <1>2, <1>3, <1>7 DEF StepBackward, IsPlaying
<1> QED
  BY <1>5, <1>6, <1>7 DEF Seeking, StartTimeChanged, EndTimeChanged

-----------------------------------------------------------------------------
(* The buttons that do not move the clock.                                 *)

(* Resume and Pause act on an active session only.                         *)
LEMMA ButtonsMap ==
  ASSUME Fits, Resume \/ PauseReplay
  PROVE  AbstractStep
<1>1. clock \in Clock
  BY DEF Fits, TypeOK
<1>2. session' = session /\ StandsAs(clock, clock')
  <2>1. StandsAs(clock, clock)
    BY DEF StandsAs, SameFrame
  <2> QED
    BY <1>1, <2>1, StandingStill DEF Resume, PauseReplay
<1>3. session # "Active" => clock' = clock
  BY DEF Resume, PauseReplay, IsPaused
<1> QED
  BY <1>2, <1>3, Stutters, StartsOrStops

(* The speed is a stutter.                                                 *)
LEMMA CycleSpeedMaps ==
  ASSUME Fits, CycleSpeed
  PROVE  AbstractStep
<1>1. clock \in Clock /\ session' = session
  BY DEF Fits, TypeOK, CycleSpeed
<1>2. CASE session = "Idle"
  BY <1>1, <1>2, Stutters DEF CycleSpeed, StandsAs, SameFrame
<1>3. CASE session # "Idle"
  <2> DEFINE s == NextSpeed(clock.speed)
  <2>1. clock' = SetSpeed(clock, s)
    BY <1>3 DEF CycleSpeed
  <2>2. CASE s <= 0
    <3>1. clock' = Pause(clock)
      BY <2>1, <2>2 DEF SetSpeed
    <3>2. StandsAs(clock, clock')
      BY <1>1, <3>1, StandingStill
    <3>3. CASE session = "Active"
      BY <1>1, <3>2, <3>3, StartsOrStops
    <3>4. CASE session # "Active"
      BY <1>1, <1>3, <3>1, <3>2, <3>4, PauseFacts, Stutters
      DEF Fits, TypeOK, ClockFitsSession
    <3> QED
      BY <3>3, <3>4
  <2>3. CASE ~(s <= 0)
    <3>1. clock' = [clock EXCEPT !.speed = s]
      BY <2>1, <2>3 DEF SetSpeed
    <3> QED
      BY <1>1, <3>1, Stutters DEF StandsAs, SameFrame, Clock
  <2> QED
    BY <2>2, <2>3
<1> QED
  BY <1>2, <1>3

-----------------------------------------------------------------------------
(* Time.                                                                   *)

(* tick() of the controller advances, stops or stands.                     *)
LEMMA TickMaps ==
  ASSUME Fits, NEW elapsed \in Nat, TickSession(elapsed)
  PROVE  AbstractStep
<1>1. /\ clock \in Clock /\ ClockOK(clock) /\ session' = session /\ session # "Idle"
      /\ clock' \in {clock, SetWaiting(clock), Tick(clock, elapsed)}
      /\ clock.status # "Playing" => clock' = clock
  BY TickKeeps DEF Fits, TypeOK, ClockFitsSession, TickSession, DispatchTick
<1>2. CASE clock' = clock
  BY <1>1, <1>2, Stutters DEF StandsAs, SameFrame
<1>3. CASE clock' # clock
  <2>1. clock.status = "Playing" /\ session = "Active"
    BY <1>1, <1>3 DEF Fits, TypeOK, ClockFitsSession
  <2>2. CASE clock' = SetWaiting(clock)
    BY <1>1, <2>1, <2>2, StandingStill, StartsOrStops
  <2>3. CASE clock' = Tick(clock, elapsed)
    <3>1. SameFrame(clock, clock') /\ clock'.step = clock.step
      BY <1>1, <2>1, <2>3, TickAdvances
    <3>2. CASE clock'.now = clock.now
      BY <1>1, <2>1, <3>1, <3>2, StartsOrStops DEF StandsAs
    <3>3. CASE /\ clock.now < clock'.now /\ clock'.now <= clock'.end
               /\ (clock'.status = "Playing") <=> (clock'.now < clock'.end)
      BY <1>1, <2>1, <3>1, <3>3
      DEF AbstractStep, Abstract!Next, Abstract!Advance, Abstract!range, SameFrame
    <3> QED
      BY <1>1, <2>1, <2>3, <3>2, <3>3, TickAdvances
  <2> QED
    BY <1>1, <1>3, <2>2, <2>3
<1> QED
  BY <1>2, <1>3

(* The step size of the streams snaps the time down.                       *)
LEMMA SyncMaps ==
  ASSUME Fits, SyncReplayBuffers
  PROVE  AbstractStep
<1>1. /\ clock \in Clock /\ ClockOK(clock) /\ active \in SUBSET Streams
      /\ session' = session
  BY DEF Fits, TypeOK, ClockFitsSession, SyncReplayBuffers
<1>2. CASE session = "Idle"
  BY <1>1, <1>2, Stutters DEF SyncReplayBuffers, StandsAs, SameFrame
<1>3. CASE session # "Idle"
  <2> DEFINE step == MinTimeframe(active)
             n == FloorTo(clock.start, step, clock.now)
  <2>1. step \in Nat \ {0}
    BY <1>1, MinTimeframeType
  <2>2. /\ clock.start \in Nat /\ clock.now \in Nat /\ clock.start <= clock.now
    BY <1>1 DEF Clock, ClockOK, InRange
  <2>3. clock' = [clock EXCEPT !.step = step, !.now = n]
    BY <1>3 DEF SyncReplayBuffers, SetStepSize
  <2> HIDE DEF step
  <2>4. n \in Nat /\ clock.start <= n /\ n <= clock.now /\ clock.now - n < step
    BY <2>1, <2>2, FloorToFacts, FloorToNear
  <2> HIDE DEF n
  <2> QED
    BY <1>1, <1>3, <2>3, <2>4
    DEF AbstractStep, Abstract!Next, Abstract!Snap, Abstract!range, Clock
<1> QED
  BY <1>2, <1>3

-----------------------------------------------------------------------------
(* Sessions that begin, are ready or are given up.                         *)

(* Play is refused, or begins a session.                                   *)
LEMMA PlayMaps ==
  ASSUME Fits, NEW range \in Ranges, HandlePlay(range)
  PROVE  AbstractStep
<1>1. CASE PlayRejected(range)
  BY <1>1, Stutters DEF PlayRejected, sessionVars, StandsAs, SameFrame
<1>2. CASE PlayAccepted(range)
  <2> DEFINE fresh == SetSpeed(NewClock(range.start, range.end, MinTimeframe(KlineStreams)),
                               KeptSpeed)
  <2>1. range.start \in Nat /\ range.end \in Nat /\ range.start < range.end
    BY <1>2, PlayableRange DEF PlayAccepted
  <2>2. KeptSpeed \in Nat \ {0}
    BY DEF KeptSpeed, Fits, TypeOK, Clock
  <2>3. /\ clock' \in {Play(fresh), SetWaiting(fresh)}
        /\ \/ session' = "Loading" /\ clock' = SetWaiting(fresh)
           \/ session' = "Active" /\ clock' = Play(fresh)
    BY <1>2 DEF PlayAccepted
  <2>4. clock'.start = range.start /\ clock'.end = range.end /\ clock'.now = range.start
    BY <2>2, <2>3, FreshStands
  <2>5. \/ session' = "Loading" /\ clock'.status # "Playing"
        \/ session' = "Active" /\ clock'.status = "Playing"
    BY <2>2, <2>3, FreshStands
  <2> QED
    BY <2>1, <2>4, <2>5, Begins
<1> QED
  BY <1>1, <1>2 DEF HandlePlay

(* A reload is ignored, or begins the session anew.                        *)
LEMMA ReloadMaps ==
  ASSUME Fits, Fits', NEW m, ReloadKlineStream(m)
  PROVE  AbstractStep
<1>1. CASE ReloadIgnored
  BY <1>1, Stutters DEF ReloadIgnored, sessionVars, StandsAs, SameFrame
<1>2. CASE ReloadStarted(m)
  <2>1. session' = "Loading"
    BY <1>2 DEF ReloadStarted
  <2>2. AtStart(clock')
    BY <2>1 DEF Fits, TypeOK, ClockFitsSession, AtStart
  <2> QED
    BY <2>1, <2>2, Begins DEF AtStart, ClockOK, InRange
<1> QED
  BY <1>1, <1>2 DEF ReloadKlineStream

(* A load that completes is the last one, one of several, or late.         *)
LEMMA LoadMaps ==
  ASSUME Fits, NEW l, KlinesLoadCompleted(l)
  PROVE  AbstractStep
<1>1. clock \in Clock
  BY DEF Fits, TypeOK
<1>2. CASE session = "Loading" /\ Activate
  <2>1. StandsAs(clock, clock)
    BY DEF StandsAs, SameFrame
  <2>2. StandsAs(clock, clock')
    BY <1>1, <1>2, <2>1, StandingStill DEF Activate, ResumeFromWaiting
  <2>3. (clock'.status = "Playing") \in BOOLEAN
    OBVIOUS
  <2> QED
    BY <1>2, <2>2, <2>3
    DEF Activate, AbstractStep, Abstract!Next, Abstract!Ready, Abstract!range, StandsAs, SameFrame
<1>3. CASE UNCHANGED <<session, clock>>
  BY <1>3, Stutters DEF StandsAs, SameFrame
<1> QED
  BY <1>2, <1>3 DEF KlinesLoadCompleted

-----------------------------------------------------------------------------
(* Every step of the controller is one of Playback's, or a stutter.        *)
LEMMA StepMaps == Fits /\ Fits' /\ [Next]_vars => AbstractStep
<1> SUFFICES ASSUME Fits, Fits', [Next]_vars PROVE AbstractStep
  OBVIOUS
<1> HIDE DEF AbstractStep
<1>1. CASE PlayAsked
  <2>1. rangeInput \in Ranges
    BY DEF Fits, TypeOK
  <2> QED
    BY <1>1, <2>1, PlayMaps DEF PlayAsked, UserPlay, QueuedPlay, ApiPlay, AskForPlay
<1>2. CASE ToggleMode
  <2>1. CASE ToggleToReplay
    BY <2>1, Stutters DEF ToggleToReplay, sessionVars, StandsAs, SameFrame
  <2>2. CASE ToggleToLive
    BY <2>2, Drops DEF ToggleToLive, ResetSession
  <2> QED
    BY <1>2, <2>1, <2>2 DEF ToggleMode
<1>3. CASE Seeking
  BY <1>3, SeekingMaps
<1>4. CASE Resume \/ PauseReplay
  BY <1>4, ButtonsMap
<1>5. CASE CycleSpeed
  BY <1>5, CycleSpeedMaps
<1>6. ASSUME NEW p \in Panes, NEW s \in Streams \cup {NoStream}, ChangeBasis(p, s)
      PROVE  AbstractStep
  BY <1>6, Stutters DEF ChangeBasis, sessionVars, StandsAs, SameFrame
<1>7. CASE LoadFinishes
  <2>1. ASSUME NEW l, DataLoadFailed(l) PROVE AbstractStep
    BY <2>1, Drops DEF DataLoadFailed, ResetSession
  <2> QED
    BY <1>7, <2>1, LoadMaps DEF LoadFinishes
<1>8. CASE Reloading
  BY <1>8, ReloadMaps DEF Reloading
<1>9. CASE SyncReplayBuffers
  BY <1>9, SyncMaps
<1>10. CASE Frame \/ StatusPoll
  <2>1. \A elapsed \in 1 .. MaxLag : elapsed \in Nat
    BY SessionAssumption
  <2> QED
    BY <1>10, <2>1, TickMaps DEF Frame, StatusPoll, TickReplay, GetStatus
<1>11. CASE FireAutoPlay \/ SessionUnavailable \/ UNCHANGED vars
  BY <1>11, Stutters
  DEF FireAutoPlay, SessionUnavailable, vars, sessionVars, StandsAs, SameFrame
<1>12. CASE User
  BY <1>1, <1>2, <1>3, <1>4, <1>5, <1>6, <1>12 DEF User, PlayAsked, Seeking
<1>13. CASE QueuedPlay
  BY <1>1, <1>13 DEF PlayAsked
<1> QED
  BY <1>7, <1>8, <1>9, <1>10, <1>11, <1>12, <1>13 DEF Next

(* No session, no time.                                                    *)
LEMMA InitMaps == Init => Abstract!Init
BY DEF Init, NoClock, NewClock, Abstract!Init

(* The controller's session is a Playback (handle_user_message,            *)
(* handle_load_event, handle_system_event and tick, over ReplayState).     *)
THEOREM SessionImplementsPlayback == Spec => ImplementsPlayback
<1>1. Fits /\ Fits' /\ [Next]_vars => [Abstract!Next]_(Abstract!pvars)
  BY StepMaps DEF AbstractStep
<1> QED
  BY <1>1, InitMaps, FitsInit, FitsStep, PTL DEF Spec, ImplementsPlayback, Abstract!Spec

-----------------------------------------------------------------------------
(* 4. The charts have kept up with the clock.                              *)

(* Once a session exists all charts are replay charts.                     *)
ChartsReplay == session # "Idle" => \A p \in Panes : charts[p].replay

(* PlaybackSkipsNoBar is not inductive by itself: a pane whose basis       *)
(* changes asks for a reload only if its chart is a replay chart, and what *)
(* makes the charts replay charts is that sessions exist in Replay mode    *)
(* only.                                                                   *)
SkipInv ==
  /\ Fits /\ PlaybackSkipsNoBar
  /\ mode = "Live" => session = "Idle"
  /\ ChartsReplay

(* Adjacent windows of klines cover the window they make up.               *)
LEMMA KlinesBetween ==
  ASSUME NEW s \in Streams, NEW from \in Nat, NEW mid \in Nat, NEW until \in Nat
  PROVE  /\ KlinesIn(s, from, until) \subseteq KlinesIn(s, from, mid) \cup KlinesIn(s, mid, until)
         /\ until <= mid => KlinesIn(s, from, until) \subseteq KlinesIn(s, from, mid)
         /\ KlinesIn(s, from, until) \subseteq KlinesIn(s, 0, until)
<1>1. \A f, u : \A b \in KlinesIn(s, f, u) : b \in Nat
  BY BarsAreTimes
<1>2. \A b \in KlinesIn(s, from, until) : b \in StoredBars(s) /\ from <= b /\ b < until /\ b \in Nat
  BY <1>1 DEF KlinesIn
<1>3. \A b \in KlinesIn(s, from, until) :
        /\ b < mid => b \in KlinesIn(s, from, mid)
        /\ mid <= b => b \in KlinesIn(s, mid, until)
        /\ b \in KlinesIn(s, 0, until)
  BY <1>2 DEF KlinesIn
<1> QED
  BY <1>2, <1>3

(* The window a chart has to fill has not grown, and the chart has kept    *)
(* its bars.                                                               *)
LEMMA StillCaughtUp ==
  ASSUME Fits, Fits', PlaybackSkipsNoBar, UNCHANGED <<session, store, active, panes>>,
         reloads \subseteq reloads',
         clock'.start = clock.start, clock'.now <= clock.now,
         \A p \in Panes : charts[p].bars \subseteq charts'[p].bars
  PROVE  PlaybackSkipsNoBar'
<1> SUFFICES ASSUME session = "Active", NEW p \in Panes, panes[p] \in active, ~AwaitsReload(p)'
             PROVE  KlinesIn(panes[p], clock.start, clock'.now) \subseteq charts'[p].bars
  BY DEF PlaybackSkipsNoBar, KlinesIn, StoredBars
<1>1. ~AwaitsReload(p)
  BY DEF AwaitsReload
<1>2. KlinesIn(panes[p], clock.start, clock.now) \subseteq charts[p].bars
  BY <1>1 DEF PlaybackSkipsNoBar
<1>3. panes[p] \in Streams /\ clock.start \in Nat /\ clock.now \in Nat /\ clock'.now \in Nat
  <2>1. clock' \in Clock
    BY DEF Fits, TypeOK
  <2> QED
    BY <2>1, SightFacts DEF Clock
<1>4. KlinesIn(panes[p], clock.start, clock'.now) \subseteq KlinesIn(panes[p], clock.start, clock.now)
  BY <1>3, KlinesBetween
<1> QED
  BY <1>2, <1>4

(* What was missing has been added.                                        *)
LEMMA NowCaughtUp ==
  ASSUME Fits, Fits', UNCHANGED <<session, store, active, panes>>, clock'.start = clock.start,
         \A p \in Panes : panes[p] \in active => KlinesIn(panes[p], clock.start, clock'.now) \subseteq charts'[p].bars
  PROVE  PlaybackSkipsNoBar'
BY DEF PlaybackSkipsNoBar, KlinesIn, StoredBars

(* inject_klines_up_to shows all there is up to its target.                *)
LEMMA InjectCatchesUp ==
  ASSUME Fits, NEW chs \in [Panes -> Chart], NEW t \in Nat, NEW now \in Nat,
         now = clock.start \/ now <= t, NEW p \in Panes, panes[p] \in active
  PROVE  KlinesIn(panes[p], clock.start, now) \subseteq Inject(chs, t)[p].bars
<1>1. panes[p] \in Streams /\ clock.start \in Nat /\ chs[p] \in Chart
  BY SightFacts
<1>2. Inject(chs, t)[p].bars = chs[p].bars \cup KlinesIn(panes[p], 0, t + 1)
  BY <1>1, ShownBars DEF Inject
<1>3. ASSUME NEW b \in KlinesIn(panes[p], clock.start, now)
      PROVE  b \in KlinesIn(panes[p], 0, t + 1)
  <2>1. b \in StoredBars(panes[p]) /\ clock.start <= b /\ b < now /\ b \in Nat
    BY <1>1, BarsAreTimes DEF KlinesIn
  <2> QED
    BY <1>1, <2>1 DEF KlinesIn
<1> QED
  BY <1>2, <1>3

(* A seek empties the charts and fills them up to the target.              *)
LEMMA SeekToCatchesUp ==
  ASSUME Fits, Fits', NEW t \in Nat, SeekTo(t), UNCHANGED <<session, store, active, panes>>
  PROVE  PlaybackSkipsNoBar' /\ \A p \in Panes : charts'[p].replay
<1> DEFINE c == Pause(clock)
<1>1. c \in Clock /\ ClockOK(c) /\ c.start = clock.start
  BY SightFacts, PauseOK, PauseFacts
<1>2. clock' = Seek(c, t) /\ charts' = Inject(EmptyCharts(TRUE), t)
  BY DEF SeekTo
<1> HIDE DEF c
<1>3. clock'.start = clock.start /\ (clock'.now = clock.start \/ clock'.now <= t) /\ clock'.now \in Nat
  <2>1. clock' \in Clock
    BY DEF Fits, TypeOK
  <2> QED
    BY <1>1, <1>2, <2>1, SeekUpTo DEF Clock
<1>4. EmptyCharts(TRUE) \in [Panes -> Chart]
  BY DEF EmptyCharts, Chart
<1>5. ASSUME NEW p \in Panes, panes[p] \in active
      PROVE  KlinesIn(panes[p], clock.start, clock'.now) \subseteq charts'[p].bars
  <2> DEFINE now == clock'.now
  <2>1. now \in Nat /\ (now = clock.start \/ now <= t)
    BY <1>3
  <2> HIDE DEF now
  <2>2. KlinesIn(panes[p], clock.start, now) \subseteq Inject(EmptyCharts(TRUE), t)[p].bars
    BY <1>4, <1>5, <2>1, InjectCatchesUp
  <2> QED
    BY <1>2, <2>2 DEF now
<1>7. PlaybackSkipsNoBar'
  <2>1. \A p \in Panes : panes[p] \in active
            => KlinesIn(panes[p], clock.start, clock'.now) \subseteq charts'[p].bars
    BY <1>5
  <2>2. clock'.start = clock.start
    BY <1>3
  <2> HIDE DEF PlaybackSkipsNoBar
  <2> QED
    BY ONLY Fits, Fits', UNCHANGED <<session, store, active, panes>>, <2>1, <2>2, NowCaughtUp
<1>6. \A p \in Panes : charts'[p].replay
  BY <1>2 DEF Inject, EmptyCharts, Shown
<1> QED
  BY <1>6, <1>7

(* A frame shows the bars of the time it passes, no more and no fewer      *)
(* (dispatch_tick).                                                        *)
LEMMA TickCatchesUp ==
  ASSUME Fits, Fits', PlaybackSkipsNoBar, NEW elapsed \in Nat, TickSession(elapsed)
  PROVE  PlaybackSkipsNoBar' /\ (ChartsReplay => ChartsReplay')
<1>1. UNCHANGED <<session, store, active, panes, reloads>>
  BY DEF TickSession, inFlight
<1> DEFINE c == Tick(clock, elapsed)
<1>2. CASE clock' \in {clock, SetWaiting(clock)} /\ UNCHANGED charts
  <2>1. clock'.start = clock.start /\ clock'.now = clock.now
    BY <1>2, SightFacts, StandingStill DEF StandsAs, SameFrame
  <2>2. PlaybackSkipsNoBar'
    BY <1>1, <1>2, <2>1, SightFacts, StillCaughtUp
  <2> QED
    BY <1>1, <1>2, <2>2 DEF ChartsReplay
<1>3. CASE /\ clock' = c
           /\ charts' = [p \in Panes |->
                  IF panes[p] \in active
                    THEN Shown(charts[p], KlinesIn(panes[p], clock.now, c.now))
                    ELSE charts[p]]
  <2>1. clock.now <= c.now
    BY SightFacts, TickMoves
  <2>2. c.start = clock.start
    BY SightFacts DEF Tick, Stop, Pause, Disarmed, Clock
  <2>3. c \in Clock /\ c.now \in Nat
    BY SightFacts, TickOK DEF Clock
  <2> HIDE DEF c
  <2>4. charts \in [Panes -> Chart] /\ clock.now \in Nat /\ clock.start \in Nat /\ active \subseteq Streams
    BY SightFacts
  <2>5. \A p \in Panes : panes[p] \in active =>
          charts'[p].bars = charts[p].bars \cup KlinesIn(panes[p], clock.now, c.now)
    BY <1>3, <2>4, ShownBars
  <2>6. \A p \in Panes : charts[p].replay => charts'[p].replay
    BY <1>3 DEF Shown
  <2>8. clock'.now = c.now /\ clock'.start = clock.start
    BY <1>3, <2>2
  <2>7. PlaybackSkipsNoBar'
    <3> SUFFICES ASSUME session = "Active", NEW p \in Panes, panes[p] \in active, ~AwaitsReload(p)'
                 PROVE  KlinesIn(panes[p], clock.start, c.now) \subseteq charts'[p].bars
      BY <1>1, <2>8 DEF PlaybackSkipsNoBar, KlinesIn, StoredBars
    <3>1. ~AwaitsReload(p)
      BY <1>1 DEF AwaitsReload
    <3>2. KlinesIn(panes[p], clock.start, clock.now) \subseteq charts[p].bars
      BY <3>1 DEF PlaybackSkipsNoBar
    <3>3. KlinesIn(panes[p], clock.start, c.now)
            \subseteq KlinesIn(panes[p], clock.start, clock.now) \cup KlinesIn(panes[p], clock.now, c.now)
      BY <2>3, <2>4, KlinesBetween
    <3> QED
      BY <2>5, <3>2, <3>3
  <2> QED
    BY <1>1, <2>6, <2>7 DEF ChartsReplay
<1>4. \/ clock' \in {clock, SetWaiting(clock)} /\ UNCHANGED charts
      \/ /\ clock' = c
         /\ charts' = [p \in Panes |->
                  IF panes[p] \in active
                    THEN Shown(charts[p], KlinesIn(panes[p], clock.now, c.now))
                    ELSE charts[p]]
  BY DEF TickSession, DispatchTick
<1> QED
  BY <1>2, <1>3, <1>4

(* A step forward does too: it injects up to where it stops.               *)
LEMMA ForwardCatchesUp ==
  ASSUME Fits, Fits', PlaybackSkipsNoBar, ChartsReplay, StepForward
  PROVE  PlaybackSkipsNoBar' /\ ChartsReplay'
<1>0. UNCHANGED <<session, store, active, panes, reloads>>
  BY DEF StepForward, inFlight
<1> DEFINE next == clock.now + MinTimeframe(active)
<1>1. CASE SeekTo(clock.end)
  BY <1>0, <1>1, SightFacts, SeekToCatchesUp DEF ChartsReplay
<1>2. CASE clock' = Seek(clock, next) /\ charts' = Inject(charts, next)
  <2>1. next \in Nat
    BY SightFacts, MinTimeframeType
  <2> HIDE DEF next
  <2>2. clock' \in Clock
    BY DEF Fits, TypeOK
  <2>3. clock'.start = clock.start /\ (clock'.now = clock.start \/ clock'.now <= next) /\ clock'.now \in Nat
    BY <1>2, <2>1, <2>2, SightFacts, SeekUpTo DEF Clock
  <2>4. PlaybackSkipsNoBar'
    BY <1>0, <1>2, <2>1, <2>3, SightFacts, InjectCatchesUp, NowCaughtUp
  <2>5. \A p \in Panes : charts[p].replay => charts'[p].replay
    BY <1>2 DEF Inject, Shown
  <2> QED
    BY <1>0, <2>4, <2>5 DEF ChartsReplay
<1>3. CASE UNCHANGED <<clock, charts>>
  BY <1>0, <1>3, SightFacts, StillCaughtUp DEF ChartsReplay
<1> QED
  BY <1>1, <1>2, <1>3 DEF StepForward

(* A load that completes fills the charts up to the clock when it starts   *)
(* the session.                                                            *)
LEMMA LoadCatchesUp ==
  ASSUME Fits, Fits', PlaybackSkipsNoBar, ChartsReplay, NEW l, KlinesLoadCompleted(l)
  PROVE  PlaybackSkipsNoBar' /\ ChartsReplay'
<1>1. charts \in [Panes -> Chart] /\ UNCHANGED <<active, panes, reloads>> /\ charts' = HistoryShown(l)
  BY SightFacts DEF KlinesLoadCompleted
<1>2. \A p \in Panes : /\ charts[p].replay => charts'[p].replay
                       /\ charts[p].bars \subseteq charts'[p].bars
  <2> TAKE p \in Panes
  <2>1. charts[p] \in Chart
    BY <1>1
  <2>2. \/ charts'[p] = charts[p]
        \/ \E bars : charts'[p] = Shown(charts[p], bars)
    BY <1>1 DEF HistoryShown
  <2>3. \A bars : /\ charts[p].replay => Shown(charts[p], bars).replay
                  /\ charts[p].bars \subseteq Shown(charts[p], bars).bars
    BY <2>1, ShownBars DEF Shown
  <2> QED
    BY <2>2, <2>3
<1>3. CASE session # "Loading"
  <2>1. UNCHANGED <<session, clock, store>>
    BY <1>3 DEF KlinesLoadCompleted
  <2> QED
    BY <1>1, <1>2, <2>1, SightFacts, StillCaughtUp DEF ChartsReplay
<1>4. CASE session = "Loading"
  <2>1. ChartsReplay'
    BY <1>2, <1>4 DEF ChartsReplay
  <2>2. AtStart(clock)
    BY <1>4, LoadingAtStart
  <2>3. clock'.now = clock.now /\ clock'.start = clock.start
    <3>1. clock' \in {clock, ResumeFromWaiting(clock), Play(ResumeFromWaiting(clock))}
      BY <1>4 DEF KlinesLoadCompleted, Activate
    <3> QED
      BY <3>1, SightFacts, StandingStill DEF StandsAs, SameFrame
  <2>4. clock'.now = clock'.start
    BY <2>2, <2>3 DEF AtStart
  <2>5. \A s \in Streams : KlinesIn(s, clock.start, clock.now)' = {}
    <3>1. clock'.start \in Nat /\ clock'.now \in Nat
      BY <2>3, SightFacts
    <3> SUFFICES ASSUME NEW s \in Streams, NEW b \in StoredBars(s)', clock'.start <= b, b < clock'.now
                 PROVE  FALSE
      BY DEF KlinesIn
    <3>2. b \in Nat
      BY SessionAssumption DEF StoredBars, Fetched
    <3> QED
      BY <2>4, <3>1, <3>2
  <2>6. \A s \in active : s \in Streams
    BY SightFacts
  <2>7. PlaybackSkipsNoBar'
    BY <1>1, <2>5, <2>6 DEF PlaybackSkipsNoBar
  <2> QED
    BY <2>1, <2>7
<1> QED
  BY <1>3, <1>4

(* A pane given another basis has its reload on the way.                   *)
LEMMA BasisCatchesUp ==
  ASSUME Fits, Fits', PlaybackSkipsNoBar, ChartsReplay,
         NEW p \in Panes, NEW s \in Streams \cup {NoStream}, ChangeBasis(p, s)
  PROVE  PlaybackSkipsNoBar' /\ ChartsReplay'
<1>1. /\ UNCHANGED <<session, clock, store, active>> /\ reloads \subseteq reloads'
      /\ panes' = [panes EXCEPT ![p] = s]
      /\ charts' = [charts EXCEPT ![p].bars = {}]
  BY DEF ChangeBasis, sessionVars
<1>2. charts \in [Panes -> Chart] /\ panes \in [Panes -> Streams \cup {NoStream}]
  BY SightFacts DEF Fits, TypeOK
<1>3. ChartsReplay'
  BY <1>1, <1>2 DEF ChartsReplay, Chart
<1>4. ASSUME session = "Active", NEW q \in Panes, panes'[q] \in active, ~AwaitsReload(q)'
      PROVE  KlinesIn(panes'[q], clock.start, clock.now) \subseteq charts'[q].bars
  <2>1. CASE q = p
    <3>1. s \in Streams /\ panes'[p] = s
      BY <1>1, <1>2, <1>4, <2>1, SightFacts
    <3>2. charts[p].replay /\ s # NoStream
      BY <1>4, <3>1, SessionAssumption DEF ChartsReplay
    <3>3. reloads' = reloads \cup {[old |-> panes[p], new |-> s]}
      BY <3>2 DEF ChangeBasis
    <3>4. [old |-> panes[p], new |-> s].new = panes'[q]
      BY <2>1, <3>1
    <3>5. AwaitsReload(q)'
      BY <3>3, <3>4 DEF AwaitsReload
    <3> QED
      BY <1>4, <3>5
  <2>2. CASE q # p
    <3>1. panes'[q] = panes[q] /\ charts'[q] = charts[q]
      BY <1>1, <1>2, <2>2
    <3>2. ~AwaitsReload(q)
      BY <1>1, <1>4, <3>1 DEF AwaitsReload
    <3> QED
      BY <1>4, <3>1, <3>2 DEF PlaybackSkipsNoBar
  <2> QED
    BY <2>1, <2>2
<1>5. PlaybackSkipsNoBar'
  BY <1>1, <1>4 DEF PlaybackSkipsNoBar, KlinesIn, StoredBars
<1> QED
  BY <1>3, <1>5

(* A new session has no bars to show before its data is loaded.            *)
LEMMA PlayCatchesUp ==
  ASSUME Fits, PlaybackSkipsNoBar, ChartsReplay, NEW range, HandlePlay(range)
  PROVE  PlaybackSkipsNoBar' /\ ChartsReplay'
<1>0. UNCHANGED <<panes, reloads>>
  BY DEF HandlePlay
<1>1. CASE PlayRejected(range)
  BY <1>0, <1>1 DEF PlayRejected, sessionVars, PlaybackSkipsNoBar, ChartsReplay, AwaitsReload,
                    KlinesIn, StoredBars
<1>2. CASE PlayAccepted(range)
  <2>1. session' = "Loading" \/ active' = {}
    BY <1>2 DEF PlayAccepted
  <2>2. charts' = EmptyCharts(TRUE)
    BY <1>2 DEF PlayAccepted
  <2> QED
    BY <2>1, <2>2 DEF PlaybackSkipsNoBar, ChartsReplay, EmptyCharts
<1> QED
  BY <1>1, <1>2 DEF HandlePlay

(* Every step of SafeSpec preserves the invariant.                         *)
LEMMA SkipStep == SkipInv /\ [SafeNext]_vars => SkipInv'
<1> SUFFICES ASSUME SkipInv, [SafeNext]_vars
             PROVE  SkipInv'
  OBVIOUS
<1>0. /\ Fits /\ PlaybackSkipsNoBar /\ ChartsReplay
      /\ mode = "Live" => session = "Idle"
      /\ [Next]_vars
  BY DEF SkipInv, SafeNext
<1>1. Fits'
  BY <1>0, FitsStep
<1>2. mode' = "Live" => session' = "Idle"
  BY <1>0 DEF SafeNext, vars, inputVars, sessionVars
<1> SUFFICES PlaybackSkipsNoBar' /\ ChartsReplay'
  BY <1>1, <1>2 DEF SkipInv
<1>3. ASSUME session' = "Idle" PROVE PlaybackSkipsNoBar' /\ ChartsReplay'
  BY <1>3 DEF PlaybackSkipsNoBar, ChartsReplay
<1>4. ASSUME NEW t \in Nat, SeekTo(t), UNCHANGED <<session, store, active, panes>>
      PROVE  PlaybackSkipsNoBar' /\ ChartsReplay'
  BY <1>0, <1>1, <1>4, SeekToCatchesUp DEF ChartsReplay
<1>5. ASSUME UNCHANGED <<session, store, active, panes, charts>>, reloads \subseteq reloads',
             clock'.start = clock.start, clock'.now <= clock.now
      PROVE  PlaybackSkipsNoBar' /\ ChartsReplay'
  BY <1>0, <1>1, <1>5, StillCaughtUp DEF ChartsReplay
<1>6. CASE ToggleMode
  <2>1. session' = "Idle"
    BY <1>0, <1>6 DEF ToggleMode, ToggleToReplay, ToggleToLive, ResetSession, DropSession, sessionVars
  <2> QED
    BY <1>3, <2>1
<1>7. CASE RangeInputChanged
  <2>1. CASE session = "Idle"
    BY <1>3, <1>7, <2>1 DEF RangeInputChanged
  <2>2. CASE session # "Idle"
    BY <1>4, <1>7, <2>2, SightFacts, <1>0 DEF RangeInputChanged
  <2> QED
    BY <2>1, <2>2
<1>8. CASE StepBackward
  <2>1. UNCHANGED <<session, store, active, panes, reloads>>
    BY <1>8 DEF StepBackward, inFlight
  <2>2. CASE UNCHANGED <<clock, charts>>
    BY <1>0, <1>5, <2>1, <2>2, SightFacts
  <2> QED
    BY <1>0, <1>4, <1>8, <2>1, <2>2, SightFacts, StepBackTargetType DEF StepBackward
<1>9. CASE StepForward
  BY <1>0, <1>1, <1>9, ForwardCatchesUp
<1>10. CASE Resume \/ PauseReplay
  <2>1. /\ clock' \in {clock, Play(clock), Pause(clock)}
        /\ UNCHANGED <<session, store, active, panes, charts, reloads>>
    BY <1>10 DEF Resume, PauseReplay, inFlight
  <2>2. clock'.start = clock.start /\ clock'.now = clock.now
    BY <1>0, <2>1, SightFacts, StandingStill DEF StandsAs, SameFrame
  <2> QED
    BY <1>0, <1>5, <2>1, <2>2, SightFacts
<1>11. CASE CycleSpeed
  <2>1. /\ clock' \in {clock, Pause(clock)} \/ \E s : clock' = [clock EXCEPT !.speed = s]
        /\ UNCHANGED <<session, store, active, panes, charts, reloads>>
    BY <1>11 DEF CycleSpeed, SetSpeed, inFlight
  <2>2. Pause(clock).start = clock.start /\ Pause(clock).now = clock.now
    BY <1>0, SightFacts, PauseFacts
  <2>3. clock'.start = clock.start /\ clock'.now = clock.now
    BY <1>0, <2>1, <2>2, SightFacts DEF Clock
  <2> QED
    BY <1>0, <1>5, <2>1, <2>3, SightFacts
<1>12. ASSUME NEW p \in Panes, NEW s \in Streams \cup {NoStream}, ChangeBasis(p, s)
       PROVE  PlaybackSkipsNoBar' /\ ChartsReplay'
  BY <1>0, <1>1, <1>12, BasisCatchesUp
<1>13. CASE LoadFinishes
  <2>1. ASSUME NEW l, DataLoadFailed(l) PROVE session' = "Idle"
    BY <2>1 DEF DataLoadFailed, ResetSession, DropSession
  <2> QED
    BY <1>0, <1>1, <1>3, <1>13, <2>1, LoadCatchesUp DEF LoadFinishes
<1>14. CASE Reloading
  <2>1. PICK m \in reloads : ReloadKlineStream(m)
    BY <1>14 DEF Reloading
  <2>2. CASE ReloadIgnored
    <3>1. session' = session /\ session # "Active" /\ charts' = charts
      BY <2>2 DEF ReloadIgnored, sessionVars
    <3> QED
      BY <1>0, <3>1 DEF PlaybackSkipsNoBar, ChartsReplay
  <2>3. CASE ReloadStarted(m)
    <3>1. session' = "Loading" /\ charts' = EmptyCharts(TRUE)
      BY <2>3 DEF ReloadStarted
    <3> QED
      BY <3>1 DEF PlaybackSkipsNoBar, ChartsReplay, EmptyCharts
  <2> QED
    BY <2>1, <2>2, <2>3 DEF ReloadKlineStream
<1>15. CASE SyncReplayBuffers
  <2>1. /\ clock' \in {clock, SetStepSize(clock, MinTimeframe(active))}
        /\ UNCHANGED <<session, store, active, panes, charts, reloads>>
    BY <1>15 DEF SyncReplayBuffers, inFlight
  <2>2. MinTimeframe(active) \in Nat \ {0}
    BY <1>0, SightFacts, MinTimeframeType
  <2>3. FloorTo(clock.start, MinTimeframe(active), clock.now) <= clock.now
    BY <1>0, <2>2, SightFacts, FloorToFacts
  <2>4. /\ clock \in Clock /\ clock.now \in Nat
        /\ SetStepSize(clock, MinTimeframe(active)).start = clock.start
        /\ SetStepSize(clock, MinTimeframe(active)).now
             = FloorTo(clock.start, MinTimeframe(active), clock.now)
    BY <1>0, SightFacts DEF SetStepSize, Clock
  <2>5. clock'.start = clock.start /\ clock'.now <= clock.now
    BY <2>1, <2>3, <2>4
  <2> QED
    BY <1>5, <2>1, <2>5
<1>16. CASE Frame \/ StatusPoll
  <2>1. \A elapsed \in 1 .. MaxLag : elapsed \in Nat
    BY SessionAssumption
  <2> QED
    BY <1>0, <1>1, <1>16, <2>1, TickCatchesUp DEF Frame, StatusPoll, TickReplay, GetStatus
<1>17. CASE FireAutoPlay \/ SessionUnavailable \/ UNCHANGED vars
  <2>1. UNCHANGED <<session, clock, store, active, panes, charts, reloads>>
    BY <1>17 DEF FireAutoPlay, SessionUnavailable, vars, sessionVars, inFlight
  <2> QED
    BY <1>0, <1>5, <2>1, SightFacts
<1>18. CASE UserPlay \/ QueuedPlay \/ \E range \in Ranges : ApiPlay(range)
  BY <1>0, <1>18, PlayCatchesUp DEF UserPlay, QueuedPlay, ApiPlay, AskForPlay
<1>19. CASE User
  BY <1>6, <1>7, <1>8, <1>9, <1>10, <1>11, <1>12, <1>18, <1>19
  DEF User, StartTimeChanged, EndTimeChanged
<1> QED
  BY <1>0, <1>13, <1>14, <1>15, <1>16, <1>17, <1>18, <1>19 DEF Next

(* The controller: while a session is active, every pane that shows an     *)
(* active stream has all the bars stored for it between the start of the   *)
(* range and the virtual time, except while its reload is on the way.      *)
(* SafeSpec leaves out the sessions that the HTTP command Play starts in   *)
(* Live mode.                                                              *)
THEOREM SessionSkipsNoBar == SafeSpec => []PlaybackSkipsNoBar
<1>1. Init => SkipInv
  BY FitsInit DEF Init, SkipInv, PlaybackSkipsNoBar, ChartsReplay
<1>2. SkipInv => PlaybackSkipsNoBar
  BY DEF SkipInv
<1> QED
  BY <1>1, <1>2, SkipStep, PTL DEF SafeSpec
-----------------------------------------------------------------------------
(* B holds the books between the on_tick calls of a step forward, the      *)
(* recursion of Ticked written out.                                        *)
AreTicked(B, b, closes, now) ==
  /\ B[0] = b
  /\ \A i \in 1 .. Len(closes) : B[i] = OnTick(B[i - 1], Ticker, <<closes[i]>>, now)

(* The recursion of Ticked defines a function.                             *)
LEMMA TickedDef ==
  ASSUME NEW b, NEW closes, Len(closes) \in Nat, NEW now
  PROVE  AreTicked(Ticked(b, closes, now), b, closes, now)
<1> DEFINE n == Len(closes)
           One(w, i) == OnTick(w, Ticker, <<closes[i]>>, now)
           Graph(f, k) == f = [i \in 0 .. k |-> IF i = 0 THEN b ELSE One(f[i - 1], i)]
           S == {k \in 0 .. n : \E f : Graph(f, k)}
<1>0. n \in Nat
  OBVIOUS
<1>1. Ticked(b, closes, now) = CHOOSE B : Graph(B, n)
  BY DEF Ticked
<1> HIDE DEF One, n
<1>2. 0 \in S
  <2>1. Graph([i \in 0 .. 0 |-> b], 0)
    OBVIOUS
  <2> HIDE DEF Graph
  <2>2. \E f : Graph(f, 0)
    BY <2>1
  <2> QED
    BY <1>0, <2>2
<1>3. ASSUME NEW k \in 0 .. n - 1, k \in S
      PROVE  k + 1 \in S
  <2>1. PICK f : Graph(f, k)
    BY <1>3
  <2> DEFINE g == [i \in 0 .. k + 1 |-> IF i = k + 1 THEN One(f[k], k + 1) ELSE f[i]]
  <2>2. \A i \in 0 .. k : g[i] = f[i]
    BY <1>0
  <2>3. g[k + 1] = One(f[k], k + 1) /\ k + 1 # 0
    BY <1>0
  <2>4. ASSUME NEW i \in 0 .. k + 1
        PROVE  g[i] = IF i = 0 THEN b ELSE One(g[i - 1], i)
    <3>1. CASE i = k + 1
      BY <1>0, <2>2, <2>3, <3>1
    <3>2. CASE i # k + 1
      <4>1. i \in 0 .. k /\ (i # 0 => i - 1 \in 0 .. k)
        BY <1>0, <3>2
      <4>2. f[i] = IF i = 0 THEN b ELSE One(f[i - 1], i)
        BY <2>1, <4>1
      <4> HIDE DEF g
      <4> QED
        BY <2>2, <4>1, <4>2
    <3> QED
      BY <3>1, <3>2
  <2>5. Graph(g, k + 1)
    BY <2>4
  <2> HIDE DEF g, Graph
  <2>6. \E h : Graph(h, k + 1)
    BY <2>5
  <2> QED
    BY <1>0, <2>6
<1>4. n \in S
  <2> HIDE DEF S
  <2>1. 0 .. n \subseteq S
    BY <1>0, <1>2, <1>3, SetInduction
  <2> QED
    BY <1>0, <2>1
<1> DEFINE B == CHOOSE B : Graph(B, n)
<1>5. Graph(B, n)
  BY <1>4
<1> HIDE DEF B
<1>6. B[0] = b /\ \A i \in 1 .. n : B[i] = One(B[i - 1], i)
  BY <1>0, <1>5
<1> QED
  BY <1>1, <1>6 DEF B, One, n, AreTicked

(* A sound book is sound later.                                            *)
LEMMA SoundLater ==
  ASSUME NEW t \in Nat, NEW b, Sound(b, t), NEW now \in Nat, t <= now
  PROVE  Sound(b, now)
<1>1. b.positions \in Seq(Position)
  BY DEF Sound, Book
<1>2. ASSUME NEW i \in DOMAIN b.positions, NEW j \in DOMAIN b.positions
      PROVE  /\ b.positions[i].since <= now
             /\ i < j => b.positions[i].since <= b.positions[j].since
  <2>1. b.positions[i] \in Position
    BY <1>1
  <2>2. b.positions[i].since \in Nat /\ b.positions[i].since <= t
    BY <2>1 DEF Position, Sound, InOrder
  <2>3. i < j => b.positions[i].since <= b.positions[j].since
    BY DEF Sound, InOrder
  <2> QED
    BY <2>2, <2>3
<1> QED
  BY <1>2 DEF Sound, InOrder

(* One on_tick at the time of the step keeps the book sound, and places no *)
(* order.                                                                  *)
LEMMA OneTickKeeps ==
  ASSUME NEW now \in Nat, NEW b, Sound(b, now), NEW P, b.orders \in Seq(P), NEW close \in Nat
  PROVE  LET c == OnTick(b, Ticker, <<close>>, now)
         IN  Sound(c, now) /\ c.orders \in Seq(P)
<1>1. <<close>> \in Seq(Nat) /\ now <= now
  OBVIOUS
<1>2. AfterTurns([book  |-> OnTick(b, Ticker, <<close>>, now),
                  fills |-> FillEvents(b, Ticker, <<close>>, now)], b, Len(b.orders), now)
  BY <1>1, OnTickKeeps
<1> QED
  BY <1>2 DEF AfterTurns

(* So do all of them, by induction over the closes.                        *)
LEMMA TickedKeeps ==
  ASSUME NEW now \in Nat, NEW b, Sound(b, now), NEW P, b.orders \in Seq(P),
         NEW closes \in Seq(Nat)
  PROVE  LET c == Ticked(b, closes, now)[Len(closes)]
         IN  Sound(c, now) /\ c.orders \in Seq(P)
<1> DEFINE B == Ticked(b, closes, now)
           n == Len(closes)
           Good(k) == Sound(B[k], now) /\ B[k].orders \in Seq(P)
           S == {k \in 0 .. n : Good(k)}
<1>1. n \in Nat
  OBVIOUS
<1>2. AreTicked(B, b, closes, now)
  BY <1>1, TickedDef
<1> HIDE DEF B
<1>3. 0 \in S
  BY <1>1, <1>2 DEF AreTicked
<1>4. ASSUME NEW k \in 0 .. n - 1, k \in S
      PROVE  k + 1 \in S
  <2>1. k + 1 \in 1 .. n /\ (k + 1) - 1 = k /\ closes[k + 1] \in Nat
    BY <1>1
  <2>2. B[k + 1] = OnTick(B[k], Ticker, <<closes[k + 1]>>, now)
    BY <1>2, <2>1 DEF AreTicked
  <2>3. Sound(B[k], now) /\ B[k].orders \in Seq(P)
    BY <1>4
  <2>4. Good(k + 1)
    BY <2>1, <2>2, <2>3, OneTickKeeps
  <2> QED
    BY <1>1, <2>1, <2>4
<1> HIDE DEF Good, S
<1>5. 0 .. n \subseteq S
  BY <1>1, <1>3, <1>4, SetInduction
<1>6. Good(n)
  BY <1>1, <1>5 DEF S
<1> QED
  BY <1>6 DEF Good, B

-----------------------------------------------------------------------------
(* The orders placed at the wall clock's time or at a virtual time that    *)
(* has come.                                                               *)
DatedBy(t) == {o \in Order : o.placed \in {WallTime} \cup 0 .. t}

(* An engine that fits a virtual time.                                     *)
EngineFits(e, t) == Sound(e, t) /\ e.orders \in Seq(DatedBy(t))

(* NothingFromTheFuture is about the pending orders alone. What makes it   *)
(* inductive: the controller's own invariants say where the clock is, the  *)
(* engine exists in replay mode only, and its positions too are not from   *)
(* the future.                                                             *)
TradingInv ==
  /\ Fits /\ Sight
  /\ engine # NoEngine <=> mode = "Replay"
  /\ engine # NoEngine => EngineFits(engine, TimeOrZero)

(* The virtual time of the orders, with and without a session.             *)
LEMMA TimeType ==
  ASSUME Fits
  PROVE  /\ TimeOrZero \in Nat
         /\ session # "Idle" => TimeOrZero = clock.now /\ CurrentTimeMs = clock.now
         /\ session = "Idle" => TimeOrZero = 0 /\ CurrentTimeMs = NoTime
BY SightFacts DEF TimeOrZero, CurrentTimeMs, NoTime

(* What fits a time fits a later one.                                      *)
LEMMA FitsLater ==
  ASSUME NEW t \in Nat, NEW e, EngineFits(e, t), NEW u \in Nat, t <= u
  PROVE  EngineFits(e, u)
<1>1. Sound(e, u)
  BY SoundLater DEF EngineFits
<1>2. DatedBy(t) \subseteq DatedBy(u)
  BY DEF DatedBy
<1>3. e.orders \in Seq(DatedBy(u))
  BY <1>2 DEF EngineFits
<1> QED
  BY <1>1, <1>3 DEF EngineFits

(* A new or reset engine fits every time.                                  *)
LEMMA EmptyFits == \A t \in Nat : EngineFits(EmptyBook, t)
<1> SUFFICES ASSUME NEW t \in Nat
             PROVE  EngineFits(EmptyBook, t)
  OBVIOUS
<1>1. EmptyBook.orders = <<>>
  BY DEF EmptyBook
<1>2. <<>> \in Seq(DatedBy(t))
  OBVIOUS
<1> QED
  BY <1>1, <1>2, EmptyIsSound DEF EngineFits

(* An engine that fits is an engine.                                       *)
LEMMA EngineIsABook ==
  ASSUME NEW t \in Nat, NEW e, EngineFits(e, t)
  PROVE  e \in Book /\ e # NoEngine
BY TradingAssumption DEF EngineFits, Sound

(* A stream that StepForward prices has a close.                           *)
LEMMA Closes ==
  ASSUME Fits, NEW s \in Priced
  PROVE  s \in Streams /\ LastClose(s) \in Nat
<1>1. s \in Streams /\ BarsByNow(s) # {} /\ clock.now \in Nat
  BY SightFacts DEF Priced
<1>2. BarsByNow(s) \subseteq BarsOf[s] /\ \A b \in BarsByNow(s) : b <= clock.now + 1
  BY <1>1, BarsAreTimes DEF BarsByNow, KlinesIn, StoredBars, Fetched
<1>3. BarsByNow(s) \subseteq Nat
  BY <1>1, BarsAreTimes DEF BarsByNow
<1>4. Max(BarsByNow(s)) \in BarsOf[s]
  BY <1>1, <1>2, <1>3, MaxOfNat
<1> QED
  BY <1>1, <1>4, TradingAssumption DEF LastClose

(* The closes StepForward hands to on_tick are prices.                     *)
LEMMA ClosesInNat == Fits => \A s \in Priced : LastClose(s) \in Nat
BY Closes

(* There are finitely many of them, so that they can be put in order.      *)
LEMMA PricedFinite ==
  ASSUME Fits
  PROVE  IsFiniteSet(Priced) /\ Cardinality(Priced) \in Nat
<1>1. Priced \subseteq Streams
  BY SightFacts DEF Priced
<1> QED
  BY <1>1, SessionAssumption, FS_Subset, FS_CardinalityType

(* StepForward does not take the clock back, and neither starts nor ends a *)
(* session.                                                                *)
LEMMA ForwardGoesForward ==
  ASSUME Fits, Sight, StepForward
  PROVE  /\ session' = session /\ mode' = mode
         /\ session # "Idle" => clock.now <= clock'.now
         /\ session = "Idle" => clock' = clock
<1>0. session' = session /\ mode' = mode /\ active' = active
  BY DEF StepForward, inputVars
<1>1. session = "Idle" => clock' = clock
  BY DEF StepForward, IsPlaying, IsPaused
<1>2. ASSUME session # "Idle"
      PROVE  clock.now <= clock'.now
  <2> DEFINE next == clock.now + MinTimeframe(active)
  <2>1. next = clock.now + clock.step /\ next \in Nat
    BY <1>2, SightFacts DEF Sight
  <2>2. CASE SeekTo(clock.end)
    <3> DEFINE c == Pause(clock)
    <3>1. c \in Clock /\ c.start = clock.start /\ c.end = clock.end
      BY SightFacts, PauseOK, PauseFacts
    <3>2. clock' = Seek(c, clock.end)
      BY <2>2 DEF SeekTo
    <3> HIDE DEF c
    <3>3. Clamp(c, clock.end) = c.end
      BY <3>1, SightFacts DEF Clamp
    <3>4. clock'.now = clock.end
      BY <3>1, <3>2, <3>3 DEF Seek, Clock
    <3> QED
      BY <3>4, SightFacts
  <2>3. CASE next <= clock.end /\ clock' = Seek(clock, next)
    <3>1. next < Seek(clock, next).now + clock.step /\ Seek(clock, next) \in Clock
      BY <2>1, <2>3, SightFacts, SeekReaches, SeekOK
    <3>2. Seek(clock, next).now \in Nat
      BY <3>1 DEF Clock
    <3> QED
      BY <2>1, <2>3, <3>1, <3>2, SightFacts
  <2>4. CASE UNCHANGED clock
    BY <2>4, SightFacts
  <2> QED
    BY <2>2, <2>3, <2>4 DEF StepForward
<1> QED
  BY <1>0, <1>1, <1>2

(* TimeType, after the step.                                               *)
LEMMA TimeTypeNext ==
  ASSUME Fits'
  PROVE  /\ TimeOrZero' \in Nat
         /\ session' # "Idle" => TimeOrZero' = clock'.now /\ CurrentTimeMs' = clock'.now
         /\ session' = "Idle" => TimeOrZero' = 0 /\ CurrentTimeMs' = NoTime
<1>1. (Fits => /\ TimeOrZero \in Nat
               /\ session # "Idle" => TimeOrZero = clock.now /\ CurrentTimeMs = clock.now
               /\ session = "Idle" => TimeOrZero = 0 /\ CurrentTimeMs = NoTime)'
  BY TimeType, PTL
<1> QED
  BY <1>1

(* The virtual time does not go back in StepForward.                       *)
LEMMA ForwardInTime ==
  ASSUME Fits, Sight, Fits', StepForward
  PROVE  /\ TimeOrZero \in Nat /\ TimeOrZero' \in Nat /\ TimeOrZero <= TimeOrZero'
         /\ session' # "Idle" => TimeOrZero' = clock'.now
         /\ session # "Idle" => CurrentTimeMs <= CurrentTimeMs'
<1>1. /\ TimeOrZero \in Nat
      /\ session # "Idle" => TimeOrZero = clock.now /\ CurrentTimeMs = clock.now
      /\ session = "Idle" => TimeOrZero = 0
  BY TimeType
<1> QED
  BY <1>1, TimeTypeNext, ForwardGoesForward

(* The fills of StepForward leave an engine that fits the new time, in     *)
(* whatever order the streams are visited.                                 *)
LEMMA StepFillsKeeps ==
  ASSUME TradingInv, Fits', mode = "Replay", StepForward, StepFills
  PROVE  EngineFits(engine', TimeOrZero')
<1>1. Fits /\ Sight /\ EngineFits(engine, TimeOrZero)
  BY DEF TradingInv
<1>2. /\ TimeOrZero \in Nat /\ TimeOrZero' \in Nat /\ TimeOrZero <= TimeOrZero'
      /\ session' # "Idle" => TimeOrZero' = clock'.now
  BY <1>1, ForwardInTime
<1>3. PICK streams \in SetToSeqs(Priced') :
        LET closes == [i \in DOMAIN streams |-> LastClose(streams[i])']
        IN  engine' = Ticked(engine, closes, clock'.now)[Len(closes)]
  BY DEF StepFills
<1> DEFINE closes == [i \in DOMAIN streams |-> LastClose(streams[i])']
<1>4. engine' = Ticked(engine, closes, clock'.now)[Len(closes)]
  BY <1>3
<1>5. IsFiniteSet(Priced') /\ Cardinality(Priced') \in Nat
  <2>1. (Fits => IsFiniteSet(Priced) /\ Cardinality(Priced) \in Nat)'
    BY PricedFinite, PTL
  <2> QED
    BY <2>1
<1>6. streams \in [1 .. Cardinality(Priced') -> Priced']
  BY <1>3 DEF SetToSeqs
<1>7. \A s \in Priced' : LastClose(s)' \in Nat
  <2>1. (Fits => \A s \in Priced : LastClose(s) \in Nat)'
    BY ClosesInNat, PTL
  <2> QED
    BY <2>1
<1> DEFINE n == Cardinality(Priced')
<1>8. closes = [i \in 1 .. n |-> LastClose(streams[i])'] /\ \A i \in 1 .. n : streams[i] \in Priced'
  BY <1>6
<1>9. \A i \in 1 .. n : LastClose(streams[i])' \in Nat
  BY <1>7, <1>8
<1>10. n \in Nat
  BY <1>5
<1> HIDE DEF n
<1>11. closes \in [1 .. n -> Nat]
  BY <1>8, <1>9
<1> HIDE DEF closes
<1>12. closes \in Seq(Nat) /\ Len(closes) = n
  BY <1>10, <1>11, SeqDef
<1>13. CASE session' = "Active"
  <2>1. TimeOrZero' = clock'.now
    BY <1>2, <1>13
  <2>2. EngineFits(engine, clock'.now) /\ clock'.now \in Nat
    BY <1>1, <1>2, <2>1, FitsLater
  <2>3. Sound(engine, clock'.now) /\ engine.orders \in Seq(DatedBy(clock'.now))
    BY <2>2 DEF EngineFits
  <2>4. Sound(engine', clock'.now) /\ engine'.orders \in Seq(DatedBy(clock'.now))
    BY <1>4, <1>12, <2>2, <2>3, TickedKeeps
  <2> QED
    BY <2>1, <2>4 DEF EngineFits
<1>14. CASE session' # "Active"
  <2>1. n = 0
    BY <1>14, FS_EmptySet DEF Priced, n
  <2>2. Len(closes) = 0
    BY <1>12, <2>1
  <2>3. AreTicked(Ticked(engine, closes, clock'.now), engine, closes, clock'.now)
    BY <2>2, TickedDef
  <2>4. engine' = engine
    BY <1>4, <2>2, <2>3 DEF AreTicked
  <2> QED
    BY <1>1, <1>2, <2>4, FitsLater
<1> QED
  BY <1>13, <1>14

(* Playing does not take the virtual time back.                            *)
LEMMA TickInTime ==
  ASSUME Fits, Fits', NEW elapsed \in Nat, TickSession(elapsed)
  PROVE  /\ mode' = mode /\ TimeOrZero <= TimeOrZero'
         /\ session # "Idle" => CurrentTimeMs <= CurrentTimeMs'
<1>1. session' = session /\ mode' = mode /\ session # "Idle"
  BY DEF TickSession, inputVars
<1>2. clock' \in {clock, SetWaiting(clock), Tick(clock, elapsed)}
  BY DEF TickSession, DispatchTick
<1>3. clock.now <= clock'.now
  <2>1. SetWaiting(clock).now = clock.now
    BY SightFacts, SamePlaces
  <2>2. clock.now <= Tick(clock, elapsed).now
    BY SightFacts, TickMoves
  <2> QED
    BY <1>2, <2>1, <2>2, SightFacts
<1> QED
  BY <1>1, <1>3, TimeType, TimeTypeNext

(* Nor do the steps of the controller that the engine does not follow, as  *)
(* long as the HTTP command Play is not used during a session: it would    *)
(* start another one without resetting the book.                           *)
LEMMA AroundInTime ==
  ASSUME Fits, Fits', ~ApiReplays, AroundController
  PROVE  /\ mode' = mode /\ TimeOrZero <= TimeOrZero'
         /\ session # "Idle" => CurrentTimeMs <= CurrentTimeMs'
<1>1. TimeOrZero \in Nat /\ (session = "Idle" => TimeOrZero = 0) /\ TimeOrZero' \in Nat
  BY TimeType, TimeTypeNext
<1>2. ASSUME session = "Idle", NEW range \in Ranges, ApiPlay(range)
      PROVE  mode' = mode /\ TimeOrZero <= TimeOrZero'
  BY <1>1, <1>2 DEF ApiPlay, AskForPlay, HandlePlay
<1>3. ASSUME mode' = mode, session' = session, clock' = clock
      PROVE  /\ mode' = mode /\ TimeOrZero <= TimeOrZero'
             /\ session # "Idle" => CurrentTimeMs <= CurrentTimeMs'
  BY <1>3, TimeType, TimeTypeNext, SightFacts
<1>4. CASE FireAutoPlay \/ SessionUnavailable
  BY <1>3, <1>4 DEF FireAutoPlay, SessionUnavailable, sessionVars
<1>5. ASSUME NEW p \in Panes, NEW s \in Streams \cup {NoStream}, ChangeBasis(p, s)
      PROVE  mode' = mode /\ session' = session /\ clock' = clock
  BY <1>5 DEF ChangeBasis, inputVars, sessionVars
<1>6. CASE Frame \/ StatusPoll
  <2>1. \A elapsed \in 1 .. MaxLag : elapsed \in Nat
    BY SessionAssumption
  <2> QED
    BY <1>6, <2>1, TickInTime DEF Frame, StatusPoll, TickReplay, GetStatus
<1> QED
  BY <1>2, <1>3, <1>4, <1>5, <1>6 DEF AroundController

(* The steps that do something to the engine: the mode toggle makes it or  *)
(* drops it, a seek, a step back and a play reset it, a step forward fills *)
(* orders.                                                                 *)
LEMMA FollowsKeeps ==
  ASSUME TradingInv, Fits', EngineFollows
  PROVE  /\ engine' # NoEngine <=> mode' = "Replay"
         /\ engine' # NoEngine => EngineFits(engine', TimeOrZero')
<1>1. Fits /\ (engine # NoEngine <=> mode = "Replay")
      /\ (engine # NoEngine => EngineFits(engine, TimeOrZero))
  BY DEF TradingInv
<1>2. TimeOrZero' \in Nat
  BY TimeTypeNext
<1>3. EngineFits(EmptyBook, TimeOrZero') /\ EmptyBook # NoEngine
  BY <1>2, EmptyFits, EngineIsABook
<1>4. CurrentTimeMs' = CurrentTimeMs => TimeOrZero' = TimeOrZero
  BY DEF TimeOrZero
<1>5. CASE mode = "Replay" /\ mode' = "Replay" /\ ResetIfMoved
  <2>1. engine' = EmptyBook \/ (engine' = engine /\ TimeOrZero' = TimeOrZero)
    BY <1>1, <1>4, <1>5 DEF ResetIfMoved
  <2> QED
    BY <1>1, <1>3, <1>5, <2>1
<1>6. CASE ~(mode = "Replay" /\ mode' = "Replay" /\ ResetIfMoved)
  BY <1>1, <1>3, <1>6 DEF EngineFollows
<1> QED
  BY <1>5, <1>6

(* An order placed now, or at the wall clock's time when nothing is        *)
(* loaded, fits.                                                           *)
LEMMA OrderKeeps ==
  ASSUME TradingInv, NEW ticker \in STRING, NEW placed \in Nat, PlaceVirtualOrder(ticker, placed),
         placed \in {WallTime} \cup 0 .. TimeOrZero
  PROVE  /\ engine' # NoEngine /\ engine # NoEngine
         /\ EngineFits(engine', TimeOrZero)
<1>1. Fits /\ engine # NoEngine /\ EngineFits(engine, TimeOrZero) /\ TimeOrZero \in Nat
  BY TimeType DEF TradingInv, PlaceVirtualOrder
<1>2. PICK side \in Sides : engine' = PlaceOrder(engine, NewOrder(ticker, side, placed))
  BY DEF PlaceVirtualOrder
<1> DEFINE o == NewOrder(ticker, side, placed)
           t == TimeOrZero
<1>3. Sound(engine, t) /\ engine.orders \in Seq(DatedBy(t)) /\ engine \in Book
  BY <1>1, EngineIsABook DEF EngineFits
<1>4. engine.orders \in Seq(Order) /\ engine.positions \in Seq(Position)
  BY <1>3 DEF Book
<1>5. o \in Order
  <2>1. OrdersSeen(engine) \in Nat
    <3>1. Len(engine.orders) \in Nat /\ Len(engine.positions) \in Nat
      BY <1>4, LenProperties
    <3>2. \A m, l \in Nat : m + l \in Nat
      OBVIOUS
    <3> QED
      BY <3>1, <3>2, Zenon DEF OrdersSeen
  <2>2. OrdersSeen(engine) + 1 \in Nat \ {0}
    BY <2>1
  <2> QED
    BY <2>2 DEF NewOrder, Order
<1>6. o \in DatedBy(t)
  BY <1>5 DEF DatedBy, NewOrder
<1>7. engine' = [engine EXCEPT !.orders = Append(engine.orders, o)]
  BY <1>2 DEF PlaceOrder
<1> HIDE DEF o, t
<1>8. Append(engine.orders, o) \in Seq(Order) /\ Append(engine.orders, o) \in Seq(DatedBy(t))
  BY <1>3, <1>4, <1>5, <1>6, AppendProperties
<1>9. t \in Nat /\ t <= t
  BY <1>1 DEF t
<1>10. Sound(engine', t) /\ engine'.orders = Append(engine.orders, o)
  BY <1>3, <1>7, <1>8, <1>9, OrdersDoNotMatter
<1>11. EngineFits(engine', t)
  BY <1>8, <1>10 DEF EngineFits
<1> QED
  BY <1>1, <1>9, <1>11, EngineIsABook DEF t

(* Every step of the application is a step of the controller or leaves the *)
(* controller alone, so that its theorems apply.                           *)
LEMMA TradingStepsSession == [TradingNext]_tvars => [Next]_vars
<1>1. ThroughController => Next
  BY DEF ThroughController, Next, User
<1>2. StepForwardTrading => Next
  BY DEF StepForwardTrading, Next, User
<1>3. AroundController => Next
  BY DEF AroundController, Next, User
<1>4. ApiOrder \/ PanelOrder => UNCHANGED vars
  BY DEF ApiOrder, PanelOrder, PlaceVirtualOrder
<1> QED
  BY <1>1, <1>2, <1>3, <1>4 DEF TradingNext, tvars

(* It holds of the engine the application starts with.                     *)
LEMMA TradingInitInv == TradingInit => TradingInv
<1> SUFFICES ASSUME TradingInit
             PROVE  TradingInv
  OBVIOUS
<1>1. Fits /\ Sight /\ mode \in {"Live", "Replay"}
  BY FitsInit DEF TradingInit, Init, Sight
<1>2. TimeOrZero \in Nat
  BY <1>1, TimeType
<1>3. EngineFits(EmptyBook, TimeOrZero) /\ EmptyBook # NoEngine
  BY <1>2, EmptyFits, EngineIsABook
<1> QED
  BY <1>1, <1>3 DEF TradingInit, TradingInv

(* Every step of the application preserves the invariant.                  *)
LEMMA TradingStepInv == ~ApiReplays /\ TradingInv /\ [TradingNext]_tvars => TradingInv'
<1> SUFFICES ASSUME ~ApiReplays, TradingInv, [TradingNext]_tvars
             PROVE  TradingInv'
  OBVIOUS
<1>0. Fits /\ Sight /\ (engine # NoEngine <=> mode = "Replay")
      /\ (engine # NoEngine => EngineFits(engine, TimeOrZero)) /\ TimeOrZero \in Nat
  BY TimeType DEF TradingInv
<1>1. Fits' /\ Sight'
  BY <1>0, TradingStepsSession, FitsStep, SightStep
<1>2. TimeOrZero' \in Nat
  BY <1>1, TimeTypeNext
<1>3. SUFFICES /\ engine' # NoEngine <=> mode' = "Replay"
               /\ engine' # NoEngine => EngineFits(engine', TimeOrZero')
  BY <1>1 DEF TradingInv
<1>4. ASSUME mode' = mode, engine' = engine, TimeOrZero <= TimeOrZero'
      PROVE  /\ engine' # NoEngine <=> mode' = "Replay"
             /\ engine' # NoEngine => EngineFits(engine', TimeOrZero')
  BY <1>0, <1>2, <1>4, FitsLater
<1>5. CASE ThroughController /\ EngineFollows
  BY <1>1, <1>5, FollowsKeeps
<1>6. CASE StepForwardTrading
  <2>1. StepForward /\ mode' = mode /\ TimeOrZero <= TimeOrZero'
    BY <1>0, <1>1, <1>6, ForwardInTime, ForwardGoesForward DEF StepForwardTrading
  <2>2. CASE mode = "Replay" /\ engine # NoEngine
    <3>1. StepFills
      BY <1>6, <2>2 DEF StepForwardTrading
    <3>2. EngineFits(engine', TimeOrZero')
      BY <1>1, <2>1, <2>2, <3>1, StepFillsKeeps
    <3>3. engine' # NoEngine
      BY <1>2, <3>2, EngineIsABook
    <3> QED
      BY <2>1, <2>2, <3>2, <3>3
  <2>3. CASE ~(mode = "Replay" /\ engine # NoEngine)
    BY <1>4, <1>6, <2>1, <2>3 DEF StepForwardTrading
  <2> QED
    BY <2>2, <2>3
<1>7. CASE AroundController /\ UNCHANGED engine
  BY <1>0, <1>1, <1>4, <1>7, AroundInTime
<1>8. CASE ApiOrder \/ PanelOrder
  <2>1. mode' = mode /\ TimeOrZero' = TimeOrZero
    BY <1>8 DEF ApiOrder, PanelOrder, PlaceVirtualOrder, vars, inputVars, sessionVars,
                TimeOrZero, CurrentTimeMs
  <2>2. engine # NoEngine /\ engine' # NoEngine /\ EngineFits(engine', TimeOrZero)
    <3>1. /\ Ticker \in STRING /\ PanelTicker \in STRING /\ WallTime \in Nat
          /\ WallTime \in {WallTime} \cup 0 .. TimeOrZero
          /\ TimeOrZero \in {WallTime} \cup 0 .. TimeOrZero
      BY <1>0, TradingAssumption
    <3>2. CASE PlaceVirtualOrder(Ticker, TimeOrZero)
      BY <1>0, <3>1, <3>2, OrderKeeps
    <3>3. CASE PlaceVirtualOrder(PanelTicker, WallTime)
      BY <1>0, <3>1, <3>3, OrderKeeps
    <3> QED
      BY <1>8, <3>2, <3>3 DEF ApiOrder, PanelOrder
  <2> QED
    BY <1>0, <2>1, <2>2
<1>9. CASE UNCHANGED tvars
  <2>1. mode' = mode /\ TimeOrZero' = TimeOrZero /\ engine' = engine
    BY <1>9 DEF tvars, vars, inputVars, sessionVars, TimeOrZero, CurrentTimeMs
  <2> QED
    BY <1>0, <2>1
<1> QED
  BY <1>5, <1>6, <1>7, <1>8, <1>9 DEF TradingNext

(* The invariant says it of the pending orders in particular.              *)
LEMMA DatedOrders ==
  ASSUME TradingInv, engine # NoEngine
  PROVE  NothingFromTheFuture
<1>1. Sound(engine, TimeOrZero) /\ engine.orders \in Seq(DatedBy(TimeOrZero))
  BY DEF TradingInv, EngineFits
<1>2. \A i \in DOMAIN engine.orders : engine.orders[i] \in DatedBy(TimeOrZero)
  BY <1>1
<1> QED
  BY <1>1, <1>2 DEF NothingFromTheFuture, DatedBy, Sound, InOrder

(* Application: there is a virtual exchange exactly in Replay mode, and    *)
(* its book is well formed (app/mod.rs, app/dashboard.rs).                 *)
THEOREM TradingTypes == ~ApiReplays => (TradingSpec => []TypeOKTrading)
<1>1. TradingInv => TypeOKTrading
  BY EngineIsABook, TimeType DEF TradingInv, TypeOKTrading, Fits
<1> SUFFICES ASSUME ~ApiReplays
             PROVE  TradingSpec => []TypeOKTrading
  OBVIOUS
<1>2. TradingInv /\ [TradingNext]_tvars => TradingInv'
  BY TradingStepInv
<1> QED
  BY <1>1, <1>2, TradingInitInv, PTL DEF TradingSpec

(* Application: no pending order was placed at a virtual time that has not *)
(* come yet, however the user seeks, steps and changes the range: an order *)
(* of an abandoned future is gone with the book that held it (app/mod.rs,  *)
(* the resets around the replay messages). The HTTP command Play during a  *)
(* session does break it, which a run shows: hence the hypothesis.         *)
THEOREM TradingIsNotAhead == ~ApiReplays => (TradingSpec => []NothingFromTheFuture)
<1>1. TradingInv => NothingFromTheFuture
  BY DatedOrders DEF NothingFromTheFuture
<1> SUFFICES ASSUME ~ApiReplays
             PROVE  TradingSpec => []NothingFromTheFuture
  OBVIOUS
<1>2. TradingInv /\ [TradingNext]_tvars => TradingInv'
  BY TradingStepInv
<1> QED
  BY <1>1, <1>2, TradingInitInv, PTL DEF TradingSpec

(* The parts of BookIsSound that are about a book alone.                   *)
EngineSound ==
  engine # NoEngine => OneSided(engine) /\ CashReconciles(engine) /\ OldestClosedFirst(engine)

(* Application: the book a trader sees in replay nets out, balances and    *)
(* closes oldest first, across every toggle, seek and step.                *)
THEOREM TradingBookIsSound == ~ApiReplays => (TradingSpec => []EngineSound)
<1>1. TradingInv => EngineSound
  BY DEF TradingInv, EngineFits, Sound, EngineSound
<1> SUFFICES ASSUME ~ApiReplays
             PROVE  TradingSpec => []EngineSound
  OBVIOUS
<1>2. TradingInv /\ [TradingNext]_tvars => TradingInv'
  BY TradingStepInv
<1> QED
  BY <1>1, <1>2, TradingInitInv, PTL DEF TradingSpec

(* The step GoingBackClearsTheBook is about.                               *)
ClearsTheBook ==
  (engine # NoEngine /\ session # "Idle" /\ CurrentTimeMs' < CurrentTimeMs)
    => engine' \in {EmptyBook, NoEngine}

(* A step that takes the virtual time back resets the book or drops it.    *)
LEMMA ClearsStep ==
  ~ApiReplays /\ TradingInv /\ TradingInv' /\ [TradingNext]_tvars => ClearsTheBook
<1> SUFFICES ASSUME ~ApiReplays, TradingInv, TradingInv', [TradingNext]_tvars,
                    engine # NoEngine, session # "Idle", CurrentTimeMs' < CurrentTimeMs
             PROVE  engine' \in {EmptyBook, NoEngine}
  BY DEF ClearsTheBook
<1>0. Fits /\ Sight /\ Fits' /\ mode = "Replay"
  BY DEF TradingInv
<1>1. CurrentTimeMs \in Int /\ CurrentTimeMs' \in Int
  <2>1. CurrentTimeMs \in Nat
    BY <1>0, TimeType
  <2>2. TimeOrZero' \in Nat /\ (CurrentTimeMs' = TimeOrZero' \/ CurrentTimeMs' = NoTime)
    BY <1>0, TimeTypeNext
  <2> QED
    BY <2>1, <2>2 DEF NoTime
<1>2. ~(CurrentTimeMs <= CurrentTimeMs')
  BY <1>1
<1>3. CASE ThroughController /\ EngineFollows
  <2>1. CurrentTimeMs' # CurrentTimeMs
    BY <1>1
  <2> QED
    BY <1>0, <1>3, <2>1 DEF EngineFollows, ResetIfMoved
<1>4. CASE StepForwardTrading
  BY <1>0, <1>2, <1>4, ForwardInTime DEF StepForwardTrading
<1>5. CASE AroundController /\ UNCHANGED engine
  BY <1>0, <1>2, <1>5, AroundInTime
<1>6. CASE ApiOrder \/ PanelOrder \/ UNCHANGED tvars
  <2>1. CurrentTimeMs' = CurrentTimeMs
    BY <1>6 DEF ApiOrder, PanelOrder, PlaceVirtualOrder, tvars, vars, sessionVars, CurrentTimeMs
  <2> QED
    BY <1>1, <1>2, <2>1
<1> QED
  BY <1>3, <1>4, <1>5, <1>6 DEF TradingNext

(* Application: whenever the virtual time goes back the book is cleared,   *)
(* so that no fill of the future survives in the past.                     *)
THEOREM TradingForgets == ~ApiReplays => (TradingSpec => GoingBackClearsTheBook)
<1> SUFFICES ASSUME ~ApiReplays
             PROVE  TradingSpec => GoingBackClearsTheBook
  OBVIOUS
<1>1. TradingInv /\ [TradingNext]_tvars => TradingInv'
  BY TradingStepInv
<1>2. TradingInv /\ TradingInv' /\ [TradingNext]_tvars => [ClearsTheBook]_tvars
  BY ClearsStep
<1>3. TradingSpec => [][ClearsTheBook]_tvars
  BY <1>1, <1>2, TradingInitInv, PTL DEF TradingSpec
<1> QED
  BY <1>3 DEF ClearsTheBook, GoingBackClearsTheBook
=============================================================================
