---------------------------- MODULE ReplaySession ----------------------------
(***************************************************************************)
(* The replay controller: ReplayController and the ReplayState it wraps    *)
(* (src/src/replay/mod.rs, src/src/replay/controller/, dispatcher.rs,      *)
(* store.rs), the kline charts it feeds, and the messages still on their   *)
(* way to it.                                                              *)
(*                                                                         *)
(* The application handles one message at a time; what is concurrent is    *)
(* everything in flight.  Kline loads finish in any order, some after the  *)
(* session they were started for is gone: nothing cancels them.  A change  *)
(* of a pane's timeframe reaches the controller as a later message.        *)
(*                                                                         *)
(* The buttons and the HTTP API send the same messages, the API also when  *)
(* the buttons are disabled: those guards do not appear here.              *)
(***************************************************************************)
EXTENDS StepClock, FiniteSets, FiniteSetsExt, Sequences

CONSTANTS
  Streams,          \* kline streams: a ticker at a timeframe
  TimeframeOf,      \* [Streams -> Nat], to_milliseconds() of the timeframe
  BarsOf,           \* [Streams -> SUBSET Nat], opening times the venue has bars for
  Panes,
  NoStream,         \* a pane that shows no kline stream
  StartTexts,       \* what the start input can hold: a time it parses to, or
  EndTexts,         \* BadText; the end input alike
  BadText,          \* a range input that does not parse
  HistoryBars,      \* PRE_START_HISTORY_BARS
  FallbackStep,     \* min_timeframe_ms of no stream (60_000)
  MaxLoadBars,      \* MAX_LOAD_PAGES * PAGE_SIZE
  Speeds,           \* SPEEDS, a sequence
  MaxLag,           \* bound: wall time between two ticks
  MaxEpoch,         \* bound: kline loads are started at most this many times
  MaxReloads        \* bound: ReloadKlineStream messages in flight

ASSUME SessionAssumption ==
  /\ IsFiniteSet(Panes) /\ IsFiniteSet(Streams)
  /\ NoStream \notin Streams
  /\ TimeframeOf \in [Streams -> Nat \ {0}]
  /\ BarsOf \in [Streams -> SUBSET Nat]
  /\ BadText \notin Nat
  /\ StartTexts \subseteq Nat \cup {BadText} /\ EndTexts \subseteq Nat \cup {BadText}
  /\ HistoryBars \in Nat /\ FallbackStep \in Nat \ {0} /\ MaxLoadBars \in Nat
  /\ Speeds \in Seq(Nat \ {0}) /\ Speeds # <<>> /\ Speeds[1] = 1
  /\ MaxLag \in Nat /\ MaxEpoch \in Nat /\ MaxReloads \in Nat

VARIABLES
  mode,           \* ReplayMode
  rangeInput,     \* the two range inputs
  session,        \* the constructor of ReplaySession
  clock,          \* its fields; NoClock, 0, NoData and {} where it has none
  pending,
  store,          \* loaded_ranges of each stream
  active,         \* active_streams
  autoPlay,       \* pending_auto_play
  resumePending,
  panes,          \* the kline stream each pane shows
  charts,         \* the bars each pane's chart holds, and its replay_mode
  loads,          \* load_klines tasks in flight
  reloads,        \* ReloadKlineStream messages in flight
  playQueued,     \* the Play message of auto-play is in flight
  epoch           \* history: how many times loads were started

inputVars   == <<mode, rangeInput, autoPlay, resumePending>>
sessionVars == <<session, clock, pending, store, active>>
inFlight    == <<loads, reloads, playQueued, epoch>>
vars == <<inputVars, sessionVars, panes, charts, inFlight>>

NoClock == NewClock(0, 0, FallbackStep)
NoData  == [s \in Streams |-> {}]
Ranges  == [start : StartTexts, end : EndTexts]

(* What started a load: a pane's entry in Play, or a reload.               *)
Load == [epoch : 1 .. MaxEpoch, for : Panes \cup {NoStream}, stream : Streams,
         from : Nat, until : Nat]
Reload == [old : Streams \cup {NoStream}, new : Streams]

TypeOK ==
  /\ mode \in {"Live", "Replay"}
  /\ rangeInput \in Ranges
  /\ session \in {"Idle", "Loading", "Active"}
  /\ clock \in Clock
  /\ pending \in Nat
  /\ store \in [Streams -> SUBSET (Nat \X Nat)]
  /\ active \subseteq Streams
  /\ autoPlay \in BOOLEAN /\ resumePending \in BOOLEAN
  /\ panes \in [Panes -> Streams \cup {NoStream}]
  /\ charts \in [Panes -> [bars : SUBSET Nat, replay : BOOLEAN]]
  /\ loads \subseteq Load
  /\ reloads \subseteq Reload
  /\ playQueued \in BOOLEAN
  /\ epoch \in 0 .. MaxEpoch

-----------------------------------------------------------------------------
(* Derived values and helpers.                                             *)

IsPlaying == session = "Active" /\ clock.status = "Playing"
IsPaused  == session = "Active" /\ clock.status = "Paused"

MinTimeframe(S) ==
  IF S = {} THEN FallbackStep ELSE Min({TimeframeOf[s] : s \in S})

Monus(a, b) == IF a < b THEN 0 ELSE a - b

LoadFromBelow(s, start) == start - HistoryBars * TimeframeOf[s]   \* mutant of LoadFrom

(* Each stream is loaded from some bars of its own before the start.       *)
LoadFrom(s, start) == Monus(start, HistoryBars * TimeframeOf[s])

(* fetch_klines answers with the bars the venue has, both ends included.   *)
Fetched(s, from, until) == {b \in BarsOf[s] : from <= b /\ b <= until}

StoredBars(s) == UNION {Fetched(s, r[1], r[2]) : r \in store[s]}

KlinesIn(s, from, until) == {b \in StoredBars(s) : from <= b /\ b < until}

LoadedPast(s) == \E r \in store[s] : r[1] <= clock.start /\ clock.end < r[2]   \* mutant
IsLoaded(s) == \E r \in store[s] : r[1] <= clock.start /\ clock.end <= r[2]

(* Adding nothing leaves a chart as it is; adding bars marks it as one     *)
(* that replays.                                                           *)
Shown(chart, bars) ==
  IF bars = {} THEN chart ELSE [bars |-> chart.bars \cup bars, replay |-> TRUE]

(* Empty charts for the panes that have one, everywhere else no change.    *)
EmptyCharts(replay) == [p \in Panes |-> [bars |-> {}, replay |-> replay]]

InjectOne(chs, t) ==   \* mutant of Inject
  [p \in Panes |-> IF panes[p] \in active
                     THEN Shown(chs[p], KlinesIn(panes[p], t, t + 1))
                     ELSE chs[p]]

(* What inject_klines_up_to adds to the given charts.                      *)
Inject(chs, t) ==
  [p \in Panes |-> IF panes[p] \in active
                     THEN Shown(chs[p], KlinesIn(panes[p], 0, t + 1))
                     ELSE chs[p]]

SeekOnTheRun(t) ==   \* mutant of SeekTo
  /\ clock' = Seek(clock, t)
  /\ charts' = Inject(EmptyCharts(TRUE), t)

(* seek_to: pause, seek, empty the charts, fill them up to the target (not *)
(* to where the clock snapped).                                            *)
SeekTo(t) ==
  /\ clock' = Seek(Pause(clock), t)
  /\ charts' = Inject(EmptyCharts(TRUE), t)

DropSession ==
  /\ session' = "Idle"
  /\ clock' = NoClock
  /\ pending' = 0
  /\ store' = NoData
  /\ active' = {}

ForgetNothing == DropSession /\ UNCHANGED resumePending   \* mutant of ResetSession
ResetSession  == DropSession /\ resumePending' = FALSE

ValidRange(r) == r.start # BadText /\ r.end # BadText /\ r.start < r.end

Init ==
  /\ mode \in {"Live", "Replay"}
  /\ rangeInput \in Ranges
  /\ session = "Idle" /\ clock = NoClock /\ pending = 0 /\ store = NoData /\ active = {}
  /\ autoPlay = (mode = "Replay" /\ ValidRange(rangeInput))
  /\ resumePending = FALSE
  /\ panes \in [Panes -> Streams \cup {NoStream}]
  /\ charts = EmptyCharts(FALSE)
  /\ loads = {} /\ reloads = {} /\ playQueued = FALSE /\ epoch = 0

-----------------------------------------------------------------------------
(* User messages.                                                          *)

ToggleToReplay ==
  /\ mode = "Live"
  /\ mode' = "Replay"
  /\ charts' = EmptyCharts(TRUE)
  /\ UNCHANGED <<rangeInput, autoPlay, resumePending, sessionVars, panes, inFlight>>

ToggleToLive ==
  /\ mode = "Replay"
  /\ mode' = "Live"
  /\ autoPlay' = FALSE
  /\ ResetSession
  /\ charts' = EmptyCharts(FALSE)
  /\ UNCHANGED <<rangeInput, panes, inFlight>>

ToggleMode == ToggleToReplay \/ ToggleToLive

(* Editing either input takes a session back to its (old) start.           *)
RangeInputChanged ==
  /\ IF session = "Idle" THEN UNCHANGED <<clock, charts>> ELSE SeekTo(clock.start)
  /\ UNCHANGED <<mode, autoPlay, resumePending, session, pending, store, active,
                 panes, inFlight>>

StartTimeChanged(t) ==
  /\ mode = "Replay"
  /\ rangeInput' = [rangeInput EXCEPT !.start = t]
  /\ RangeInputChanged

EndTimeChanged(t) ==
  /\ mode = "Replay"
  /\ rangeInput' = [rangeInput EXCEPT !.end = t]
  /\ RangeInputChanged

(* The streams Play collects from the panes, and the size check it makes   *)
(* before it touches anything.                                             *)
KlineStreams == {panes[p] : p \in Panes} \ {NoStream}

TooLarge(r) ==
  \E s \in KlineStreams :
    (r.end - LoadFrom(s, r.start)) \div TimeframeOf[s] > MaxLoadBars

Playable(r) == ValidRange(r) /\ ~TooLarge(r)

PlayRejected(range) ==
  /\ ~Playable(range)
  /\ UNCHANGED <<sessionVars, charts, loads, epoch>>

FirstSpeed == 1   \* mutant of KeptSpeed
KeptSpeed  == IF session = "Idle" THEN 1 ELSE clock.speed

(* A session keeps the speed of the one it replaces.  There is one load    *)
(* per pane, but pending counts streams.                                   *)
PlayAccepted(range) ==
  /\ Playable(range)
  /\ epoch < MaxEpoch
  /\ epoch' = epoch + 1
  /\ charts' = EmptyCharts(TRUE)
  /\ store' = NoData
  /\ active' = KlineStreams
  /\ LET fresh == SetSpeed(NewClock(range.start, range.end, MinTimeframe(KlineStreams)),
                           KeptSpeed)
     IN  IF KlineStreams = {}
           THEN /\ session' = "Active" /\ clock' = Play(fresh) /\ pending' = 0
                /\ UNCHANGED loads
           ELSE /\ session' = "Loading" /\ clock' = SetWaiting(fresh)
                /\ pending' = Cardinality(KlineStreams)
                /\ loads' = loads \cup
                     {[epoch |-> epoch', for |-> p, stream |-> panes[p],
                       from |-> LoadFrom(panes[p], range.start), until |-> range.end] :
                      p \in {q \in Panes : panes[q] # NoStream}}

(* The bound on started loads holds back whoever asks for one, never a     *)
(* message that is already on its way.                                     *)
OnTheirWay  == Cardinality(reloads) + (IF autoPlay \/ playQueued THEN 1 ELSE 0)
WithinBound == epoch + OnTheirWay < MaxEpoch

HandlePlay(range) ==
  /\ autoPlay' = FALSE
  /\ resumePending' = FALSE
  /\ rangeInput' = range
  /\ PlayRejected(range) \/ PlayAccepted(range)
  /\ UNCHANGED <<mode, panes, reloads>>

(* The button is there in Replay only; the HTTP command brings a range of  *)
(* its own and asks for no mode.                                           *)
AskForPlay(range) == WithinBound /\ HandlePlay(range) /\ UNCHANGED playQueued

UserPlay       == mode = "Replay" /\ AskForPlay(rangeInput)
ApiPlay(range) == AskForPlay(range)

(* Auto-play: once every restored pane is ready the flag is traded for a   *)
(* Play message, which is handled later whatever happened in between.      *)
FireAutoPlay ==
  /\ autoPlay /\ mode = "Replay"
  /\ autoPlay' = FALSE /\ playQueued' = TRUE
  /\ UNCHANGED <<mode, rangeInput, resumePending, sessionVars, panes, charts,
                 loads, reloads, epoch>>

QueuedPlay == playQueued /\ playQueued' = FALSE /\ HandlePlay(rangeInput)

SessionUnavailable ==
  /\ autoPlay' = FALSE /\ resumePending' = FALSE
  /\ UNCHANGED <<mode, rangeInput, sessionVars, panes, charts, inFlight>>

Resume ==
  /\ clock' = IF IsPaused THEN Play(clock) ELSE clock
  /\ resumePending' = (resumePending \/ session = "Loading")
  /\ UNCHANGED <<mode, rangeInput, autoPlay, session, pending, store, active,
                 panes, charts, inFlight>>

PauseReplay ==
  /\ clock' = IF session = "Active" THEN Pause(clock) ELSE clock
  /\ resumePending' = FALSE
  /\ UNCHANGED <<mode, rangeInput, autoPlay, session, pending, store, active,
                 panes, charts, inFlight>>

StepForward ==
  /\ LET next == clock.now + MinTimeframe(active)
     IN  \/ IsPlaying /\ SeekTo(clock.end)
         \/ /\ IsPaused /\ next <= clock.end
            /\ clock' = Seek(clock, next)
            /\ charts' = Inject(charts, next)
         \/ /\ ~IsPlaying
            /\ IsPaused => next > clock.end
            /\ UNCHANGED <<clock, charts>>
  /\ UNCHANGED <<inputVars, session, pending, store, active, panes, inFlight>>

(* The last bar of any active stream before the current time, or one step  *)
(* back when there is none; never before the start.                        *)
StepBackTarget ==
  LET earlier == UNION {KlinesIn(s, 0, clock.now) : s \in active}
      target  == IF earlier = {} THEN Monus(clock.now, MinTimeframe(active))
                 ELSE Max(earlier)
  IN  IF target < clock.start THEN clock.start ELSE target

StepBackward ==
  /\ \/ IsPlaying /\ SeekTo(clock.start)
     \/ session = "Active" /\ ~IsPlaying /\ SeekTo(StepBackTarget)
     \/ session # "Active" /\ UNCHANGED <<clock, charts>>
  /\ UNCHANGED <<inputVars, session, pending, store, active, panes, inFlight>>

NextSpeed(speed) ==
  LET at == {i \in 1 .. Len(Speeds) : Speeds[i] = speed}
  IN  IF at = {} THEN Speeds[1] ELSE Speeds[(Min(at) % Len(Speeds)) + 1]

CycleSpeed ==
  /\ clock' = IF session = "Idle" THEN clock ELSE SetSpeed(clock, NextSpeed(clock.speed))
  /\ UNCHANGED <<inputVars, session, pending, store, active, panes, charts, inFlight>>

-----------------------------------------------------------------------------
(* A load finishes.  Only the state of the session says what its answer is *)
(* good for: nothing ties it to the Play or the reload that asked.         *)

AllShown(l) ==   \* mutant of HistoryShown
  [p \in Panes |-> IF panes[p] = l.stream
                     THEN Shown(charts[p], Fetched(l.stream, l.from, l.until))
                     ELSE charts[p]]

HistoryShown(l) ==
  LET start == IF session = "Idle" THEN 0 ELSE clock.start
      bars  == {b \in Fetched(l.stream, l.from, l.until) : b < start}
  IN  [p \in Panes |-> IF panes[p] = l.stream THEN Shown(charts[p], bars) ELSE charts[p]]

ActivateAndPlay ==   \* mutant of Activate
  /\ session' = "Active"
  /\ pending' = 0
  /\ clock' = Play(clock)
  /\ resumePending' = FALSE

Activate ==
  LET c == ResumeFromWaiting(clock)
  IN  /\ session' = "Active"
      /\ pending' = 0
      /\ clock' = IF resumePending /\ c.status = "Paused" THEN Play(c) ELSE c
      /\ resumePending' = FALSE

KlinesLoadCompleted(l) ==
  /\ l \in loads
  /\ loads' = loads \ {l}
  /\ charts' = HistoryShown(l)
  /\ \/ /\ session = "Loading"
        /\ store' = [store EXCEPT ![l.stream] = @ \cup {<<l.from, l.until>>}]
        /\ \/ pending <= 1 /\ Activate
           \/ /\ pending > 1 /\ pending' = pending - 1
              /\ UNCHANGED <<session, clock, resumePending>>
     \/ session # "Loading" /\ UNCHANGED <<session, clock, pending, store, resumePending>>
  /\ UNCHANGED <<mode, rangeInput, autoPlay, active, panes, reloads, playQueued, epoch>>

LoadGoneUnnoticed(l) ==   \* mutant of DataLoadFailed
  /\ l \in loads
  /\ loads' = loads \ {l}
  /\ UNCHANGED <<inputVars, sessionVars, panes, charts, reloads, playQueued, epoch>>

DataLoadFailed(l) ==
  /\ l \in loads
  /\ loads' = loads \ {l}
  /\ ResetSession
  /\ UNCHANGED <<mode, rangeInput, autoPlay, panes, charts, reloads, playQueued, epoch>>

-----------------------------------------------------------------------------
(* System events.                                                          *)

(* handle_dashboard_message sends it after whatever any pane did: a click  *)
(* on a pane is enough, so nothing is asked of the state.                  *)
SyncReplayBuffers ==
  /\ clock' = IF session = "Idle" THEN clock ELSE SetStepSize(clock, MinTimeframe(active))
  /\ UNCHANGED <<inputVars, session, pending, store, active, panes, charts, inFlight>>

(* A pane is given another timeframe: its chart restarts empty, and a      *)
(* chart that replays asks the controller to reload.                       *)
ChangeBasis(p, s) ==
  /\ panes[p] # s
  /\ panes' = [panes EXCEPT ![p] = s]
  /\ charts' = [charts EXCEPT ![p].bars = {}]
  /\ IF charts[p].replay /\ s # NoStream
       THEN /\ WithinBound /\ Cardinality(reloads) < MaxReloads
            /\ reloads' = reloads \cup {[old |-> panes[p], new |-> s]}
       ELSE UNCHANGED reloads
  /\ UNCHANGED <<inputVars, sessionVars, loads, playQueued, epoch>>

RestartRunning(c, step) == Seek(SetStepSize(c, step), c.start)   \* mutant of Restart
Restart(c, step) == Seek(SetStepSize(Pause(c), step), c.start)

ReloadIgnored == session # "Active" /\ UNCHANGED <<sessionVars, charts, loads, epoch>>

ReloadStarted(m) ==
  /\ session = "Active"
  /\ epoch < MaxEpoch
  /\ epoch' = epoch + 1
  /\ active' = (active \ {m.old}) \cup {m.new}
  /\ clock' = Restart(clock, MinTimeframe(active'))
  /\ charts' = EmptyCharts(TRUE)
  /\ session' = "Loading" /\ pending' = 1 /\ UNCHANGED store
  /\ loads' = loads \cup
       {[epoch |-> epoch', for |-> NoStream, stream |-> m.new,
         from |-> LoadFrom(m.new, clock.start), until |-> clock.end]}

ReloadKlineStream(m) ==
  /\ m \in reloads
  /\ reloads' = reloads \ {m}
  /\ ReloadIgnored \/ ReloadStarted(m)
  /\ UNCHANGED <<inputVars, panes, playQueued>>

(* dispatch_tick: a step is taken only over ranges the store holds in full *)
(* for every active stream; the bars of [before, after) go to the charts.  *)
DispatchTick(elapsed) ==
  LET c == Tick(clock, elapsed)
  IN  IF \E s \in active : ~IsLoaded(s)
        THEN /\ clock' = IF clock.status = "Playing" THEN SetWaiting(clock) ELSE clock
             /\ UNCHANGED charts
        ELSE /\ clock' = c
             /\ charts' = [p \in Panes |->
                  IF panes[p] \in active
                    THEN Shown(charts[p], KlinesIn(panes[p], clock.now, c.now))
                    ELSE charts[p]]

TickSession(elapsed) ==
  /\ session # "Idle"
  /\ DispatchTick(elapsed)
  /\ UNCHANGED <<inputVars, session, pending, store, active, panes, inFlight>>

(* The frame timer looks at the mode, the HTTP command GetStatus, which    *)
(* ticks as well, at whether a session plays.                              *)
TickReplay(elapsed) == mode = "Replay" /\ TickSession(elapsed)
GetStatus(elapsed)  == IsPlaying /\ TickSession(elapsed)

-----------------------------------------------------------------------------
User ==
  \/ ToggleMode
  \/ \E t \in StartTexts : StartTimeChanged(t)
  \/ \E t \in EndTexts : EndTimeChanged(t)
  \/ UserPlay
  \/ \E range \in Ranges : ApiPlay(range)
  \/ Resume
  \/ PauseReplay
  \/ StepForward
  \/ StepBackward
  \/ CycleSpeed
  \/ \E p \in Panes, s \in Streams \cup {NoStream} : ChangeBasis(p, s)

LoadFinishes == \E l \in loads : KlinesLoadCompleted(l) \/ DataLoadFailed(l)
LoadSucceeds == \E l \in loads : KlinesLoadCompleted(l)
Reloading    == \E m \in reloads : ReloadKlineStream(m)
Frame        == \E elapsed \in 1 .. MaxLag : TickReplay(elapsed)
StatusPoll   == \E elapsed \in 1 .. MaxLag : GetStatus(elapsed)

Next ==
  \/ User
  \/ FireAutoPlay
  \/ QueuedPlay
  \/ SessionUnavailable
  \/ SyncReplayBuffers
  \/ LoadFinishes
  \/ Reloading
  \/ Frame
  \/ StatusPoll

(* The frame timer keeps firing and queued messages are handled; a load    *)
(* ends one way or the other (requests have time-outs).                    *)
Fairness == WF_vars(Frame) /\ WF_vars(LoadFinishes) /\ WF_vars(Reloading) /\ WF_vars(QueuedPlay)

Spec == Init /\ [][Next]_vars /\ Fairness
=============================================================================
