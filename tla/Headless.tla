------------------------------- MODULE Headless -------------------------------
(***************************************************************************)
(* The headless replay (src/src/headless.rs): a process without windows    *)
(* that an agent drives over HTTP.  HeadlessEngine has the session, clock, *)
(* store and virtual exchange of the GUI, and a controller of its own.     *)
(*                                                                         *)
(* Its loop takes one thing at a time: a finished load, a command, a tick. *)
(* Commands arrive one by one (the HTTP server answers a request before it *)
(* reads the next) and are awaited to the end, storing a narrative too.    *)
(* What runs beside it are kline loads and the tasks that write outcomes.  *)
(*                                                                         *)
(* There is one kline stream, the ticker and timeframe of the command      *)
(* line, so pending_count is 1 while a session loads.  Panes are labels,   *)
(* but the least of their timeframes is the width of a step.               *)
(***************************************************************************)
EXTENDS StepClock, OrderBook, Narratives

CONSTANTS
  Timeframe,       \* --timeframe, in milliseconds
  Ticker,          \* --ticker
  Timeframes,      \* what a pane may be set to
  Tickers,         \* what an order may name
  Limits,          \* prices of limit orders
  HasBars,         \* opening times the venue has bars for
  CloseOf,         \* [HasBars -> Nat]
  Starts, Ends,    \* the times a Play command may name
  HistoryBars,     \* PRE_START_HISTORY_BARS
  Speeds,          \* SPEEDS, a sequence
  MaxLag,          \* bound: wall time between two ticks
  MaxPanes,        \* bound: panes at once
  MaxPlays,        \* bound: Play commands
  MaxOrders,       \* bound: orders ever placed
  MaxCrashes       \* bound: restarts of the process

ASSUME HeadlessAssumption ==
  /\ Timeframe \in Nat \ {0} /\ Timeframes \subseteq Nat \ {0}
  /\ Ticker \in STRING /\ Tickers \subseteq STRING /\ Limits \subseteq Nat
  /\ HasBars \subseteq Nat /\ CloseOf \in [HasBars -> Nat]
  /\ Starts \subseteq Nat /\ Ends \subseteq Nat
  /\ HistoryBars \in Nat
  /\ Speeds \in Seq(Nat \ {0}) /\ Speeds # <<>>
  /\ MaxLag \in Nat /\ MaxPanes \in Nat \ {0} /\ MaxPlays \in Nat
  /\ MaxOrders \in Nat /\ MaxCrashes \in Nat

VARIABLES
  session,   \* the constructor of ReplaySession
  clock,     \* its fields; NoClock and {} where it has none
  store,     \* loaded_ranges of the stream
  loads,     \* load_klines tasks and results in the channel
  plays,     \* history: Play commands so far, crashes included
  panes,     \* HeadlessPane, in order
  book,      \* virtual_engine
  issued,    \* history: orders placed so far; an order's number is its UUID
  crashes    \* history

sessionVars  == <<session, clock, store>>
loadVars     == <<loads, plays>>
headlessVars == <<sessionVars, loadVars, panes, book, issued, crashes>>
hvars == <<headlessVars, narrativeVars>>

NoClock == NewClock(0, 0, Timeframe)
Pane    == [id : Nat \ {0}, timeframe : Nat \ {0}]
Load    == [play : Nat, from : Nat, until : Nat]

TypeOK ==
  /\ session \in {"Idle", "Loading", "Active"}
  /\ clock \in Clock
  /\ store \subseteq Nat \X Nat
  /\ loads \subseteq Load
  /\ plays \in 0 .. MaxPlays
  /\ panes \in Seq(Pane) /\ panes # <<>>
  /\ \A i, j \in DOMAIN panes : panes[i].id = panes[j].id => i = j
  /\ book \in Book
  /\ issued \in 0 .. MaxOrders
  /\ crashes \in 0 .. MaxCrashes
  /\ TypeOKNarratives

-----------------------------------------------------------------------------
(* Helpers.                                                                *)

FirstPane == <<[id |-> 1, timeframe |-> Timeframe]>>

IsPlaying == session = "Active" /\ clock.status = "Playing"
IsPaused  == session = "Active" /\ clock.status = "Paused"

Monus(a, b) == IF a < b THEN 0 ELSE a - b

LoadFrom(start) == Monus(start, HistoryBars * Timeframe)

StoredBars    == {b \in HasBars : \E r \in store : r[1] <= b /\ b <= r[2]}
BarsBefore(t) == {b \in StoredBars : b < t}
IsLoaded      == \E r \in store : r[1] <= clock.start /\ clock.end <= r[2]

(* min_step_ms, of all panes.                                              *)
PaneStep == Min({panes[i].timeframe : i \in DOMAIN panes})

HasPane(id)   == \E i \in DOMAIN panes : panes[i].id = id
IndexOf(id)   == CHOOSE i \in DOMAIN panes : panes[i].id = id
FreshPaneId   == Min({id \in 1 .. MaxPanes : ~HasPane(id)})

StartOnTheRun == IF session = "Active" THEN Seek(clock, clock.start) ELSE clock   \* mutant of ToTheStart

(* Pause and seek to the start, in an active session only.                 *)
ToTheStart == IF session = "Active" THEN Seek(Pause(clock), clock.start) ELSE clock

Init ==
  /\ session = "Idle" /\ clock = NoClock /\ store = {}
  /\ loads = {} /\ plays = 0
  /\ panes = FirstPane /\ book = EmptyBook /\ issued = 0 /\ crashes = 0
  /\ NarrativesInit

-----------------------------------------------------------------------------
(* Replay commands.                                                        *)

KeepBook == book   \* mutant of BookAfterPlay
BookAfterPlay == EmptyBook

(* A new session replaces the old one whatever it was doing; its load is   *)
(* one more task, and nothing stops those of the sessions before.          *)
PlayCommand(start, end) ==
  /\ start < end /\ plays < MaxPlays
  /\ plays' = plays + 1
  /\ session' = "Loading"
  /\ clock' = SetWaiting(NewClock(start, end, Timeframe))
  /\ store' = {}
  /\ book' = BookAfterPlay
  /\ loads' = loads \cup {[play |-> plays', from |-> LoadFrom(start), until |-> end]}
  /\ UNCHANGED <<panes, issued, crashes, narrativeVars>>

PauseCommand ==
  /\ session = "Active"
  /\ clock' = Pause(clock)
  /\ UNCHANGED <<session, store, loadVars, panes, book, issued, crashes, narrativeVars>>

(* Any active clock: also one that waits, or stands at the end.            *)
ResumeCommand ==
  /\ session = "Active"
  /\ clock' = Play(clock)
  /\ UNCHANGED <<session, store, loadVars, panes, book, issued, crashes, narrativeVars>>

ToggleCommand == IF IsPlaying THEN PauseCommand ELSE ResumeCommand

NextSpeed(speed) ==
  LET at == {i \in 1 .. Len(Speeds) : Speeds[i] = speed}
  IN  IF at = {} THEN Speeds[1] ELSE Speeds[(Min(at) % Len(Speeds)) + 1]

CycleSpeed ==
  /\ session # "Idle"
  /\ clock' = SetSpeed(clock, NextSpeed(clock.speed))
  /\ UNCHANGED <<session, store, loadVars, panes, book, issued, crashes, narrativeVars>>

AllBars(t) == StoredBars   \* mutant of BarsUpTo
BarsUpTo(t) == BarsBefore(t + 1)

(* The fills of a step: at the close of the last bar that has opened.      *)
FillAt(t) ==
  LET trades == <<CloseOf[Max(BarsUpTo(t))]>>
  IN  IF BarsUpTo(t) = {} THEN UNCHANGED <<book, narrativeVars>>
      ELSE /\ book' = OnTick(book, Ticker, trades, t)
           /\ StartOutcomeTasks(FillEvents(book, Ticker, trades, t))
           /\ UNCHANGED <<rows, files, creating, lost>>

(* From a playing session to the end, without a fill.  From a paused one   *)
(* by the step of the panes; the clock snaps to its own, but fills and the *)
(* reply carry the time that was asked for.                                *)
StepForward ==
  /\ LET next == clock.now + PaneStep
     IN  \/ /\ IsPlaying
            /\ clock' = Seek(Pause(clock), clock.end)
            /\ UNCHANGED <<book, narrativeVars>>
         \/ /\ IsPaused /\ next <= clock.end
            /\ clock' = Seek(clock, next)
            /\ FillAt(next)
  /\ UNCHANGED <<session, store, loadVars, panes, issued, crashes>>

StepBackTarget ==
  LET target == IF BarsBefore(clock.now) = {} THEN Monus(clock.now, PaneStep)
                ELSE Max(BarsBefore(clock.now))
  IN  IF target < clock.start THEN clock.start ELSE target

StepBackward ==
  /\ \/ IsPlaying /\ clock' = ToTheStart
     \/ /\ IsPaused /\ clock.now > clock.start
        /\ clock' = Seek(clock, StepBackTarget)
  /\ book' = EmptyBook
  /\ UNCHANGED <<session, store, loadVars, panes, issued, crashes, narrativeVars>>

-----------------------------------------------------------------------------
(* Orders are taken in any state of the session, at time 0 without one.    *)

PlaceOrderCommand(ticker, side, limit) ==
  /\ issued < MaxOrders
  /\ issued' = issued + 1
  /\ book' = PlaceOrder(book, [id |-> issued', ticker |-> ticker, side |-> side,
                               qty |-> 1, limit |-> limit, placed |-> clock.now])
  /\ UNCHANGED <<sessionVars, loadVars, panes, crashes, narrativeVars>>

-----------------------------------------------------------------------------
(* Panes.                                                                  *)

SplitPane(id) ==
  /\ HasPane(id) /\ Len(panes) < MaxPanes
  /\ panes' = Append(panes, [id |-> FreshPaneId,
                             timeframe |-> panes[IndexOf(id)].timeframe])
  /\ UNCHANGED <<sessionVars, loadVars, book, issued, crashes, narrativeVars>>

(* retain, of which an id that is no other pane's takes one.               *)
ClosePane(id) ==
  /\ Len(panes) > 1 /\ HasPane(id)
  /\ panes' = RemoveAt(panes, IndexOf(id))
  /\ UNCHANGED <<sessionVars, loadVars, book, issued, crashes, narrativeVars>>

(* The label changes; the first pane's takes the session to its start and  *)
(* clears the book.                                                        *)
SetPaneTicker(id) ==
  /\ HasPane(id) /\ IndexOf(id) = 1
  /\ clock' = ToTheStart
  /\ book' = EmptyBook
  /\ UNCHANGED <<session, store, loadVars, panes, issued, crashes, narrativeVars>>

(* The same for a timeframe, but the book stays as it is.  Neither the     *)
(* stream nor the clock's step changes.                                    *)
SetPaneTimeframe(id, timeframe) ==
  /\ HasPane(id)
  /\ panes' = [panes EXCEPT ![IndexOf(id)].timeframe = timeframe]
  /\ clock' = IF IndexOf(id) = 1 THEN ToTheStart ELSE clock
  /\ UNCHANGED <<session, store, loadVars, book, issued, crashes, narrativeVars>>

-----------------------------------------------------------------------------
(* The other branches of the loop.                                         *)

LoadTaken(l) == l \in loads /\ loads' = loads \ {l} /\ UNCHANGED plays

(* Whichever load it is, it completes the session that loads.              *)
LoadSucceeded(l) ==
  /\ LoadTaken(l)
  /\ IF session = "Loading"
       THEN /\ session' = "Active"
            /\ store' = store \cup {<<l.from, l.until>>}
            /\ clock' = ResumeFromWaiting(clock)
       ELSE UNCHANGED sessionVars
  /\ UNCHANGED <<panes, book, issued, crashes, narrativeVars>>

LoadGoneUnnoticed(l) ==   \* mutant of LoadFailed
  LoadTaken(l) /\ UNCHANGED <<sessionVars, panes, book, issued, crashes, narrativeVars>>

(* Whichever load it is, the session is gone; the book is not.             *)
LoadFailed(l) ==
  /\ LoadTaken(l)
  /\ session' = "Idle" /\ clock' = NoClock /\ store' = {}
  /\ UNCHANGED <<panes, book, issued, crashes, narrativeVars>>

(* Every 100 ms while playing.  Trades are never loaded, so a tick fills   *)
(* nothing.                                                                *)
TickBranch(elapsed) ==
  /\ IsPlaying
  /\ clock' = IF IsLoaded THEN Tick(clock, elapsed) ELSE SetWaiting(clock)
  /\ UNCHANGED <<session, store, loadVars, panes, book, issued, crashes, narrativeVars>>

(* The process ends and is started again with the same arguments.          *)
Crash ==
  /\ crashes < MaxCrashes
  /\ crashes' = crashes + 1
  /\ session' = "Idle" /\ clock' = NoClock /\ store' = {} /\ loads' = {}
  /\ panes' = FirstPane /\ book' = EmptyBook
  /\ NarrativesCrash
  /\ UNCHANGED <<plays, issued>>

-----------------------------------------------------------------------------
ReplayCommand ==
  \/ \E start \in Starts, end \in Ends : PlayCommand(start, end)
  \/ PauseCommand
  \/ ResumeCommand
  \/ ToggleCommand
  \/ CycleSpeed
  \/ StepForward
  \/ StepBackward

PaneCommand ==
  \E id \in 1 .. MaxPanes :
    \/ SplitPane(id)
    \/ ClosePane(id)
    \/ SetPaneTicker(id)
    \/ \E timeframe \in Timeframes : SetPaneTimeframe(id, timeframe)

OrderCommand ==
  \E ticker \in Tickers, side \in Sides, limit \in Limits \cup {Market} :
    PlaceOrderCommand(ticker, side, limit)

NarrativeCommand ==
  \/ \E key \in Keys \cup {NoKey}, link \in 0 .. issued : WriteSnapshot(key, link)
  \/ \E id \in Ids : SetPublic(id)

(* A command is begun when the one before it has been answered.            *)
Serve ==
  /\ creating = {}
  /\ \/ ReplayCommand
     \/ PaneCommand
     \/ OrderCommand
     \/ NarrativeCommand /\ UNCHANGED headlessVars

(* The rest of storing a narrative, which the loop awaits.                 *)
FinishCreate == (InsertRow \/ InsertFails) /\ UNCHANGED headlessVars

OutcomeTask ==
  /\ \E o \in outcomes : UpdateOutcome(o) \/ UpdateFails(o)
  /\ UNCHANGED headlessVars

LoadBranch == creating = {} /\ \E l \in loads : LoadSucceeded(l) \/ LoadFailed(l)
TickOfLoop == creating = {} /\ \E elapsed \in 1 .. MaxLag : TickBranch(elapsed)

Next == Serve \/ FinishCreate \/ OutcomeTask \/ LoadBranch \/ TickOfLoop \/ Crash

Spec == Init /\ [][Next]_hvars

-----------------------------------------------------------------------------
(* Properties.                                                             *)

(* A session that loads can always become active: its own load is still to *)
(* come in (play, handle_load_result), whatever earlier loads do.  An      *)
(* active one has loaded something, and without a session nothing is left  *)
(* of the one before.                                                      *)
SessionHasItsLoad ==
  /\ ClockOK(clock)
  /\ session = "Loading" =>
       /\ clock.status = "Waiting" /\ clock.now = clock.start
       /\ \E l \in loads : l.play = plays
  /\ session = "Active" => store # {}
  /\ session = "Idle" => clock = NoClock /\ store = {}

SessionIsSound == TypeOK /\ SessionHasItsLoad

(* The headless engine keeps the promise of the GUI's controller.          *)
Abstract == INSTANCE Playback WITH AlwaysLoads <- TRUE,
  phase <- session, start <- clock.start, end <- clock.end, time <- clock.now,
  step <- clock.step, playing <- clock.status = "Playing"

ImplementsPlayback == Abstract!Spec

(* Fills belong to the moment they happen in: a step fills at the close of *)
(* a bar that has opened by the clock it leads to, and dates the fill less *)
(* than a step from it, whatever mix of pane timeframes asked for it       *)
(* (step_forward asks for panes' time, the clock snaps to its own).        *)
FillsAreOfTheMoment ==
  [][\A f \in fills' \ fills :
       /\ clock'.now <= f.time /\ f.time < clock'.now + clock'.step
       /\ \E b \in StoredBars : b < clock'.now + clock'.step /\ CloseOf[b] = f.price]_hvars

(* Whoever takes the time of a running session back, its trades go with it *)
(* (virtual_engine.reset() in play, step_backward and set_pane_ticker).    *)
(* set_pane_timeframe goes back and keeps the book: it is the exception.   *)
TimeframeRestart ==
  \E id \in 1 .. MaxPanes, timeframe \in Timeframes : SetPaneTimeframe(id, timeframe)

GoingBackClearsTheBook ==
  [][(session' # "Idle" /\ clock'.now < clock.now /\ ~TimeframeRestart)
       => book'.orders = <<>> /\ book'.positions = <<>> /\ book'.cash = InitialCash]_hvars

(* What is in the book belongs to the time that the clock shows, forwards  *)
(* and back.                                                               *)
TheBookIsOfTheMoment == FillsAreOfTheMoment /\ GoingBackClearsTheBook
=============================================================================
