# Flowsurface: a specification of its state and concurrency

Flowsurface is a desktop charting application (Rust, iced). It shows live
market data, and can *replay* a past range: charts are fed bar by bar under a
virtual clock, and orders are filled by a virtual exchange. A headless build
does the same for agents that talk HTTP. This directory specifies, in TLA+, the
replay with its orders, the live data feeds, the start of the program, and what
the screen makes of the data; it checks the specification with TLC and proves its central invariants
with TLAPS. Paths below are relative to the application crate (`src/` inside
the repository, so files read `src/src/...` in `PROJECT.json`), except those
that start with `exchange/`, `data/` or `docs/`.

Contents: [1 Inventory](#1-inventory) · [2 Plan](#2-plan) ·
[3 Modules](#3-modules-and-their-correspondence-to-the-code) ·
[4 Runs](#4-runs) · [5 Bounds and fairness](#5-bounds-and-fairness) ·
[6 Proofs](#6-proofs) · [7 Disagreements found](#7-where-the-code-and-its-documentation-disagree) ·
[8 What is not modelled](#8-what-is-not-modelled-and-why)

## 1 Inventory

The application is one iced `update` loop: messages are handled one at a time,
to the end. Concurrency is what is in flight around that loop: `Task`s
(fetches, kline loads, file writes, calls to the broker), subscriptions (frame
timer, websockets) and the HTTP API server, whose requests arrive as messages.
The headless build replaces it by a `select!` loop over commands, loads and
ticks.

| component | state | operations | interacts with |
|---|---|---|---|
| Replay clock (`src/replay/clock.rs`) | `now`, range, status, speed, step size, due time of the next step | play, pause, seek, set speed / step size, waiting, tick | owned by the session |
| Replay controller (`src/replay/mod.rs`, `controller/`, `dispatcher.rs`, `store.rs`, `loader.rs`) | mode, range inputs, session (Idle / Loading / Active), pending count, loaded ranges, active streams, two "start by yourself" flags | user messages, load events, system events, tick | panes (injects bars, empties charts), load tasks, application |
| Panes and kline charts (`src/screen/dashboard*`, `src/chart/kline`) | stream and bars of each pane, replay flag | basis change, ticker change, historical and live inserts | send `ReloadKlineStream`; every pane message is followed by `SyncReplayBuffers` |
| Virtual exchange (`src/replay/virtual_exchange/`) | pending orders, positions, cash | place, on_tick, reset | application (fills on StepForward) |
| Application wiring (`src/app/`) | the exchange, auto-play gate, copies of the mode | `handle_replay`, `handle_tick`, HTTP commands | all of the above |
| Order panels (`src/screen/dashboard/panel/order_*.rs`, `order_handler.rs`) | form, confirmation, waiting flag, a copy of the mode | type, confirm, submit, refresh, modify, answers | virtual exchange or the broker |
| Headless replay (`src/headless.rs`) | its own session, clock, exchange and panes | HTTP commands, loads, ticks | load tasks, narratives |
| Narratives (`src/narrative/`) | SQLite rows, snapshot files | create, outcome update, publish, collect orphans | fills, HTTP API |
| HTTP API (`src/replay_api.rs`, `src/app/api/`) | one reply channel per request | parse, route, reply | application |
| Live data fetching (`src/connector/fetcher.rs`, `src/chart/kline`) | request table with cool-down, tasks | request, complete, fail | charts |
| Streams (`src/connector/stream.rs`, adapters) | connection, buffers of trades | connect, read, flush, reconnect | application |
| Depth synchronisation (`exchange/src/depth.rs`, adapters) | local book, last update id | snapshot, diff, resync | adapters |
| Rate limiting (`exchange/src/limiter.rs`) | token buckets behind a lock | wait, consume, adjust | every REST call |
| Charts (`src/chart/`, `data/src/aggr/`, `data/src/chart/`) | runs of resting orders; bars, trades in them, points of control | insert, aggregate, change of basis and step | panes |
| Layouts and persistence (`src/modal/layout_manager.rs`, `src/layout.rs`, `src/app/persistence.rs`, `pane_ops.rs`) | layouts, panes, windows, the saved file | add, clone, remove, rename, select, split, close, pop out, merge, save, restore | windows, HTTP API |
| Tachibana session (`exchange/src/adapter/tachibana.rs`, `src/connector/auth.rs`, `order.rs`) | session URLs, real orders | login, restore, submit, cancel | order panels |
| Sidebar (`src/screen/dashboard/tickers_table.rs`) | what is known of each ticker, rows with an index, stars, exchanges selected, state of the statistics requests | metadata, statistics, sort, star, select | adapters; panes that wait for metadata |
| Start (`src/app/mod.rs`, `handlers.rs`, `src/connector/stream.rs`) | login window, panes whose saved streams wait, auto-play flag | restore the session, log in, resolve streams, auto-play | broker, sidebar, controller |
| User interface | views | draw | all |

**Hard behaviour.** Kline loads are never cancelled, finish in any order and
carry no name of the session that started them. A pane's change of timeframe is
one message, the reload it asks for another. The frame timer is late by any
amount. Two flags (`resume_pending`, `pending_auto_play`) are set in one message
and acted on in a later one. The HTTP API sends what the buttons do not allow,
and partly goes around the handler that keeps the exchange in step. The mode is
copied to three places. A live fetch is answered by a message to the pane,
whatever the pane shows by then. Depth frames and snapshots are of different
moments, and frames are lost. Trades, bars and batches of older trades reach a
footprint in any order. A window's first click comes when it has opened, and a
focus outlives its window. Files and rows are written one after the other, and
processes end between them. `PROJECT.json` lists the hazards line by line.

**What makes each component correct.**

* Clock: always on a bar boundary of its range or at its end; due time exactly
  when playing; late ticks neither lose nor repeat a step; runs out.
* Controller: a loading session can finish and does; playing comes to rest; no
  bar is skipped, none is shown early; nothing starts by itself; speed survives.
  In one sentence, it is a player (`Playback`).
* Virtual exchange: one side at a time, first in first out, every order pending
  or filled once, limits kept, cash reconciles.
* Wiring: the exchange exists in Replay only; nothing in it is dated after the
  virtual time; going back clears it; orders fill at the next tick; no order of
  a replay reaches the broker and none of Live the virtual exchange.
* Headless: the same player, and fills at the prices of the moment.
* Narratives: a row for each key, a file for each row, outcomes that are those of
  the fills, none forgotten.
* Live data: the book shown is one the venue had; trades once and in order; the
  venue counts no more weight than it allows; bars of a chart are of its
  timeframe, and its window fills.
* Heatmap: what was seen in the book is drawn, nothing else. Footprint: each
  trade it was given is in its bar; points of control are what they are drawn as.
* Subscriptions: what the program subscribes to is what its panes show; where a
  change leaves a pane out, something brings it back.
* Sidebar: each ticker has one row and the index finds it; the exchanges selected
  are asked, and none too often. Start: a saved replay plays by itself once every
  pane is ready, once, or not at all after the user has taken over.
* Layouts: no pane is lost or doubled, over windows, switches, restarts and
  crashes; the layout that was active comes back.

## 2 Plan

The order followed what the program is for: replay first, then what it shares
with live data, then the screen.

| # | modules | checked in | proved |
|---|---|---|---|
| 1 | `StepClock`, `ClockDriver` | `MCReplayParts` | `StepClockProofs`, `ReplayPartsProofs` |
| 2 | `ReplaySession`, `SessionProperties` | `MCReplaySession` | `ReplayProofs` |
| 3 | `OrderBook`, `VirtualExchange` | `MCReplayParts` | `OrderBookProofs`, `ReplayPartsProofs` |
| 4 | `ReplayTrading` = `ReplaySession` + `OrderBook` | `MCReplayTrading`, `MCPlayback` | `ReplayProofs` |
| 5 | `Playback`, the abstract player, implemented by `ReplaySession` and by `Headless` | `MCReplaySession`, `MCHeadless` | `ReplayProofs`, `HeadlessProofs` |
| 6 | `KlineFetch` | `MCLiveData` | `LiveDataProofs` |
| 7 | `OrderPanels` | `MCReplayParts` | `ReplayPartsProofs` |
| 8 | `Headless` = `StepClock` + `OrderBook` + `Narratives` | `MCHeadless` | `HeadlessProofs` |
| 9 | `DepthFeed`, `TradeFeed`, `RateLimiter` | `MCLiveData` | `LiveDataProofs` |
| 10 | `DepthHistory`, `Footprint`, `Layouts` | `MCScreen` | `ChartProofs`, `LayoutsProofs` |
| 11 | `TickersTable`, `Startup` = `TickersTable` + the session and the panes that wait | `MCLiveData` | `LiveDataProofs` |
| 12 | `Subscriptions` | `MCReplayParts` | `ReplayPartsProofs` |

Composition: `StepClock` and `OrderBook` are values with operators, and hold no
variables; `ClockDriver` and `VirtualExchange` put each under arbitrary callers;
`ReplaySession` EXTENDS `StepClock`; `ReplayTrading` EXTENDS `ReplaySession` and
`OrderBook` and wraps the session's actions; `Headless` EXTENDS the same two and
`Narratives`. `MCReplayParts`, `MCLiveData` and `MCScreen` put components that
share no state side by side: a variable `part` says which one moves in a
behaviour. Nothing is gained by interleaving them, and each is checked as if it
were alone.

What would come next: the ladder (its own copy of the book and its tracking of
levels), and the reload of several panes by one ticker switch.

## 3 Modules and their correspondence to the code

### `StepClock`: `src/replay/clock.rs`

The clock is a record and every method an operator from record to record. The
due time of the next step is kept *relative* to the instant of the last tick
(`armed`, `wait`), because the code only ever compares it with the wall clock
and adds delays to it. `Tick(c, elapsed)` is the catch-up loop in closed form:
`StepsDue` is the number of iterations, `Advance` and `Stop` what they leave.
That the closed form *is* the loop is itself checked, against an
iteration-by-iteration definition (`TickIsTheLoop`, over `LoopFrom` of
`ClockDriver`), and proved for every clock (section 6). `base_step_delay_ms / speed` truncates as
in the code, and a delay of zero jumps to the end.

`ClockOK` is the invariant the code relies on: in range, on a step of the range
or at its end, armed exactly when playing (`tick` calls `expect` on it).

### `ClockDriver`

One clock, every call in every order, ticks that come up to `MaxLag` late. The
history variable `pace` remembers wall time played and the place playing began,
at one speed and one step size, to state `KeepsPace`.

### `ReplaySession`: the controller

| variable | in the code |
|---|---|
| `mode`, `rangeInput`, `autoPlay`, `resumePending` | fields of `ReplayState` |
| `session`, `clock`, `pending`, `store`, `active` | `ReplaySession` and the fields of its variants; `NoClock`, 0, `NoData`, {} where a variant has none |
| `panes`, `charts` | each pane's kline stream; the bars of its `KlineChart` and whether it was built for replay |
| `loads`, `reloads`, `playQueued` | tasks and messages that have been sent and not yet handled |
| `epoch` | history: how many times loads were started |

One action per message: `ToggleMode`, `StartTimeChanged`, `EndTimeChanged`,
`UserPlay`/`ApiPlay`/`QueuedPlay` (the same handler `HandlePlay` by the button,
the HTTP command and auto-play), `Resume`, `PauseReplay`, `StepForward`,
`StepBackward`, `CycleSpeed`, `KlinesLoadCompleted`, `DataLoadFailed`,
`SyncReplayBuffers`, `ReloadKlineStream`, and `TickReplay` for frames. The HTTP
command GetStatus ticks the session too (`StatusPoll`), and looks at another
condition than the frame timer does. `ChangeBasis` is the pane's part of a
timeframe change. Early returns are disjuncts (`PlayRejected`, `ReloadIgnored`).

A load is a record of stream and range; its `epoch` is for the properties only
and no action of the controller reads it, as no code does. Loads are started per
*pane* while `pending` counts *streams*, as in the code; equal loads of two
panes are told apart by `for`. What a venue answers is `BarsOf`, cut to the
range asked for. Bars are their opening times. Several messages may carry the
same `ReloadKlineStream`; the set `reloads` keeps one of each.

`KlineChart` is here what `inject`, `ingest` and `reset` make of it. Trades of
the store are left out: `ingest_loaded` is only ever called with none.

### `SessionProperties`

All properties of the controller, and a statement of the documentation the code
does not keep. It also holds the refinement mapping to `Playback`.

### `Playback`: what a session promises

The abstract player: no session, loading, or active; a range, a time in it, a
step, playing or not. Time runs by itself only while an active session plays,
and stops playing at the end; every other move is a jump that leaves the session
standing, or the snap of a new step size, which takes back less than a step; a
loading session stands at its start. `ReplaySession` implements it
(`ImplementsPlayback`, with `Playback`'s variables mapped to the fields of the
clock), and so does `Headless`, which repeats the controller's logic with
differences of its own. `AlwaysLoads` is what the two differ in: without panes
the controller starts a session that is active at once.

### `OrderBook`, `VirtualExchange`: `src/replay/virtual_exchange/`

The book is a record of pending orders, positions and cash. In `OnTick` each
pending order has its turn in the order of the list (`TakeTurn`): it fills and is
settled on the book the earlier turns left, or it stays pending (`retain`).
`Settle` is the netting rule: an order of the opposite side
closes the oldest open position of the ticker, whatever its quantity, and
otherwise opens one. Money and quantities are integers: what an `f64` rounds is
not modelled.

### `ReplayTrading`: `src/app/dashboard.rs` and the paths around it

`handle_replay` compares the virtual time before and after the controller's
handler: `ThroughController /\ EngineFollows`. A step forward is the one message
that fills orders (`StepForwardTrading`), one synthetic trade per active stream
at the last close; the streams come from a hash set, so every order of them is
taken (`SetToSeqs`). The frame timer, status polls, panes and the HTTP command
Play change the controller without passing `handle_replay`: `AroundController`.
During playback orders fill only from trade events, of which there are none, so
frames leave the book alone; that is the code's behaviour and not a
simplification. `ApiOrder` and `PanelOrder` are the two ways an order arrives,
with the ticker and the time each of them puts on it. Orders are market orders
for one unit here; kinds and sizes are `VirtualExchange`'s subject.

### `OrderPanels`: where an order goes

The mode (`inReplay`) has three copies that decide whether an order is virtual
or real: `guard` of each layout's dashboard (`is_replay`), the copy of each pane
and that of each order entry panel. `SwitchMode` and `SyncHandled` write them
for the layout that is active then. Everything a pane does is followed by a
message (`onTheWay`) whose handling makes up for what was opened or switched to
since. A form is whether it has a quantity (none, text, a number) and a
password; calls to the broker are a set of tasks whose answers are messages to
the pane that made them, whatever it shows by then (`Asked`).

### `Headless`, `Narratives`: `src/headless.rs`, `src/narrative/`

The `select!` loop takes one thing at a time: a command (`Serve`), a load
(`LoadBranch`), a tick (`TickOfLoop`). Commands are awaited to the end, so the
two writes of a narrative (`WriteSnapshot`, then `InsertRow` or `InsertFails`)
let nothing of the loop in between, but outcome tasks run and the process may
end (`Crash`), which leaves rows and files and loses everything else. A
narrative is its id, its idempotency key and the order it names. Panes are
labels, except that the least of their timeframes is the width of a step.

### `KlineFetch`: what a live chart asks for

`FetchMissingData` is `fetch_missing_data` with its four questions in order
(empty chart, older bars, gaps, none), `Granted` the request table with its
overlaps and cool-downs, `Answer` the message a task ends in, to the pane as it
is by then. The pane may have another timeframe or ticker, or be in Replay. A
venue has a bar for each interval except on `Holidays`, so that some requests
bring nothing new.

### `DepthFeed`, `TradeFeed`, `RateLimiter`: the adapters' loops

`DepthFeed` has the four ways in which adapters keep a book: a fetched snapshot
under queued, numbered frames (Binance), a first frame that is the book (Bybit,
OKX), a snapshot fetched at the confirmation (MEXC), frames that are books
(Hyperliquid, Tachibana). A book maps a level to the update that set it last, so
it can be compared with the venue's book of the same update. `TradeFeed` is one
stream for several tickers: buffers, the flush interval, and the four ways a
connection ends. `RateLimiter` is the bucket that follows the venue's own count,
its fallback window, and the lock that is held over the wait and the request.

### `Subscriptions`: what the panes show and what is asked of the venues

A pane has streams of its own; `subscribed` is the dashboard's table of them
(`Dashboard::streams`), from which `subscription()` makes the connections in
Live. An operation on a pane ends in one of three ways: the table is derived
again from all panes (`Refresh`, `refresh_streams`), gets the pane's streams
added (`Extend`), or hears nothing (`Keep`, `NotTold`). `Showing` is
`set_content_and_streams` with `PaneSetup::new`, `BasisStreams` what
`handle_basis_for_kline` writes, `ResolveContent` what a tick does to a pane
whose chart was parked. A stream is its kind, its ticker and what tells two
subscriptions apart: timeframe, price grouping, push frequency. `untold` is
history: the panes whose streams changed without a word. A frame of the venue
changes something here only if no pane wants it (`UnwantedFrame`).

### `TickersTable`, `Startup`: the sidebar, and from launch to the first playback

`TickersTable` is the update function of the table. `rows` and `rowIndex` are the
vector and the map into it, with one value per row to sort by; `stats` is
`StatsFetchState`, whose instants are kept as ages (`age`, up to the interval)
and as what is left of the delay (`wait`). `Scheduled` is `schedule_venues`, with
its three questions; metadata, the timer and the debounce all end in it. Answers
may come for an exchange that was switched off meanwhile. `Sorted` leaves the
order of rows of equal value open, as `sort_unstable_by` does.

`Startup` EXTENDS it. `stage` says which window there is, `answers` has the
metadata asked for at launch, read from the file of an earlier download, and
downloaded after login. `waiting` has the panes with the tickers of their saved
streams, whether these are resolved, and whether the retry interval is over
(`due`); `resolving` the messages a tick sends round, which carry the streams
the pane had then. The handler of that message is where auto-play is decided
(`ResolveStreams`). `spent` and `touched` are history.

### `DepthHistory`, `Footprint`: what charts make of the data

`DepthHistory` is the heatmap's memory of a level: runs of time over which an
amount rested there. `UpdatePriceLevel` extends, cuts, ends or starts a run;
`Process` inserts a snapshot, or those held back while the user looked at the
past, and cleans up; `StartOver` is a new basis or price step. `Coalesce` joins
runs for drawing, with the averages the code rounds. `sights` is the history the
runs are compared with: what each bucket last saw.

`Footprint` has the two kinds of bars (of time, of a number of trades), the
trades in them and the points of control, and every way trades get there: the
stream, batches of older trades with the task that fetches them, answers with
bars, a new basis or step, a seek. A trade is its place on the venue's tape; all
have one size, so that the busiest price is the one with most trades, and which
of two equally busy ones a hash map gives first is a choice (`tie`).

### `Layouts`: layouts, panes, windows

`layouts` is the manager's list; each layout has the panes of the main window's
grid by their numbers, those popped out by their windows, and a focus. `Press`
is the mouse on a pane or one of its buttons (the focus moves then), `Popout`
and `Merge` are the messages of the release. A window that opens sends its click
later (`clicks`). HTTP requests split and close panes by number. `SaveState` and
`Start` are `save_state_to_disk` and `load_saved_state`, which forget ids and
windows and keep names; `Crash` is the end of the process without a save. Names
are sequences of a base and suffixes, with the room the 20 characters leave.
`owed` is the history: the panes the user has.

## 4 Runs

| run | module, cfg | shows |
|---|---|---|
| `replay_parts` | `MCReplayParts` | the clock (`ClockSane`, `KeepsPace`, `TickIsTheLoop`, `RunsToTheEnd`) for a range no step size divides and speeds that include "instant" and zero; the book (`BookIsSound`); the order panels (`OrdersFollowTheMode`); the subscriptions (`PanesGetTheirStreams`) |
| `session_safety` | `MCReplaySession` | `LoadsOutstanding`, `ClockFitsSession`, `FlagsAreNotLeftBehind`, `NoLookAhead`, `PlaybackSkipsNoBar`, `PausedUntilAsked`, `SpeedSurvivesRestart`, `ImplementsPlayback` however messages, frames and three generations of loads interleave |
| `replay_trading` | `MCPlayback` | exchange and mode agree (`TypeOKTrading`), `NothingFromTheFuture`, `GoingBackClearsTheBook`; of the same behaviours, and of those that do not trade, `LoadingEnds`, `PlaybackComesToRest` |
| `headless` | `MCHeadless` | `SessionIsSound`, `ImplementsPlayback`, `TheBookIsOfTheMoment`, `NarrativesSound` over commands, late ticks, late loads and a crash |
| `live_data` | `MCLiveData` | `BooksAreTheVenues`, `TradesOnceInOrder`, `LimitIsKept`, `BarsHaveTheTimeframe`, `LiveWindowIsFilled`; the table of tickers (`TableIsSound`, `StatsAreFetched`); the start (`AutoPlays`) |
| `screen` | `MCScreen` | `HistoryIsTrue`, `FootprintIsTrue`, `PanesAreKept`, `TheActiveLayoutReturns` |
| `waiting_released` | `MCWaiting.cfg` | *violation*: a clock waits for ever with every load answered |
| `api_play` | `MCApiPlay.cfg` | *violation*: the HTTP Play leaves future trades in the book |
| `sync_buffers` | `MCSyncBuffers.cfg` | *violation*: a click at the end of the range empties the book |
| `panel_orders` | `MCPanelOrders.cfg` | *violation*: an order of the panel does not fill |
| `live_mix` | `MCLiveMix.cfg` | *violation*: a live answer replaces a replay's chart |
| `closed_window` | `MCPopouts.cfg` | *violation*: a popped out pane goes with its window |

What the properties leave out, and why.

* `session_safety` runs under `SafeSpec`, which leaves out the steps that bring a
  session into Live: the HTTP command Play starts one there, although
  `replay/mod.rs:112` calls Live a mode without a session. The theorems of
  section 6 are about the unrestricted `Spec`, except `SessionSkipsNoBar`.
* `PlaybackSkipsNoBar` speaks of panes whose stream is in the active set and
  whose reload is not still on its way. A pane that shares its stream with one
  that is reloaded can drop out of the active set.
* `NothingFromTheFuture` leaves out orders of the panel, which carry the wall
  clock's time. Where `replay_trading` trades, it uses the HTTP command Play only
  between sessions; where it does not, and in `api_play`, during them too. `panel_orders`: without the action
  `PanelOrder`, `MarketOrdersFill` holds in the same instance, so it is that
  path which breaks it.
* In `MCPlayback` a behaviour either trades, with one pane, or leaves the book
  empty and has two panes, ranges too large to load and the HTTP Play at any time
  (`trades`): the liveness properties are about both.
* `OrdersFollowTheMode` does not speak of the time between a switch and the
  message that brings the copies in step (`onTheWay`).
* Headless: `TheBookIsOfTheMoment` has two parts: `GoingBackClearsTheBook` leaves out `set_pane_timeframe`, which goes
  back and keeps the book; `FillsAreOfTheMoment` allows for less than a step.
  A narrative stored after a fill may never learn of it, nor may one whose task
  died: `NoOutcomeForgotten` says so.
* `LiveWindowIsFilled` leaves out charts with a failed fetch, which is never
  repeated. `BarsHaveTheTimeframe` says nothing of the ticker: bars of an earlier
  ticker with the same timeframe do get in.
* `BooksAreTheVenues` speaks of books the adapter could join to a snapshot and,
  where frames carry no number that is checked, of connections without a lost
  frame (`trust`). `TradesOnceInOrder` leaves out what a new subscription drops.
  `LimitIsKept` does not count requests whose answer never came.
* `StatsAreFetched` is `StatsAreSpared` (never too often) and `StatsComeIn` (each
  selected exchange is asked). `AutoPlays` is `AutoPlayIsNeverStale` and
  `AutoPlayComes`, which is about users who leave the waiting panes alone: a pane
  that is closed or given another ticker is ready without the message that
  looks whether it was the last (`touched`).
* `PanesGetTheirStreams`: a pane is without its streams only if nobody told the
  table (`LackingIsUntold`), and in Live stays so only while other panes want all
  that is subscribed to (`AllIsWanted`): then no frame is unwanted, and nothing
  derives the table again (section 7).
* `HistoryIsTrue` is about runs and, in `CoalescingKeepsThePlaces`, about the
  boxes they are joined to: an amount that is seen again right after a gap is drawn over
  the gap and what came before it; snapshots held back over a change of basis
  keep the times of the old one.
* `FootprintIsTrue`: trades older than a time bar that the stream made stay
  out of it until the next answer (`missed`). For the footprint, history is what
  the chart was given, duplicates included (section 7).
* `PanesAreKept` follows the code in counting a closed window as the loss of its
  pane: `CloseWindow` takes the pane out of `owed`. The manual says that the pane
  returns with its content (`docs/wiki/settings.md:67`); `ClosedWindowsGiveBack`
  states that, and `closed_window` finds it violated by the closing alone:
  without `CloseWindow` it holds in the same instance. `PanesAreKept` also lets the HTTP
  client act on panes of the main window only (`ApiOn`); with the others it fails
  (section 7).
  `TheActiveLayoutReturns` leaves out names that were cut.

Each property of a passing run is broken by a plausible bug in the code: the
operators marked "mutant of" (a missing snap, a catch-up loop of one step, a
session that forgets to reset a flag, newest-first closing, a frame applied
without looking at its number, a lock released once the request is sent, a
point of control tested once, ...). They are listed under `mutants` and are
used by nothing else.

## 5 Bounds and fairness

| bound | value | why enough |
|---|---|---|
| streams | 2 (steps of 2 and 3) | bars on grids that differ; ends on a step of one and not of the other |
| panes | 2 (1 where there are trades) | two panes on one stream give more loads than `pending` counts; two streams give a partly loaded session |
| range | 2..5, also 2..8 | history bar before the start, two bars inside; 2..8 is too large to load under `MaxLoadBars = 3` |
| `MaxEpoch` | 3 / 2 | three generations of loads in flight for safety, two for liveness: one to be late, one to be mistaken for |
| `MaxReloads` | 1 | one timeframe change whose reload is late; reloads differ only by their streams |
| `MaxLag` | 2 (9 for the clock alone, 1 headless) | late enough for several steps to be due at once |
| speeds | 1, 2 | speed change and wrap-around; liveness with one |
| book | 3 orders, 1 trade a tick, 2 instants | open, close and reverse in one tick; two instants for first in, first out. Which of several trades an order takes is left to `BookStaysSound` (section 6) |
| trading orders | 2 | one filled and one pending when the time moves |
| order panels | 2 layouts, 1 pane, 3 kinds of panel, 1 virtual order | a panel in a layout that is not active; the copies differ per layout and pane, not per number of them |
| subscriptions | 2 panes, 2 tickers (one with push frequencies, one whose venue groups its depth), 5 kinds of content, 2 timeframes of either sort, 1 size, 2 edits | a stream two panes share, one that goes with its pane; an edit in Replay and one after it |
| headless | range 2..7 with bars of 2, a timeframe of 3 in a pane, 2 panes, 2 Plays, 1 order, 2 narratives, 1 crash | an end between bars; a step narrower than the stream's; a load of an earlier Play; an insert beside an orphan. Panes change only as long as there is no narrative (`PanesOrNarratives`): neither reads the other |
| depth | 5 updates on 2 levels, 2 frames unread, 4 kinds of venue | a snapshot before, within and after the queued frames; a gap and a resync |
| trades | 2 tickers, 2 trades each, 2 frames | one trade put aside while another is read; both tickers in one flush |
| limiter | 2 tasks, weights 1 and 2, limit 3, period 3, 7 seconds | a request that fits and one that does not; a wait over a period's end, answers of the period before |
| kline fetches | 3 streams, times 0..3, 2 initial bars, 2 fetches at once, one holiday, 2 windows | another ticker and another timeframe; overlapping requests; an answer with nothing new |
| table, start | 2 exchanges with 1 and 2 tickers, one of them without what a stream needs; interval 2, delay 1; stars on one ticker; 2 panes, one with a saved stream of either exchange or none, the other with one; 1 login under way | a request under way while another exchange is switched off and on within the interval; metadata that comes twice, late, or never; a pane that becomes ready after the other, or is closed. At the start all rows are tied: `OneOrder` takes one of their orders |
| heatmap | 1 level, 2 amounts, buckets of 1 and 2, times 0..4, 3 snapshots, clean-up after 1 bucket, likeness 50 % | runs to extend, cut, end and bridge; a late one; levels do not influence each other |
| footprint | a tape of 5 trades, price steps 1 and 2, bars of 2, 1 answer, 4 trades given to the chart, a midnight after the second trade | a bar without trades, prices that return, a day's file and what follows it, a batch that is cut short |
| layouts | 2 layouts, 3 panes, 2 windows; one edit, one popout, one restart, or two edits and a restart; one name of full length | a window in a layout that is not active; a clone of a name with no room left |

`MaxEpoch` holds back those who would *ask* for another load (`WithinBound`),
never a message already on its way, so that the bound cannot make a liveness
property fail or hold by blocking a handler.

**Fairness of the replay.** `WF(Frame)`: `subscription()` (`src/main.rs:363-416`)
subscribes to every frame, or to a 100 ms timer where there is no display. While
the login window is open it subscribes to no tick: a replay stands still then,
and the liveness properties are about the time after. The clock alone has
`WF(Ticking)` for the same reason. `WF(LoadFinishes)`: requests time out after
30 s (`exchange/src/limiter.rs:15-16`), and a load turns an error into an event
(`loader.rs`, `controller/session.rs`). It is fairness of "some load finishes",
as a completion or a failure: no venue is assumed to answer well.
`WF(Reloading)`, `WF(QueuedPlay)`: the runtime delivers messages. Users are
never fair. `PlaybackComesToRest` assumes that the user and the panes stop, and
that no load outlives the Play it was started for; the second assumption is
necessary, as `waiting_released` shows.

**Fairness of the subscriptions.** `FramesArrive`: a stream that is subscribed to
brings frames for as long as it is. Nothing is assumed of the user or the mode.

**Fairness of the table and the start.** `TableFairness`: the subscription's two
timers run (`tickers_table.rs:353`), time passes, and requests end within their
time-out. `StartupFairness`: ticks come wherever a window has frames (`Ticks`),
the retry interval passes, messages are handled. Nothing is assumed of metadata,
logins or the user: `AutoPlayComes` begins when all tickers are known.

**Fairness of fetches.** `FetchFairness` is one weak fairness of "the chart looks
again, an answer comes, or a cool-down passes": the same ticks of the
application, and answers within the same time-out. `LiveWindowIsFilled` assumes
that the user leaves the pane alone.

Deadlock is checked in the runs of the replay and of the headless process. In
`live_data`, `live_mix`, `screen` and `closed_window` it is not: there a behaviour ends when its
bounds are used up (the venue's updates and trades, the limiter's clock, the
chart's raw trades, the budget of edits), which says nothing about the code.

## 6 Proofs

Checked by TLAPS with Z3, Zenon and LS4, for all values of the constants that
meet the modules' assumptions. `StepClockProofs` has lemmas about the clock's
methods, `OrderBookProofs` lemmas about `on_tick`. `ReplayProofs` builds on the
first and has the controller; on both it has the exchange wired to the
controller. `HeadlessProofs` has the other player, on the same two modules of
lemmas. `ReplayPartsProofs` has the clock and the exchange under arbitrary
callers, the clock's loop, the order panels and the subscriptions. `ChartProofs`
has the heatmap and the footprint, and `LayoutsProofs`, on top of it, the layouts
and the three side by side. `LiveDataProofs` stands alone.

| theorem | states |
|---|---|
| `DriverTypes`, `DriverSane` | `Spec => []TypeOK`, `[]ClockSane` of `ClockDriver` |
| `DriverKeepsPace` | `Spec => []KeepsPace` |
| `TickComesToTheLoop` | `Spec => []TickIsTheLoop` |
| `PartsTypes` | `Spec => []TypeOKParts` of `MCReplayParts` |
| `SessionTypes`, `SessionClockFits` | `Spec => []TypeOK`, `[]ClockFitsSession` of `ReplaySession` |
| `SessionCanFinishLoading` | `Spec => []LoadsOutstanding` |
| `SessionFlags` | `Spec => []FlagsAreNotLeftBehind` |
| `SessionStaysPaused` | `Spec => PausedUntilAsked` |
| `SessionKeepsSpeed` | `Spec => SpeedSurvivesRestart` |
| `SessionDoesNotLookAhead` | `Spec => []NoLookAhead` |
| `SessionImplementsPlayback` | `Spec => ImplementsPlayback` |
| `SessionSkipsNoBar` | `SafeSpec => []PlaybackSkipsNoBar` |
| `ExchangeTypes`, `BookStaysSound` | `ExchangeSpec => []TypeOKExchange`, `[]BookIsSound` |
| `TradingTypes`, `TradingIsNotAhead` | `~ApiReplays => (TradingSpec => []TypeOKTrading)`, `[]NothingFromTheFuture` |
| `TradingBookIsSound`, `TradingForgets` | `~ApiReplays => (TradingSpec => []EngineSound)`, `GoingBackClearsTheBook` |
| `HeadlessSessionIsSound`, `NarrativesStaySound` | `Spec => []SessionIsSound`, `[]NarrativesSound` of `Headless` |
| `HeadlessImplementsPlayback` | `Spec => ImplementsPlayback` of `Headless` |
| `HeadlessBookIsOfTheMoment` | `Spec => TheBookIsOfTheMoment` |
| `PanelTypes`, `PanelOrdersFollowTheMode` | `PanelSpec => []TypeOKPanels`, `OrdersFollowTheMode` |
| `PanesLackOnlyWhatIsUntold` | `SubscriptionSpec => []LackingIsUntold` |
| `HistoryTypeCorrect`, `HistoryStaysTrue` | `HistorySpec => []TypeOKHistory`, `[]HistoryIsTrue` |
| `FootprintTypeCorrect`, `ChartsShowWhatTheyWereGiven` | `FootprintSpec => []TypeOKFootprint`, `[]FootprintIsTrue` |
| `ChartsKeepTheTimeframe` | `FetchSpec => []BarsHaveTheTimeframe` |
| `TradesAreHandedOnInOrder` | `TradeSpec => []TradesOnceInOrder` |
| `BooksStayTheVenues` | `DepthSpec => []BooksAreTheVenues` |
| `BinanceLimitIsKept` | `LimiterSpec => []LimitIsKept` |
| `TableStaysSound` | `TableSpec => []TableIsSound` |
| `StatisticsAreSpared` | `TableSpec => StatsAreSpared` |
| `AutoPlayIsNotStale` | `StartupSpec => AutoPlayIsNeverStale` |
| `LiveTypes` | `Spec => []TypeOKLive` of `MCLiveData` |
| `PanesStayKept`, `ActiveLayoutReturns` | `ApiInMain => (LayoutSpec => []PanesAreKept)`, `TheActiveLayoutReturns` |
| `LayoutTypeCorrect` | `ApiInMain => (LayoutSpec => []TypeOKLayouts)` |
| `ScreenTypes` | `ApiInMain => (Spec => []TypeOKScreen)` of `MCScreen` |

*Clock.* `StepClockProofs` has one lemma per method, "the method keeps
`Clock` and `ClockOK`", over facts about rounding down to a step
(`FloorToFacts`). `TypeOK /\ ClockSane` is then inductive. For the pace,
`PaceInv` strengthens `KeepsPace` with the remaining wait: the wait that is left
and the time played add up to a whole number of delays. Every tick changes both
by the same number of steps (`TickKeepsPace`), and `DivIsUnique` turns the sum
into the quotient.

*The loop.* `CatchUp` is the loop of `tick()`, a recursive function that runs its
body `Iterate` a number of times. `AreIterations` says of a sequence of clocks that
each is what one iteration makes of the one before, and that the recursion gives
one. For `LoopIsTick`, the clock after `k` iterations is `k` steps and `k` delays
on, as long as it has neither reached its end nor run out of due steps; `StepsDue`
is the number at which it does the second, the step that meets the end does the
first, and from there on an iteration changes nothing. So the loop ends within its
bound, and where the closed form says.

*Session.* `Fits == TypeOK /\ ClockFitsSession` is inductive and neither part is
by itself: type correctness of a seek needs the clock in range, and a clock that
is at its start while loading needs the types. The one idea beyond the clock is
`AtStart`: everything that may happen to a loading session's clock (speed
changes, step sizes, seeks of an edited range, a frame that finds it waiting)
leaves it at the start. One lemma per message, combined in `FitsStep`.

*Loads.* `LoadsOutstanding` is not inductive: an old load that shared the current
epoch would break it. `LoadsNumbered` (finitely many loads, none of a later
epoch) closes the gap, because a start of loads takes a number nobody has.

*Flags.* `FlagsAreNotLeftBehind` is inductive as it stands.

*Steps.* `PausedUntilAsked` and `SpeedSurvivesRestart` are about single steps:
`StepClockProofs` says what each method of the clock does to `status` and to
`speed`, and `ReplayProofs` goes through the messages once for each. Only a frame
needs the invariant `Fits` (a paused clock is not armed).

*No look-ahead.* `NoLookAhead` is not inductive. Its strengthening `Sight` adds
that the clock's step is the smallest timeframe of the active streams, and that
no bar lies after the end of the range. `StepForward` needs the first: it goes by
the timeframes of the active streams while the view is measured in the clock's
step. `SyncReplayBuffers` needs the second: it can snap a clock back from an end
that is on no step. Every other way back (`StepBackward`, an edited range, a
reload, a new Play) empties the charts first.

*Refinement.* Each message of the controller maps to one action of `Playback`, or
leaves what `Playback` sees alone. `Fits`, before and after the step, is what
makes the steps map: that a tick stays in the range, that a loading session
stands at its start. Most of the work is in saying of each method of the clock
what it leaves alone.

*No bar skipped.* `PlaybackSkipsNoBar` relates the bars of each pane to what its
stream has stored. Every message either empties the charts and fills them up to
where it goes, or adds the klines between the old time and the new one
(`KlinesBetween`), or leaves time and bars alone. What it needs besides `Fits` is
`ChartsReplay`: a pane given another basis asks for its reload only if its chart
is a replay chart. That holds of the sessions of Replay mode, hence `SafeSpec`.

*Order book.* The library's induction theorems take an operator, which the
provers cannot instantiate. `SetInduction` says the same of a set of naturals,
from the well-foundedness of `<`; `TurnsDef` then shows that the recursion of
`Turns` defines a function, and `OnTickKeeps` goes through the pending orders one
by one. What is carried from turn to turn (`AfterTurns`) is that the book is
`Sound`, that each order so far is pending or has a fill event, and that each fill
moved one position. `Sound` adds to the three properties of a book that the
positions are in the order of their times (`InOrder`): a close has to take the
oldest. The cash needs sums over the positions, of which one changes
(`FlowsAfter`).

*Exchange.* `ExchangeInv` is `Sound` at the time of the last tick with the
history of ids and fills; `AccountsDef` puts the history in the terms of
`OnTickKeeps`.

*Trading.* `TradingInv` adds to the controller's invariants that there is an
engine in Replay only, and that it fits the virtual time: its book is sound and
no pending order is dated later. Steps that take the time back reset the book
(`FollowsKeeps`); the others do not take it back (`ForwardInTime`, `TickInTime`,
`AroundInTime`). `StepFillsKeeps` holds for each order in which the streams of a
step can be visited: the code iterates over a hash map. The hypothesis
`~ApiReplays`, that HTTP Play is not used during a session, is needed: the run
`api_play` shows what happens without it.

*Headless.* `HeadlessInv` has a part for the clock (`ClockFits`), for the loads
(`LoadsFit`), for the orders, the panes and the narratives, and one lemma per
command says which it disturbs. Panes have no id twice (`PanesOK`), which is why
the id a split looks for exists (`FreshPaneIdIsNew`, by the pigeonhole theorem)
and why a close takes one pane only. Of the narratives, ids are fresh because the
files are numbered without gaps (`FilesAreNumbered`, a failed insert leaves its
file); a narrative between its two writes has no row yet (`CreatingIsNew`), so
that no fill can have found it stored (`FillsAreKnown`): without that,
`NoOutcomeForgotten` would ask an outcome of a row that is only just written.
The refinement is the one of the controller with fewer kinds of steps.
`HeadlessBookIsOfTheMoment` rests on `SeekForward`: a paused clock before its end
is on a step (`ClockOK`), so that a step of the panes, of whatever width, does not
take it back, and leads to less than a clock's step before the time that was
asked for. Of the book it needs only that it is well
formed (`OnTickTyped`), not that it is `Sound`: `set_pane_timeframe` goes back in
time and keeps it.

*Order panels.* When no message is on its way the copies of the mode need not be
in step: a pane opened from the sidebar has its own from another time. What is
inductive, besides the types, is `ModalsInStep`: a dialog that is open on the
screen was opened by a click, and the message that followed the click has been
handled, so that its pane and its layout know the mode. Orders are submitted
from such a dialog only.

*Subscriptions.* `LackingIsUntold` is inductive together with `PanesTyped`: each
pane is a `Pane` and has streams of one ticker. That is what `TicksizeSelected`
needs: the table is not told when a venue does not group its depth, and there
the stream of the new size is the old one (`Resized`). Four ways of telling the
table, or not, are a lemma each (`RefreshKeeps`, `ExtendKeeps`, `NotToldKeeps`,
`SameStreamsKeep`), and every operation is one of them.

*Live data.* For the bars, `ChartIsRecord /\ BarsHaveTheTimeframe` is inductive:
what an answer may insert has passed the comparison of timeframes, and every
change of the timeframe empties the chart. For the trades, `TradeInv` says that
what was handed on, followed by what is put aside, is what was read
(`HandedOnce`); that what was read is ascending and not beyond the venue's last
trade (`ReadInOrder`); and that the frames still unread go on from there
(`FramesInOrder`).

*Order book of a venue.* The frames in the queue follow each other
(`FramesFollow`) and are of the kind the venue sends when it sends them
(`FramesOfTheVenue`). The idea is `Mixed(b, p, n)`: a book under way from a
snapshot of update n has each level either as of the update p it has got to or
still as of the snapshot, the second only where p is before n. Applying the next
frame keeps that (`DiffMixes`), because a level of the snapshot is later than
any update up to p; and once p has reached n nothing is left of the second kind
(`MixedIsTheVenues`). `PrevIsTheBook` says that the id a frame is compared with
is that of the book, without which a lost frame would not be noticed.
`BookIsOnTheWay` adds from which update on the book can be trusted, which is a
variable of the model (`trust`) and not of the code: the code goes on showing a
book that it does not know to be wrong.

*Rate limit.* What the bucket knows of a period is not what the venue has
counted: an answer may come in the next period, and a wait ends in another period
than it was decided in. `LimiterInv` has the lock (`OneAtATime`: one task at most
waits or is under way), what may be unknown while a request is under way
(`InFlightIsKnown`: that request, and nothing else, if it was counted in this
period), and what must hold when a wait ends (`WaitsItOut`: nothing is counted in
the period a task wakes up in). By the lock, a task that decides finds everything
heard of (`Heard`), and asks for no more than is left.

*Table.* `TableIsSound` is inductive with the types and with rows that are of
distinct tickers. The sort of the code is unstable (`sort_unstable_by`): rows of
equal value may come in any order, and the model takes every order that is
sorted. A sorted sequence of the same rows is a permutation
(`FS_Injection` and `FS_Surjection`), so that the index that is rebuilt from it
finds each row. Where rows are changed in place, tickers keep their places.

*Statistics and start.* `StatsAreSpared` is about a step, and needs `StatsOk` of the
state before it: the right to be asked at once (`force`) belongs only to an
exchange that was never asked, so that whatever else is started is past its
interval. `AutoPlayIsNeverStale` needs `AutoPlayIsDue`: every handler that
plays, switches to Live or gives auto-play up takes the flag down with it.

*Footprint.* `FootprintInv` says of the chart all of `FootprintIsTrue`
(`ChartTrue`), of the tape and the batches that they are trades there were, and
what a step needs besides: that the chart is well formed (`SoundChart`: bars of a
chart of trades are numbered and none is overfull), that bars with trades and no
others have a point of control (`PocsAreSet`), and that a bar of time had a trade
(`BarsHadTrades`, or a bar that is fetched anew would not be one). `since` and
`missed` are parameters of `ChartTrue`, since each call changes them with the
chart: a reset empties the bars and keeps the raw trades, and a bar that the
stream makes late does not get the trades it could have had. There is one lemma for
each of the functions the chart is made with (`CalculatePoc`, `UpdatePocStatus`,
`IntoExistingBars`, `OrNewBars`, `Filled`, `InsertKlines`) and one for each
operation. `Filled` is a recursion over the trades, and what is carried along it
is `InTurn`: every bar but the last is full, and the bars are the trades in turn.

*Heatmap.* `HistoryIsTrue` is not inductive: with snapshots held back, the runs do
not show what was seen, and `SightsAreShown` says nothing. `HistoryInv` is
`\E past : Explains(past)`: there is a past that the runs show (`Shows`, level by
level `LevelShows`), and `sights` is that past with what is held back, in the order
of its times and without what is too old by then (`IsSeeing`). When the view comes
back, the snapshots held back are put in one by one, and each takes the past one
step on (`Adds`), up to `sights`. A late snapshot that joins the buffer has to be
seen last in `sights` and sorted in among the others: that comes to the same
because sightings of different times commute. A clean-up leaves a suffix of the
runs, which shows the same from `oldest` on. Of the runs of a level
(`LevelFits`): they are in order, and the last ends no later than one bucket after
the last snapshot, so that a change may cut it and a gap may extend it without
covering what was seen in between.

*Joined runs.* `Coalesce` needs nothing of the past, only runs in order. A box is
at the place of the runs it was made of; two facts make its size right: `Balanced`,
that the sum lies between the least and the largest times the number, which bounds
the average (`AverageWithin`), and that runs which are joined touch and are of one
side, so that no time is covered that was not. The assumption on `Intervals` says
that there is a longest, which bounds the ends of the runs.

*Types of live data.* `LiveInv` joins the invariants above with what the types
need besides. The ranges a chart asks for are times (`WantedAreRanges`) because
its bars are none later than the clock: a first and a last bar are then there
(`LeastOfNat`, `GreatestUpTo`), and the bars that are missing lie between them
(`MissingAreTimes`). The frames of a venue have numbers within the bound because
they follow each other up to `sent`. The table moves in its own steps and in those
of the start (`TableDuringStart`), which brings it metadata it did not ask for, or
none for an exchange whose tickers are not in memory.

*Layouts.* `PanesAreKept` speaks of the running program; over a restart it is kept
by what the file holds. `LayoutInv` has a part for each: while the program runs,
the list is `AllKept` (each layout is sound, two layouts share no id and no pane,
nor a name unless it was cut) and the active layout's windows are on the screen; when
it does not, the user has what the file has (`StoppedKept`); and the file is what
some list that was `AllKept` was (`SavedKept`). A third conjunct of the first part is
about the mouse: the focus that the pressed Merge button acts on may have moved to
another window by then, and what it needs is that a focused popped out pane has
number 0. `Replaced`, `Appended`, `Taken` and `Ordered` say what the four changes
of a list keep, and each action is one of them, with the panes that come and go
(`Change`). That a free number is left in a grid (`GridIsFree`) and a free name
among the layouts (`OneIsLeft`) is the pigeonhole theorem, `FS_Injection`. For
`ActiveLayoutReturns` the names are needed: a name is unique when it is given, and
may be another's only if it was cut after that (`CutNames`, `OwnName`), so that the
first layout with the saved name is the one that was active. The hypothesis
`ApiInMain`, that the HTTP client splits and closes panes of the main window only,
is needed for `PanesAreKept`, as section 7 says; `ActiveLayoutReturns` has it
because its proof rests on the same invariant. So has `LayoutTypeCorrect`:
that a number stays in its bound follows from panes, windows and layouts being
kept apart (`LayoutTypes`), and that the saved file has no more layouts than there
are numbers is the pigeonhole theorem once more.

**Only model-checked.** `RunsToTheEnd`, `LoadingEnds`, `PlaybackComesToRest`,
`LiveWindowIsFilled`, `StatsComeIn`, `AutoPlayComes`, the second part of
`PanesGetTheirStreams`: liveness under fairness is
outside what the provers do. Every invariant that a passing run checks, and every
action property, is stated by a theorem; `StatsAreFetched` and `AutoPlays` are stated in
their safety part.

## 7 Where the code and its documentation disagree

Each of these is a run that ends in a counterexample; `PROJECT.json` quotes the
lines.

1. `waiting_released`: a load of an earlier session is counted for the one that
   replaced it, which then becomes active without its data; the clock waits and
   the real answer, arriving later, is not stored.
2. `api_play`: the HTTP command Play during a session takes the time back and
   leaves the book.
3. `sync_buffers`: `set_step_size` snaps the clock back from the end of a range
   that no step lands on; the application takes that for a seek and resets the
   exchange.
4. `panel_orders`: the panel names an instrument "exchange:symbol", the fills
   look for the symbol.
5. `live_mix`: a pane's first fetch, sent in Live and answered in Replay,
   replaces the replay's chart by a live one.
6. `closed_window`: closing the window of a popped out pane drops the pane
   (`app/handlers.rs:319`); the manual says that it returns to the window it
   came from with its content (`docs/wiki/settings.md:67`).

These were seen while modelling, and are in the models without a run of their
own:

* The HTTP command Play makes a session in Live (`replay/mod.rs:112` says there
  is none).
* After a virtual order, or one that the replay guard blocks, the order panel
  says that it is sending, and its button stays disabled
  (`panel/order_entry.rs:367`; `docs/wiki/replay.md:87`). A refresh of the order
  list that fails stays loading in the same way (`panel/order_list.rs:283`).
* An answer with older bars, and every load of a replay, adds all trades a
  footprint was ever given to its bars once more (`chart/kline/mod.rs:725`;
  `docs/wiki/charts.md:55`).
* A layout's name is made unique and then cut to 20 characters
  (`modal/layout_manager.rs:122`), and the active layout is restored by name
  (`layout.rs:372`): after a restart the original of a clone may be active
  (`docs/wiki/settings.md:44`).
* The HTTP requests that close or split a pane use its number in the main
  window's grid, also for a popped out pane (`screen/dashboard/pane_ops.rs:40`;
  `docs/spec/replay.md:840`). With `ApiOn = {"main", "popout"}`, `PanesAreKept`
  fails.
* An order panel opened with the focus on a popped out pane leaves an empty pane
  in the main window (`screen/dashboard/pane_ops.rs:466`;
  `docs/wiki/getting-started.md:50`).
* Auto-play starts when the message that makes the last waiting pane ready is
  handled, not "the moment all panes are ready" (`docs/spec/replay.md:70`): the
  last one may be closed, or given another ticker. When a pane needs the broker
  and there is no session it is given up for good, while the toast says "deferred:
  please log in to resume" (`app/handlers.rs:398`).
* A pane whose timeframe was changed during Replay may get no frames when Live
  returns: the table was not told (`pane/update.rs:409`), and is derived again
  only when a frame comes that no pane wants. The switch to Live counts on the
  connections coming back (`replay/controller/session.rs:28`). Without
  `AllIsWanted`, `PanesGetTheirStreams` fails.
* Two logins submitted in a row open the dashboard twice
  (`app/handlers.rs:352`).
* `docs/wiki/settings.md:44` says that the state is also saved when a setting
  changes: it is saved at exit, at restart and on the HTTP request.

## 8 What is not modelled, and why

* Parsing of venue messages, symbols, REST histories and their paging: data. The
  adapters' loops are modelled, not what is in a frame.
* The Tachibana broker: session keys, request numbers and the life of an
  order at the broker are remote calls whose other side is not in the repository.
* Indicators, volume profiles, drawing, scales, the comparison chart, the ladder,
  time and sales, search in the tickers table, open interest: series of numbers and their
  pictures.
* How subscriptions are batched into connections, proxies, link groups,
  and a ticker switch that reloads several panes.
* How a grid is divided and dragged, the places of windows, themes, the settings
  of a pane.
* Views, styles and widgets: which buttons are enabled when is in the guards of
  `ReplaySession` and `OrderPanels`; the HTTP API sends messages regardless.
* HTTP: parsing, routing and replies. What a command does is in the module of its
  handler.
* In the controller: labels and status formatting, toasts, the trades of the
  event store (never filled), the bars' prices except for the closes in
  `ReplayTrading` and `Headless`.
