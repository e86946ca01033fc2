---------------------------- MODULE ReplayTrading ----------------------------
(***************************************************************************)
(* Virtual trading during a replay: the replay controller and the virtual  *)
(* exchange, as the application wires them together.                       *)
(*                                                                         *)
(* handle_replay (src/src/app/dashboard.rs) compares the virtual time      *)
(* before and after the controller has handled a message and resets the    *)
(* exchange when it moved.  Some paths go around it: the frame timer, the  *)
(* status poll and the Play command of the HTTP API, which calls           *)
(* play_with_range itself, and the panes.  No trades are ever loaded, so a *)
(* tick fills nothing; orders fill when the user steps forward, at the     *)
(* closes of the current bars.                                             *)
(***************************************************************************)
EXTENDS ReplaySession, OrderBook

CONSTANTS
  NoEngine,      \* virtual_engine is None
  Ticker,        \* the symbol of every stream
  PanelTicker,   \* the same instrument as the order panel names it, "exchange:symbol"
  WallTime,      \* the time of the user's own day, later than what is replayed
  CloseOf,       \* [Streams -> [Nat -> Nat]], the close of each bar
  MaxOrders,     \* bound: orders in the book at once, filled ones included
  ApiReplays     \* whether the HTTP command Play is also used during a session

ASSUME TradingAssumption ==
  /\ Ticker \in STRING /\ PanelTicker \in STRING /\ PanelTicker # Ticker
  /\ WallTime \in Nat /\ \A e \in EndTexts \ {BadText} : e < WallTime
  /\ NoEngine \notin Book
  /\ \A s \in Streams : \A b \in BarsOf[s] : CloseOf[s][b] \in Nat
  /\ MaxOrders \in Nat
  /\ ApiReplays \in BOOLEAN

VARIABLE engine

tvars == <<vars, engine>>

TradingInit == Init /\ engine = IF mode = "Replay" THEN EmptyBook ELSE NoEngine

(* There is an exchange to trade on exactly while replaying, so that no    *)
(* virtual order can be taken in Live (app/dashboard.rs, app/mod.rs).      *)
TypeOKTrading ==
  /\ TypeOK /\ engine \in Book \cup {NoEngine}
  /\ engine # NoEngine <=> mode = "Replay"

-----------------------------------------------------------------------------
NoTime == -1

CurrentTimeMs == IF session = "Idle" THEN NoTime ELSE clock.now

(* current_time_ms().unwrap_or(0): orders can be placed between sessions.  *)
TimeOrZero == IF CurrentTimeMs = NoTime THEN 0 ELSE CurrentTimeMs

EngineUntouched == UNCHANGED engine   \* mutant of ResetIfMoved

ResetIfMoved ==
  engine' = IF engine # NoEngine /\ CurrentTimeMs' # CurrentTimeMs THEN EmptyBook ELSE engine

EngineSurvives ==   \* mutant of EngineFollows
  \/ mode = "Live" /\ mode' = "Replay" /\ engine' = EmptyBook
  \/ mode = "Replay" /\ ResetIfMoved
  \/ mode = "Live" /\ mode' = "Live" /\ UNCHANGED engine

EngineFollows ==
  \/ mode = "Live" /\ mode' = "Replay" /\ engine' = EmptyBook
  \/ mode = "Replay" /\ mode' = "Live" /\ engine' = NoEngine
  \/ mode = "Replay" /\ mode' = "Replay" /\ ResetIfMoved
  \/ mode = "Live" /\ mode' = "Live" /\ UNCHANGED engine

(* synthetic_trades_at_current_time: the last bar opened by now, one trade *)
(* a stream; the streams come in the order of a hash set.                  *)
BarsByNow(s) == KlinesIn(s, 0, clock.now + 1)
Priced       == IF session = "Active" THEN {s \in active : BarsByNow(s) # {}} ELSE {}

LastClose(s) == CloseOf[s][Max(BarsByNow(s))]

(* The book as one tick follows another, each of a single trade.           *)
Ticked(book, closes, now) ==
  LET B[i \in 0 .. Len(closes)] ==
        IF i = 0 THEN book ELSE OnTick(B[i - 1], Ticker, <<closes[i]>>, now)
  IN  B

StepFills ==
  \E streams \in SetToSeqs(Priced') :
    LET closes == [i \in DOMAIN streams |-> LastClose(streams[i])']
    IN  engine' = Ticked(engine, closes, clock'.now)[Len(closes)]

StepForwardTrading ==
  /\ StepForward
  /\ IF mode = "Replay" /\ engine # NoEngine THEN StepFills ELSE UNCHANGED engine

(* Orders are numbered from 1 after each reset.                            *)
OrdersSeen(b) == Len(b.orders) + Len(b.positions)

NewOrder(ticker, side, placed) ==
  [id |-> OrdersSeen(engine) + 1, ticker |-> ticker, side |-> side,
   qty |-> 1, limit |-> Market, placed |-> placed]

PlaceVirtualOrder(ticker, placed) ==
  /\ engine # NoEngine
  /\ OrdersSeen(engine) < MaxOrders
  /\ \E side \in Sides : engine' = PlaceOrder(engine, NewOrder(ticker, side, placed))
  /\ UNCHANGED vars

(* The HTTP API takes the symbol it is given; the order panel, the text    *)
(* the ticker list put into its issue code.                                *)
ApiOrder   == PlaceVirtualOrder(Ticker, TimeOrZero)
PanelOrder == PlaceVirtualOrder(PanelTicker, WallTime)

-----------------------------------------------------------------------------
ThroughController ==
  \/ ToggleMode
  \/ \E t \in StartTexts : StartTimeChanged(t)
  \/ \E t \in EndTexts : EndTimeChanged(t)
  \/ UserPlay
  \/ QueuedPlay
  \/ Resume
  \/ PauseReplay
  \/ StepBackward
  \/ CycleSpeed
  \/ LoadFinishes
  \/ SyncReplayBuffers
  \/ Reloading

AroundController ==
  \/ /\ session = "Idle" \/ ApiReplays
     /\ \E range \in Ranges : ApiPlay(range)
  \/ FireAutoPlay
  \/ SessionUnavailable
  \/ \E p \in Panes, s \in Streams \cup {NoStream} : ChangeBasis(p, s)
  \/ Frame
  \/ StatusPoll

TradingNext ==
  \/ ThroughController /\ EngineFollows
  \/ StepForwardTrading
  \/ AroundController /\ UNCHANGED engine
  \/ ApiOrder
  \/ PanelOrder

TradingSpec == TradingInit /\ [][TradingNext]_tvars

-----------------------------------------------------------------------------
(* Nothing in the book is dated after the virtual time, whatever became of *)
(* the sessions it was traded in: going back forgets it.  Orders of the    *)
(* panel carry the wall clock's time and are left out.                     *)
NothingFromTheFuture ==
  engine # NoEngine =>
    /\ \A i \in DOMAIN engine.orders :
         engine.orders[i].placed \in {WallTime} \cup 0 .. TimeOrZero
    /\ \A i \in DOMAIN engine.positions : engine.positions[i].since <= TimeOrZero

(* When the virtual time goes back, every order and every position is      *)
(* reset (docs/spec/replay.md, "seek（StepBackward / Play リセット）時に   *)
(* すべての注文・ポジションがリセットされる").                             *)
GoingBackClearsTheBook ==
  [][(engine # NoEngine /\ session # "Idle" /\ CurrentTimeMs' < CurrentTimeMs)
       => engine' \in {EmptyBook, NoEngine}]_tvars

(* SyncReplayBuffers, which follows every message of the panes, the notice *)
(* of a fill among them, only sets the step size and does not seek         *)
(* (docs/spec/replay.md, 6.6): it costs the user no trades.                *)
SyncKeepsTheBook ==
  [][(SyncReplayBuffers /\ clock' # clock) => UNCHANGED engine]_tvars

(* A market order waits for the next tick and fills at its first price     *)
(* (docs/spec/replay.md, 5): a step forward that has a price for the       *)
(* instrument leaves none behind, wherever it was placed.                  *)
MarketOrdersFill ==
  [][(StepForwardTrading /\ mode = "Replay" /\ engine # NoEngine /\ Priced' # {})
       => engine'.orders = <<>>]_tvars
=============================================================================
