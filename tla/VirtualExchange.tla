--------------------------- MODULE VirtualExchange ---------------------------
(***************************************************************************)
(* The virtual exchange under any sequence of orders, ticks and resets     *)
(* (src/src/replay/virtual_exchange/mod.rs).  Virtual time does not run    *)
(* backwards between two resets: seeking back resets the engine.           *)
(***************************************************************************)
EXTENDS OrderBook

CONSTANTS Tickers, Prices, Limits, Quantities,
          MaxOrders,   \* bound: orders placed between two resets
          MaxTrades,   \* bound: trades of one tick
          MaxTime      \* bound: virtual time

ASSUME ExchangeAssumption ==
  /\ Tickers \subseteq STRING
  /\ Prices \subseteq Nat /\ Limits \subseteq Nat \cup {Market}
  /\ Quantities \subseteq Nat \ {0}
  /\ MaxOrders \in Nat /\ MaxTrades \in Nat /\ MaxTime \in Nat

VARIABLES
  book,
  now,      \* StepClock::now_ms() of the last tick
  placed,   \* history: orders placed since the last reset
  fills     \* history: the fill events since then

exchangeVars == <<book, now, placed, fills>>

TypeOKExchange ==
  /\ book \in Book
  /\ now \in 0 .. MaxTime
  /\ placed \in 0 .. MaxOrders
  /\ fills \in Seq(Fill)

ExchangeInit == book = EmptyBook /\ now = 0 /\ placed = 0 /\ fills = <<>>

Place ==
  /\ placed < MaxOrders
  /\ placed' = placed + 1
  /\ \E ticker \in Tickers, side \in Sides, qty \in Quantities, limit \in Limits :
       book' = PlaceOrder(book, [id |-> placed', ticker |-> ticker, side |-> side,
                                 qty |-> qty, limit |-> limit, placed |-> now])
  /\ UNCHANGED <<now, fills>>

TickOf(ticker, trades, time) ==
  /\ now' = time
  /\ book' = OnTick(book, ticker, trades, time)
  /\ fills' = fills \o FillEvents(book, ticker, trades, time)
  /\ UNCHANGED placed

Reset ==
  /\ book' = EmptyBook
  /\ now' = 0 /\ placed' = 0 /\ fills' = <<>>

EngineTick ==
  \E ticker \in Tickers, trades \in BoundedSeq(Prices, MaxTrades), time \in now .. MaxTime :
    TickOf(ticker, trades, time)

ExchangeNext == Place \/ EngineTick \/ Reset

ExchangeSpec == ExchangeInit /\ [][ExchangeNext]_exchangeVars

-----------------------------------------------------------------------------
(* Every order is either still pending or has filled once, and each fill   *)
(* opened one position or closed one: nothing is filled twice, dropped or  *)
(* left in the book after its fill (on_tick's retain).                     *)
Closed == {i \in DOMAIN book.positions : ~IsOpen(book.positions[i])}

EveryOrderAccountedFor ==
  LET pendingIds == {book.orders[i].id : i \in DOMAIN book.orders}
      filledIds  == {fills[i].order.id : i \in DOMAIN fills}
  IN  /\ pendingIds \cup filledIds = 1 .. placed
      /\ Len(book.orders) + Len(fills) = placed
      /\ Len(fills) = Len(book.positions) + Cardinality(Closed)

(* No order fills beyond its limit, and a buy that closes a short is held  *)
(* to it as much as one that opens a long (order_book.rs, the header).     *)
LimitsAreKept ==
  \A i \in DOMAIN fills :
    LET f == fills[i]
    IN  f.order.limit # Market =>
          IF f.order.side = "Long" THEN f.price <= f.order.limit
                                   ELSE f.price >= f.order.limit

(* The book is sound, also when one tick fills several orders of both      *)
(* sides: orders net out, so that no ticker is ever held long and short at *)
(* once (order_book.rs); money is neither made nor lost by the book keeping*)
(* (portfolio.rs, record_open and record_close); closing is FIFO           *)
(* (portfolio.rs, "最古優先 = FIFO"); no order is lost, doubled or filled  *)
(* beyond its limit.                                                       *)
BookIsSound ==
  /\ OneSided(book) /\ CashReconciles(book) /\ OldestClosedFirst(book)
  /\ EveryOrderAccountedFor /\ LimitsAreKept
=============================================================================
