------------------------------ MODULE OrderBook ------------------------------
(***************************************************************************)
(* The book of the virtual exchange as a value: pending orders, positions  *)
(* and cash (src/src/replay/virtual_exchange/order_book.rs, portfolio.rs). *)
(* Every operator is one method of the code.                               *)
(*                                                                         *)
(* Prices, quantities and cash are integers: the model says which trade    *)
(* fills which order and where the money goes, not how an f64 rounds.      *)
(* Orders are numbered instead of carrying a UUID.                         *)
(***************************************************************************)
EXTENDS Integers, Sequences, SequencesExt, FiniteSetsExt

CONSTANTS InitialCash,
          Market     \* the limit of an order that has none

ASSUME BookAssumption == InitialCash \in Int /\ Market \notin Int

Sides == {"Long", "Short"}
OtherSide(side) == IF side = "Long" THEN "Short" ELSE "Long"

StillOpen == -1   \* exit_price.is_none()

Order == [id : Nat \ {0}, ticker : STRING, side : Sides, qty : Nat \ {0},
          limit : Nat \cup {Market}, placed : Nat]
Position == [id : Nat \ {0}, ticker : STRING, side : Sides, qty : Nat \ {0},
             entry : Nat, since : Nat, exit : Nat \cup {StillOpen}]
Fill == [order : Order, price : Nat, time : Nat]

Book == [orders : Seq(Order), positions : Seq(Position), cash : Int]

EmptyBook == [orders |-> <<>>, positions |-> <<>>, cash |-> InitialCash]

PlaceOrder(book, o) == [book EXCEPT !.orders = Append(@, o)]

-----------------------------------------------------------------------------
(* Positions.                                                              *)

IsOpen(p)     == p.exit = StillOpen
RealizedPnl(p) == IF p.side = "Long" THEN (p.exit - p.entry) * p.qty
                                     ELSE (p.entry - p.exit) * p.qty

OpenPositions(book, ticker, side) ==
  {i \in DOMAIN book.positions : /\ IsOpen(book.positions[i])
                                 /\ book.positions[i].ticker = ticker
                                 /\ book.positions[i].side = side}

NewestFirst(book, S) == Max(S)   \* mutant of Oldest

(* min_by_key(entry_time_ms): the first of those with the least.           *)
Oldest(book, S) ==
  LET since(i) == book.positions[i].since
  IN  CHOOSE i \in S : \A j \in S : since(i) < since(j) \/ (since(i) = since(j) /\ i <= j)

RecordOpen(book, o, price, now) ==
  [book EXCEPT
     !.cash = IF o.side = "Long" THEN @ - price * o.qty ELSE @ + price * o.qty,
     !.positions = Append(@, [id |-> o.id, ticker |-> o.ticker, side |-> o.side,
                              qty |-> o.qty, entry |-> price, since |-> now,
                              exit |-> StillOpen])]

RecordClose(book, i, price) ==
  LET p == book.positions[i]
  IN  [book EXCEPT
         !.cash = IF p.side = "Long" THEN @ + price * p.qty ELSE @ - price * p.qty,
         !.positions[i].exit = price]

-----------------------------------------------------------------------------
(* Filling.                                                                *)

(* The trades a pending order could fill at: any for a market order.       *)
Hits(o, trades) ==
  {i \in DOMAIN trades : o.limit # Market =>
     IF o.side = "Long" THEN trades[i] <= o.limit ELSE trades[i] >= o.limit}

Fillable(o, ticker, trades) == o.ticker = ticker /\ Hits(o, trades) # {}

FillPrice(o, trades) == trades[Min(Hits(o, trades))]

(* A fill closes the oldest open position of the other side, whole and     *)
(* whatever the order's quantity, or else opens one of its own.            *)
Settle(book, o, price, now) ==
  LET against == OpenPositions(book, o.ticker, OtherSide(o.side))
  IN  IF against = {} THEN RecordOpen(book, o, price, now)
                      ELSE RecordClose(book, Oldest(book, against), price)

KeepAll(b, o, filled) == PlaceOrder(b, o)   \* mutant of LeftPending

(* retain: what has filled leaves the book.                                *)
LeftPending(b, o, filled) == IF filled THEN b ELSE PlaceOrder(b, o)

(* One order's turn in the loop: w holds the book as far as the loop has   *)
(* come, with the orders it has left in it, and the fills so far.          *)
TakeTurn(w, o, ticker, trades, now) ==
  LET filled == Fillable(o, ticker, trades)
      price  == FillPrice(o, trades)
      b      == LeftPending(w.book, o, filled)
  IN  IF filled THEN [book  |-> Settle(b, o, price, now),
                      fills |-> Append(w.fills, [order |-> o, price |-> price, time |-> now])]
                ELSE [book |-> b, fills |-> w.fills]

(* on_tick: orders fill in the order they were placed.  It returns the     *)
(* FillEvents.                                                             *)
Turns(book, ticker, trades, now) ==
  LET W[i \in 0 .. Len(book.orders)] ==
        IF i = 0 THEN [book |-> [book EXCEPT !.orders = <<>>], fills |-> <<>>]
                 ELSE TakeTurn(W[i - 1], book.orders[i], ticker, trades, now)
  IN  W

OnTick(book, ticker, trades, now) ==
  Turns(book, ticker, trades, now)[Len(book.orders)].book

FillEvents(book, ticker, trades, now) ==
  Turns(book, ticker, trades, now)[Len(book.orders)].fills

-----------------------------------------------------------------------------
(* What holds of every book, in named parts.                               *)

(* Both sides of a ticker are never open at once: orders net out.          *)
OneSided(book) ==
  \A i, j \in DOMAIN book.positions :
    LET p == book.positions[i]
        q == book.positions[j]
    IN  (IsOpen(p) /\ IsOpen(q) /\ p.ticker = q.ticker) => p.side = q.side

(* Cash is what it started from, plus the profit of what was closed, plus  *)
(* what the open shorts brought in, less what the open longs cost.         *)
Flow(p) ==
  IF ~IsOpen(p) THEN RealizedPnl(p)
  ELSE IF p.side = "Long" THEN -(p.entry * p.qty) ELSE p.entry * p.qty

Flows(positions) ==
  LET T[i \in 0 .. Len(positions)] == IF i = 0 THEN 0 ELSE T[i - 1] + Flow(positions[i])
  IN  T

CashReconciles(book) ==
  book.cash = InitialCash + Flows(book.positions)[Len(book.positions)]

(* Positions are closed first in, first out.                               *)
OldestClosedFirst(book) ==
  \A i, j \in DOMAIN book.positions :
    LET p == book.positions[i]
        q == book.positions[j]
    IN  (i < j /\ p.ticker = q.ticker /\ p.side = q.side /\ IsOpen(p)) => IsOpen(q)
=============================================================================
