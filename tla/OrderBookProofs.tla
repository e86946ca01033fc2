-------------------------- MODULE OrderBookProofs ---------------------------
(***************************************************************************)
(* What on_tick does to the book of the virtual exchange (order_book.rs,   *)
(* portfolio.rs), for every book, every list of pending orders and every   *)
(* sequence of trades.                                                     *)
(*                                                                         *)
(* 1. Induction over a bounded set of naturals, and the recursion of the   *)
(* turns.                                                                  *)
(* 2. One fill: the position it opens, or the oldest one it closes; the    *)
(* cash follows (Flows).                                                   *)
(* 3. One turn, and by induction all of them: AfterTurns says what has     *)
(* become of the orders, the positions and the fill events.                *)
(***************************************************************************)
EXTENDS OrderBook, FiniteSetTheorems, SequenceTheorems, WellFoundedInduction, TLAPS

(* A set of naturals that is not empty has a least member.                 *)
LEMMA LeastNatural ==
  ASSUME NEW S \in SUBSET Nat, S # {}
  PROVE  \E m \in S : \A k \in S : m <= k
<1> DEFINE R == OpToRel(<, Nat)
<1>1. IsWellFoundedOn(R, Nat)
  BY NatLessThanWellFounded
<1>2. \A k, m \in S : k < m => <<k, m>> \in R
  BY DEF OpToRel
<1> HIDE DEF R
<1>3. PICK m \in S : \A k \in S : ~ (<<k, m>> \in R)
  BY <1>1, WFMin
<1>4. ASSUME NEW k \in S
      PROVE  m <= k
  <2>1. ~ (k < m)
    BY <1>2, <1>3
  <2> QED
    BY <2>1
<1> QED
  BY <1>4

(* Induction over a bounded set of naturals: what the library's induction  *)
(* theorems say of an operator, said here of a set.                        *)
LEMMA SetInduction ==
  ASSUME NEW n \in Nat, NEW S, 0 \in S,
         \A k \in 0 .. n - 1 : k \in S => k + 1 \in S
  PROVE  0 .. n \subseteq S
<1> SUFFICES ASSUME (0 .. n) \ S # {}
             PROVE  FALSE
  OBVIOUS
<1> DEFINE U == (0 .. n) \ S
<1>1. U \in SUBSET Nat /\ U # {}
  OBVIOUS
<1>2. PICK m \in U : \A k \in U : m <= k
  <2> HIDE DEF U
  <2> QED
    BY <1>1, LeastNatural
<1>3. m # 0 /\ m - 1 \in 0 .. n - 1 /\ m = (m - 1) + 1
  BY <1>2
<1>4. m - 1 \in S
  BY <1>2, <1>3
<1> QED
  BY <1>2, <1>3, <1>4

(* W holds what the turns of on_tick leave, the recursion of Turns written *)
(* out.                                                                    *)
AreTurns(W, book, ticker, trades, now) ==
  /\ W[0] = [book |-> [book EXCEPT !.orders = <<>>], fills |-> <<>>]
  /\ \A i \in 1 .. Len(book.orders) :
       W[i] = TakeTurn(W[i - 1], book.orders[i], ticker, trades, now)

(* The recursion of Turns defines a function: its values are the turns.    *)
LEMMA TurnsDef ==
  ASSUME NEW book, Len(book.orders) \in Nat, NEW ticker, NEW trades, NEW now
  PROVE  AreTurns(Turns(book, ticker, trades, now), book, ticker, trades, now)
<1> DEFINE n == Len(book.orders)
           first == [book |-> [book EXCEPT !.orders = <<>>], fills |-> <<>>]
           Turn(w, i) == TakeTurn(w, book.orders[i], ticker, trades, now)
           Graph(f, k) == f = [i \in 0 .. k |-> IF i = 0 THEN first ELSE Turn(f[i - 1], i)]
           S == {k \in 0 .. n : \E f : Graph(f, k)}
<1>0. n \in Nat
  OBVIOUS
<1>1. Turns(book, ticker, trades, now) = CHOOSE W : Graph(W, n)
  BY DEF Turns
<1> HIDE DEF Turn, n, first
<1>2. 0 \in S
  <2>1. Graph([i \in 0 .. 0 |-> first], 0)
    OBVIOUS
  <2> HIDE DEF Graph
  <2>2. \E f : Graph(f, 0)
    BY <2>1
  <2> QED
    BY <1>0, <2>2
<1>3. ASSUME NEW k \in 0 .. n - 1, k \in S
      PROVE  k + 1 \in S
  <2>1. PICK f : Graph(f, k)
    BY <1>3
  <2> DEFINE g == [i \in 0 .. k + 1 |-> IF i = k + 1 THEN Turn(f[k], k + 1) ELSE f[i]]
  <2>2. \A i \in 0 .. k : g[i] = f[i]
    BY <1>0
  <2>3. g[k + 1] = Turn(f[k], k + 1) /\ k + 1 # 0
    BY <1>0
  <2>4. ASSUME NEW i \in 0 .. k + 1
        PROVE  g[i] = IF i = 0 THEN first ELSE Turn(g[i - 1], i)
    <3>1. CASE i = k + 1
      BY <1>0, <2>2, <2>3, <3>1
    <3>2. CASE i # k + 1
      <4>1. i \in 0 .. k /\ (i # 0 => i - 1 \in 0 .. k)
        BY <1>0, <3>2
      <4>2. f[i] = IF i = 0 THEN first ELSE Turn(f[i - 1], i)
        BY <2>1, <4>1
      <4> HIDE DEF g
      <4> QED
        BY <2>2, <4>1, <4>2
    <3> QED
      BY <3>1, <3>2
  <2>5. Graph(g, k + 1)
    BY <2>4
  <2> HIDE DEF g, Graph
  <2>6. \E h : Graph(h, k + 1)
    BY <2>5
  <2> QED
    BY <1>0, <2>6
<1>4. n \in S
  <2> HIDE DEF S
  <2>1. 0 .. n \subseteq S
    BY <1>0, <1>2, <1>3, SetInduction
  <2> QED
    BY <1>0, <2>1
<1> DEFINE W == CHOOSE W : Graph(W, n)
<1>5. Graph(W, n)
  BY <1>4
<1> HIDE DEF W
<1>6. W[0] = first /\ \A i \in 1 .. n : W[i] = Turn(W[i - 1], i)
  BY <1>0, <1>5
<1> QED
  BY <1>1, <1>6 DEF W, Turn, n, first, AreTurns

-----------------------------------------------------------------------------
(* Oldest returns one of the given positions, and none of them is older:   *)
(* the earliest, and the first of those opened at the same time.           *)
LEMMA OldestIsOne ==
  ASSUME NEW b \in Book, NEW S \in SUBSET DOMAIN b.positions, S # {}
  PROVE  /\ Oldest(b, S) \in S
         /\ \A j \in S : LET i == Oldest(b, S)
                         IN  \/ b.positions[i].since < b.positions[j].since
                             \/ b.positions[i].since = b.positions[j].since /\ i <= j
<1> DEFINE since(i) == b.positions[i].since
           First(i) == \A j \in S : since(i) < since(j) \/ (since(i) = since(j) /\ i <= j)
           T == {since(i) : i \in S}
<1>1. /\ S \in SUBSET Nat
      /\ \A i \in S : since(i) \in Nat
  <2>1. b.positions \in Seq(Position)
    BY DEF Book
  <2>2. \A i \in S : i \in Nat /\ b.positions[i] \in Position
    BY <2>1
  <2> QED
    BY <2>2 DEF Position
<1> HIDE DEF since
<1>2. PICK t \in T : \A u \in T : t <= u
  <2>1. T \in SUBSET Nat /\ T # {}
    BY <1>1
  <2> HIDE DEF T
  <2> QED
    BY <2>1, LeastNatural
<1> DEFINE U == {i \in S : since(i) = t}
<1>3. PICK i \in U : \A j \in U : i <= j
  <2>1. U \in SUBSET Nat /\ U # {}
    BY <1>1, <1>2
  <2> HIDE DEF U
  <2> QED
    BY <2>1, LeastNatural
<1>4. \A j \in S : since(j) = t => i <= j
  BY <1>3
<1>5. \A j \in S : t <= since(j)
  BY <1>2
<1>6. i \in S /\ since(i) = t /\ t \in Nat
  BY <1>1, <1>3
<1>7. First(i)
  BY <1>1, <1>4, <1>5, <1>6
<1>8. Oldest(b, S) = CHOOSE k \in S : First(k)
  BY DEF Oldest, since
<1> HIDE DEF First
<1>9. Oldest(b, S) \in S /\ First(Oldest(b, S))
  BY <1>6, <1>7, <1>8
<1> QED
  BY <1>9 DEF First, since

(* A limit order fills at its limit, or at a price that is better for the  *)
(* trader; a market order fills at the last trade.                         *)
LEMMA FillKeepsLimit ==
  ASSUME NEW o \in Order, NEW ticker, NEW trades \in Seq(Nat), Fillable(o, ticker, trades)
  PROVE  /\ FillPrice(o, trades) \in Nat
         /\ o.limit # Market => IF o.side = "Long" THEN FillPrice(o, trades) <= o.limit
                                                   ELSE FillPrice(o, trades) >= o.limit
         /\ \E i \in DOMAIN trades : FillPrice(o, trades) = trades[i]
<1> DEFINE H == Hits(o, trades)
<1>1. H \in SUBSET Nat /\ H # {} /\ H \subseteq DOMAIN trades
  BY DEF Hits, Fillable
<1>2. Min(H) \in H
  <2> HIDE DEF H
  <2>1. PICK m \in H : \A k \in H : m <= k
    BY <1>1, LeastNatural
  <2> QED
    BY <2>1 DEF Min
<1> DEFINE m == Min(H)
<1>3. /\ m \in DOMAIN trades
      /\ o.limit # Market => IF o.side = "Long" THEN trades[m] <= o.limit ELSE trades[m] >= o.limit
  BY <1>2 DEF Hits
<1>4. FillPrice(o, trades) = trades[m]
  BY DEF FillPrice
<1> HIDE DEF m
<1> QED
  BY <1>3, <1>4

-----------------------------------------------------------------------------
(* Two facts about products that the solver is not asked to find.          *)
LEMMA Products ==
  /\ \A a, c \in Int : a * c \in Int
  /\ \A a, b, c \in Int : (a - b) * c = a * c - b * c
OBVIOUS

(* What a position paid or brought is a number.                            *)
LEMMA FlowType ==
  ASSUME NEW p \in Position
  PROVE  Flow(p) \in Int
<1>1. /\ p.qty \in Int /\ p.entry \in Int /\ p.exit \in Int
      /\ p.exit - p.entry \in Int /\ p.entry - p.exit \in Int
  BY DEF Position, StillOpen
<1>2. /\ (p.exit - p.entry) * p.qty \in Int /\ (p.entry - p.exit) * p.qty \in Int
      /\ p.entry * p.qty \in Int
  BY <1>1, Products
<1> QED
  BY <1>2 DEF Flow, RealizedPnl

(* Closing a position takes in what a long is sold for, and pays what a    *)
(* short is bought back for.                                               *)
LEMMA CloseFlow ==
  ASSUME NEW p \in Position, IsOpen(p), NEW price \in Nat
  PROVE  LET q == [p EXCEPT !.exit = price]
         IN  /\ q \in Position /\ ~IsOpen(q)
             /\ Flow(q) - Flow(p) = IF p.side = "Long" THEN price * p.qty ELSE -(price * p.qty)
<1> DEFINE q == [p EXCEPT !.exit = price]
<1>1. /\ q \in Position /\ ~IsOpen(q) /\ q.exit = price /\ q.entry = p.entry
      /\ q.qty = p.qty /\ q.side = p.side
  BY DEF Position, IsOpen, StillOpen
<1>2. p.entry \in Int /\ p.qty \in Int /\ price \in Int
  BY DEF Position
<1>3. /\ (price - p.entry) * p.qty = price * p.qty - p.entry * p.qty
      /\ (p.entry - price) * p.qty = p.entry * p.qty - price * p.qty
      /\ price * p.qty \in Int /\ p.entry * p.qty \in Int
  BY <1>2, Products
<1>4. Flow(q) = IF p.side = "Long" THEN (price - p.entry) * p.qty ELSE (p.entry - price) * p.qty
  <2> HIDE DEF q
  <2> QED
    BY <1>1 DEF Flow, RealizedPnl
<1>5. Flow(p) = IF p.side = "Long" THEN -(p.entry * p.qty) ELSE p.entry * p.qty
  BY DEF Flow
<1> HIDE DEF q
<1>6. Flow(q) - Flow(p) = IF p.side = "Long" THEN price * p.qty ELSE -(price * p.qty)
  BY <1>3, <1>4, <1>5
<1> QED
  BY <1>1, <1>6 DEF q

-----------------------------------------------------------------------------
(* The recursion of Flows defines a function: its values are the sums.     *)
LEMMA FlowsDef ==
  ASSUME NEW positions, Len(positions) \in Nat
  PROVE  LET T == Flows(positions)
         IN  /\ T[0] = 0
             /\ \A i \in 1 .. Len(positions) : T[i] = T[i - 1] + Flow(positions[i])
<1> DEFINE n == Len(positions)
           Add(w, i) == w + Flow(positions[i])
           Graph(f, k) == f = [i \in 0 .. k |-> IF i = 0 THEN 0 ELSE Add(f[i - 1], i)]
           S == {k \in 0 .. n : \E f : Graph(f, k)}
<1>0. n \in Nat
  OBVIOUS
<1>1. Flows(positions) = CHOOSE T : Graph(T, n)
  BY DEF Flows
<1> HIDE DEF Add, n
<1>2. 0 \in S
  <2>1. Graph([i \in 0 .. 0 |-> 0], 0)
    OBVIOUS
  <2> HIDE DEF Graph
  <2>2. \E f : Graph(f, 0)
    BY <2>1
  <2> QED
    BY <1>0, <2>2
<1>3. ASSUME NEW k \in 0 .. n - 1, k \in S
      PROVE  k + 1 \in S
  <2>1. PICK f : Graph(f, k)
    BY <1>3
  <2> DEFINE g == [i \in 0 .. k + 1 |-> IF i = k + 1 THEN Add(f[k], k + 1) ELSE f[i]]
  <2>2. \A i \in 0 .. k : g[i] = f[i]
    BY <1>0
  <2>3. g[k + 1] = Add(f[k], k + 1) /\ k + 1 # 0
    BY <1>0
  <2>4. ASSUME NEW i \in 0 .. k + 1
        PROVE  g[i] = IF i = 0 THEN 0 ELSE Add(g[i - 1], i)
    <3>1. CASE i = k + 1
      BY <1>0, <2>2, <2>3, <3>1
    <3>2. CASE i # k + 1
      <4>1. i \in 0 .. k /\ (i # 0 => i - 1 \in 0 .. k)
        BY <1>0, <3>2
      <4>2. f[i] = IF i = 0 THEN 0 ELSE Add(f[i - 1], i)
        BY <2>1, <4>1
      <4> HIDE DEF g
      <4> QED
        BY <2>2, <4>1, <4>2
    <3> QED
      BY <3>1, <3>2
  <2>5. Graph(g, k + 1)
    BY <2>4
  <2> HIDE DEF g, Graph
  <2>6. \E h : Graph(h, k + 1)
    BY <2>5
  <2> QED
    BY <1>0, <2>6
<1>4. n \in S
  <2> HIDE DEF S
  <2>1. 0 .. n \subseteq S
    BY <1>0, <1>2, <1>3, SetInduction
  <2> QED
    BY <1>0, <2>1
<1> DEFINE T == CHOOSE T : Graph(T, n)
<1>5. Graph(T, n)
  BY <1>4
<1> HIDE DEF T
<1>6. T[0] = 0 /\ \A i \in 1 .. n : T[i] = Add(T[i - 1], i)
  BY <1>0, <1>5
<1> QED
  BY <1>1, <1>6 DEF T, Add, n

(* Two lists of positions that differ in one place, or in none: so do     *)
(* their sums.                                                             *)
LEMMA FlowsDiffer ==
  ASSUME NEW ps \in Seq(Position), NEW qs \in Seq(Position),
         NEW n \in Nat, n <= Len(ps), n <= Len(qs), NEW i \in Nat,
         \A k \in 1 .. n : k # i => ps[k] = qs[k]
  PROVE  \A k \in 0 .. n :
           /\ Flows(ps)[k] \in Int
           /\ Flows(qs)[k] = Flows(ps)[k] + IF 1 <= i /\ i <= k THEN Flow(qs[i]) - Flow(ps[i])
                                                                ELSE 0
<1> DEFINE P == Flows(ps)
           Q == Flows(qs)
           d == Flow(qs[i]) - Flow(ps[i])
           Good(k) == P[k] \in Int /\ Q[k] = P[k] + IF 1 <= i /\ i <= k THEN d ELSE 0
           S == {k \in 0 .. n : Good(k)}
<1>1. /\ P[0] = 0 /\ Q[0] = 0
      /\ \A k \in 1 .. n : P[k] = P[k - 1] + Flow(ps[k]) /\ Q[k] = Q[k - 1] + Flow(qs[k])
  BY FlowsDef
<1> HIDE DEF P, Q
<1>2. 0 \in S
  BY <1>1
<1>3. ASSUME NEW k \in 0 .. n - 1, k \in S
      PROVE  k + 1 \in S
  <2>1. k + 1 \in 1 .. n /\ (k + 1) - 1 = k /\ k \in Nat
    OBVIOUS
  <2>2. P[k + 1] = P[k] + Flow(ps[k + 1]) /\ Q[k + 1] = Q[k] + Flow(qs[k + 1])
    BY <1>1, <2>1
  <2>3. Flow(ps[k + 1]) \in Int /\ Flow(qs[k + 1]) \in Int
    <3>1. ps[k + 1] \in Position /\ qs[k + 1] \in Position
      BY <2>1
    <3> QED
      BY <3>1, FlowType
  <2>4. Good(k)
    BY <1>3
  <2>5. CASE k + 1 = i
    <3>1. Flow(qs[k + 1]) = Flow(ps[k + 1]) + d /\ d \in Int
      BY <2>3, <2>5
    <3> HIDE DEF d
    <3>2. Q[k] = P[k]
      BY <2>1, <2>4, <2>5
    <3> QED
      BY <2>1, <2>2, <2>3, <2>4, <2>5, <3>1, <3>2
  <2>6. CASE k + 1 # i
    <3> HIDE DEF d
    <3>1. Flow(qs[k + 1]) = Flow(ps[k + 1])
      BY <2>1, <2>6
    <3>2. (1 <= i /\ i <= k) <=> (1 <= i /\ i <= k + 1)
      BY <2>1, <2>6
    <3>3. IF 1 <= i /\ i <= k THEN d \in Int ELSE TRUE
      <4>1. 1 <= i /\ i <= k => ps[i] \in Position /\ qs[i] \in Position
        BY <2>1
      <4> QED
        BY <4>1, FlowType DEF d
    <3> QED
      BY <2>1, <2>2, <2>3, <2>4, <3>1, <3>2, <3>3
  <2> QED
    BY <2>5, <2>6
<1>4. 0 .. n \subseteq S
  <2> HIDE DEF S
  <2> QED
    BY <1>2, <1>3, SetInduction
<1> QED
  BY <1>4 DEF P, Q

(* A position appended to the list does not change the sums before it.     *)
LEMMA FlowsBefore ==
  ASSUME NEW ps \in Seq(Position), NEW p \in Position
  PROVE  /\ Flows(ps)[Len(ps)] \in Int
         /\ Flows(Append(ps, p))[Len(ps)] = Flows(ps)[Len(ps)]
<1> DEFINE qs == Append(ps, p)
           n == Len(ps)
<1>1. /\ qs \in Seq(Position) /\ n \in Nat /\ n <= Len(ps) /\ n <= Len(qs)
      /\ \A k \in 1 .. n : ps[k] = qs[k]
  BY AppendProperties
<1> HIDE DEF qs, n
<1>2. \A k \in 0 .. n :
        /\ Flows(ps)[k] \in Int
        /\ Flows(qs)[k] = Flows(ps)[k] + IF 1 <= 0 /\ 0 <= k THEN Flow(qs[0]) - Flow(ps[0]) ELSE 0
  BY <1>1, FlowsDiffer
<1>3. n \in 0 .. n
  BY <1>1
<1> QED
  BY <1>2, <1>3 DEF qs, n

(* A position of the list replaced by another changes the total by the     *)
(* difference of the two flows.                                            *)
LEMMA FlowsAfter ==
  ASSUME NEW ps \in Seq(Position), NEW i \in 1 .. Len(ps), NEW q \in Position
  PROVE  /\ Flows(ps)[Len(ps)] \in Int
         /\ Flows([ps EXCEPT ![i] = q])[Len(ps)] = Flows(ps)[Len(ps)] + (Flow(q) - Flow(ps[i]))
<1> DEFINE qs == [ps EXCEPT ![i] = q]
           n == Len(ps)
<1>1. /\ qs \in Seq(Position) /\ n \in Nat /\ n <= Len(ps) /\ n <= Len(qs)
      /\ i \in Nat /\ 1 <= i /\ i <= n /\ n \in 0 .. n
      /\ \A k \in 1 .. n : k # i => ps[k] = qs[k]
      /\ qs[i] = q
  OBVIOUS
<1> HIDE DEF qs, n
<1>2. \A k \in 0 .. n :
        /\ Flows(ps)[k] \in Int
        /\ Flows(qs)[k] = Flows(ps)[k] + IF 1 <= i /\ i <= k THEN Flow(qs[i]) - Flow(ps[i]) ELSE 0
  BY <1>1, FlowsDiffer
<1> QED
  BY <1>1, <1>2 DEF qs, n

-----------------------------------------------------------------------------
(* The positions are in the order of their times, none after now.          *)
InOrder(b, now) ==
  \A i, j \in DOMAIN b.positions :
    /\ b.positions[i].since <= now
    /\ i < j => b.positions[i].since <= b.positions[j].since

(* What the proof carries from turn to turn. BookIsSound alone is not      *)
(* inductive: which position a fill closes depends on the order they were  *)
(* opened in, so the invariant needs the times to be in order and not      *)
(* after now.                                                              *)
Sound(b, now) ==
  b \in Book /\ OneSided(b) /\ CashReconciles(b) /\ OldestClosedFirst(b) /\ InOrder(b, now)

(* The closed positions of a book, and how many fills it has seen: each    *)
(* opened a position or closed one.                                        *)
ClosedOf(b) == {i \in DOMAIN b.positions : ~IsOpen(b.positions[i])}
Traded(b)   == Len(b.positions) + Cardinality(ClosedOf(b))

(* A book has finitely many closed positions.                              *)
LEMMA ClosedFinite ==
  ASSUME NEW b \in Book
  PROVE  IsFiniteSet(ClosedOf(b)) /\ Cardinality(ClosedOf(b)) \in Nat
<1>1. b.positions \in Seq(Position)
  BY DEF Book
<1>2. DOMAIN b.positions = 1 .. Len(b.positions) /\ Len(b.positions) \in Nat
  BY <1>1
<1>3. IsFiniteSet(1 .. Len(b.positions))
  BY <1>2, FS_Interval
<1>4. ClosedOf(b) \in SUBSET (1 .. Len(b.positions))
  BY <1>2 DEF ClosedOf
<1>5. IsFiniteSet(ClosedOf(b))
  BY <1>3, <1>4, FS_Subset
<1> QED
  BY <1>5, FS_CardinalityType

(* record_open on a book with nothing open on the other side keeps it      *)
(* sound: one fill more, and the cash paid is the new position's flow.     *)
LEMMA OpenKeeps ==
  ASSUME NEW t \in Nat, NEW b, Sound(b, t), NEW o \in Order, NEW price \in Nat,
         NEW now \in Nat, t <= now, OpenPositions(b, o.ticker, OtherSide(o.side)) = {}
  PROVE  LET c == RecordOpen(b, o, price, now)
         IN  /\ Sound(c, now) /\ c.orders = b.orders
             /\ Traded(c) = Traded(b) + 1
<1> DEFINE new == [id |-> o.id, ticker |-> o.ticker, side |-> o.side, qty |-> o.qty,
                   entry |-> price, since |-> now, exit |-> StillOpen]
           ps == b.positions
           qs == Append(ps, new)
           n == Len(ps)
           d == IF o.side = "Long" THEN -(price * o.qty) ELSE price * o.qty
           c == RecordOpen(b, o, price, now)
<1>1. /\ new \in Position /\ IsOpen(new) /\ Flow(new) = d
      /\ new.ticker = o.ticker /\ new.side = o.side /\ new.since = now
  BY DEF Order, Position, IsOpen, Flow, StillOpen
<1>2. /\ b \in Book /\ ps \in Seq(Position) /\ n \in Nat /\ DOMAIN ps = 1 .. n
      /\ b.cash \in Int /\ o.side \in Sides /\ d \in Int
  <2>1. price * o.qty \in Int
    <3>1. price \in Int /\ o.qty \in Int
      BY DEF Order
    <3> QED
      BY <3>1, Products
  <2> QED
    BY <2>1 DEF Sound, Book, Order
<1>3. c = [b EXCEPT !.cash = b.cash + d, !.positions = qs]
  <2>1. price * o.qty \in Int
    <3>1. price \in Int /\ o.qty \in Int
      BY DEF Order
    <3> QED
      BY <3>1, Products
  <2>2. b.cash + d = IF o.side = "Long" THEN b.cash - price * o.qty ELSE b.cash + price * o.qty
    BY <1>2, <2>1
  <2> HIDE DEF d
  <2> QED
    BY <2>2 DEF RecordOpen
<1> HIDE DEF new, c, d
<1>4. /\ qs \in Seq(Position) /\ Len(qs) = n + 1 /\ DOMAIN qs = 1 .. n + 1
      /\ qs[n + 1] = new /\ \A i \in 1 .. n : qs[i] = ps[i]
  BY <1>1, <1>2, AppendProperties
<1> HIDE DEF qs
<1>5. c \in Book /\ c.positions = qs /\ c.cash = b.cash + d /\ c.orders = b.orders
  <2>1. c.positions = qs /\ c.cash = b.cash + d /\ c.orders = b.orders
    BY <1>2, <1>3 DEF Book
  <2>2. c = [orders |-> b.orders, positions |-> qs, cash |-> b.cash + d]
    BY <1>2, <1>3 DEF Book
  <2>3. b.orders \in Seq(Order) /\ b.cash + d \in Int
    BY <1>2 DEF Book
  <2> QED
    BY <1>4, <2>1, <2>2, <2>3 DEF Book
<1> HIDE DEF n
<1>6. \A i \in 1 .. n + 1 : i \in 1 .. n \/ i = n + 1
  BY <1>2
<1>7. \A i \in 1 .. n : IsOpen(ps[i]) /\ ps[i].ticker = o.ticker => ps[i].side = o.side
  <2> TAKE i \in 1 .. n
  <2>1. ps[i] \in Position /\ i \notin OpenPositions(b, o.ticker, OtherSide(o.side))
    BY <1>2
  <2> QED
    BY <1>2, <2>1 DEF OpenPositions, OtherSide, Sides, Position
<1>8. OneSided(c)
  <2>1. \A i, j \in 1 .. n : IsOpen(ps[i]) /\ IsOpen(ps[j]) /\ ps[i].ticker = ps[j].ticker
                               => ps[i].side = ps[j].side
    BY <1>2 DEF Sound, OneSided
  <2> QED
    BY <1>1, <1>4, <1>5, <1>6, <1>7, <2>1 DEF OneSided
<1>9. CashReconciles(c)
  <2>1. /\ Flows(ps)[n] \in Int
        /\ Flows(qs)[n] = Flows(ps)[n]
    BY <1>1, <1>2, FlowsBefore DEF qs, n
  <2>2. Flows(qs)[n + 1] = Flows(qs)[n] + Flow(qs[n + 1])
    BY <1>2, <1>4, FlowsDef
  <2>3. b.cash = InitialCash + Flows(ps)[n]
    BY DEF Sound, CashReconciles, n
  <2> QED
    BY <1>1, <1>2, <1>4, <1>5, <2>1, <2>2, <2>3, BookAssumption DEF CashReconciles
<1>10. OldestClosedFirst(c)
  <2>1. \A i, j \in 1 .. n : i < j /\ ps[i].ticker = ps[j].ticker /\ ps[i].side = ps[j].side
                               /\ IsOpen(ps[i]) => IsOpen(ps[j])
    BY <1>2 DEF Sound, OldestClosedFirst
  <2>2. \A j \in 1 .. n : ~ (n + 1 < j)
    BY <1>2
  <2>3. ~ (n + 1 < n + 1)
    BY <1>2
  <2> QED
    BY <1>1, <1>4, <1>5, <1>6, <2>1, <2>2, <2>3 DEF OldestClosedFirst
<1>11. InOrder(c, now)
  <2>1. \A i \in 1 .. n : ps[i].since \in Nat /\ ps[i].since <= t
    <3> TAKE i \in 1 .. n
    <3>1. ps[i] \in Position
      BY <1>2
    <3> QED
      BY <1>2, <3>1 DEF Sound, InOrder, Position
  <2>2. \A i \in 1 .. n : ps[i].since <= now
    BY <2>1
  <2>3. \A i, j \in 1 .. n : i < j => ps[i].since <= ps[j].since
    BY <1>2 DEF Sound, InOrder
  <2>4. \A j \in 1 .. n : ~ (n + 1 < j)
    BY <1>2
  <2> QED
    BY <1>1, <1>2, <1>4, <1>5, <1>6, <2>2, <2>3, <2>4 DEF InOrder
<1>12. Traded(c) = Traded(b) + 1
  <2>1. ClosedOf(c) = ClosedOf(b)
    BY <1>1, <1>2, <1>4, <1>5, <1>6 DEF ClosedOf
  <2> QED
    BY <1>2, <1>4, <1>5, <2>1, ClosedFinite DEF Traded, n
<1> QED
  BY <1>5, <1>8, <1>9, <1>10, <1>11, <1>12 DEF Sound, c

(* record_close of the oldest position open on the other side keeps the    *)
(* book sound: one fill more, and the cash changes by what the close       *)
(* brought.                                                                *)
LEMMA CloseKeeps ==
  ASSUME NEW t \in Nat, NEW b, Sound(b, t), NEW o \in Order, NEW price \in Nat,
         NEW now \in Nat, t <= now, OpenPositions(b, o.ticker, OtherSide(o.side)) # {}
  PROVE  LET c == RecordClose(b, Oldest(b, OpenPositions(b, o.ticker, OtherSide(o.side))), price)
         IN  /\ Sound(c, now) /\ c.orders = b.orders
             /\ Traded(c) = Traded(b) + 1
<1> DEFINE against == OpenPositions(b, o.ticker, OtherSide(o.side))
           i == Oldest(b, against)
           ps == b.positions
           n == Len(ps)
           q == [ps[i] EXCEPT !.exit = price]
           qs == [ps EXCEPT ![i] = q]
           d == IF ps[i].side = "Long" THEN price * ps[i].qty ELSE -(price * ps[i].qty)
           c == RecordClose(b, i, price)
<1>1. /\ b \in Book /\ ps \in Seq(Position) /\ n \in Nat /\ DOMAIN ps = 1 .. n
      /\ b.cash \in Int
  BY DEF Sound, Book
<1>2. /\ i \in 1 .. n /\ ps[i] \in Position /\ IsOpen(ps[i])
      /\ \A j \in against : \/ ps[i].since < ps[j].since
                            \/ ps[i].since = ps[j].since /\ i <= j
  <2>1. against \in SUBSET DOMAIN ps /\ \A j \in against : IsOpen(ps[j])
    BY DEF OpenPositions
  <2> HIDE DEF against
  <2>2. /\ i \in against
        /\ \A j \in against : \/ ps[i].since < ps[j].since
                              \/ ps[i].since = ps[j].since /\ i <= j
    BY <1>1, <2>1, OldestIsOne DEF against
  <2> HIDE DEF i
  <2> QED
    BY <1>1, <2>1, <2>2
<1>3. d \in Int
  <2>1. price \in Int /\ ps[i].qty \in Int
    BY <1>2 DEF Position
  <2>2. price * ps[i].qty \in Int
    BY <2>1, Products
  <2> QED
    BY <2>2
<1>4. /\ q \in Position /\ ~IsOpen(q) /\ Flow(q) - Flow(ps[i]) = d
      /\ q.ticker = ps[i].ticker /\ q.side = ps[i].side /\ q.since = ps[i].since
  <2>1. q \in Position /\ ~IsOpen(q) /\ Flow(q) - Flow(ps[i]) = d
    BY <1>2, CloseFlow
  <2>2. q.ticker = ps[i].ticker /\ q.side = ps[i].side /\ q.since = ps[i].since
    BY <1>2 DEF Position
  <2> QED
    BY <2>1, <2>2
<1>5. c = [b EXCEPT !.cash = b.cash + d, !.positions = qs]
  <2>1. price * ps[i].qty \in Int
    <3>1. price \in Int /\ ps[i].qty \in Int
      BY <1>2 DEF Position
    <3> QED
      BY <3>1, Products
  <2>2. b.cash + d = IF ps[i].side = "Long" THEN b.cash + price * ps[i].qty
                                            ELSE b.cash - price * ps[i].qty
    BY <1>1, <2>1
  <2> HIDE DEF d, i
  <2>3. c = [b EXCEPT !.cash = IF ps[i].side = "Long" THEN @ + price * ps[i].qty
                                                      ELSE @ - price * ps[i].qty,
                      !.positions = qs]
    BY <1>1 DEF RecordClose
  <2> QED
    BY <2>2, <2>3
<1>6. \A j \in against : i <= j \/ ps[i].since < ps[j].since
  BY <1>2
<1> HIDE DEF i, q, d, c
<1>7. /\ qs \in Seq(Position) /\ Len(qs) = n /\ DOMAIN qs = 1 .. n
      /\ qs[i] = q /\ \A j \in 1 .. n : j # i => qs[j] = ps[j]
  BY <1>1, <1>2, <1>4
<1> HIDE DEF qs
<1>8. c \in Book /\ c.positions = qs /\ c.cash = b.cash + d /\ c.orders = b.orders
  <2>1. c.positions = qs /\ c.cash = b.cash + d /\ c.orders = b.orders
    BY <1>1, <1>5 DEF Book
  <2>2. c = [orders |-> b.orders, positions |-> qs, cash |-> b.cash + d]
    BY <1>1, <1>5 DEF Book
  <2>3. b.orders \in Seq(Order) /\ b.cash + d \in Int
    BY <1>1, <1>3 DEF Book
  <2> QED
    BY <1>7, <2>1, <2>2, <2>3 DEF Book
<1>9. \A j \in 1 .. n : /\ qs[j].ticker = ps[j].ticker /\ qs[j].side = ps[j].side
                        /\ qs[j].since = ps[j].since
                        /\ IsOpen(qs[j]) <=> (j # i /\ IsOpen(ps[j]))
  BY <1>2, <1>4, <1>7
<1>10. OneSided(c)
  BY <1>1, <1>7, <1>8, <1>9 DEF Sound, OneSided
<1>11. CashReconciles(c)
  <2>1. /\ Flows(ps)[n] \in Int
        /\ Flows(qs)[n] = Flows(ps)[n] + (Flow(q) - Flow(ps[i]))
    BY <1>1, <1>2, <1>4, FlowsAfter DEF qs
  <2>2. Flows(ps)[n] \in Int /\ Flows(qs)[n] = Flows(ps)[n] + d
    BY <1>4, <2>1
  <2>3. b.cash = InitialCash + Flows(ps)[n]
    BY DEF Sound, CashReconciles
  <2>4. c.cash = InitialCash + Flows(qs)[n]
    <3> HIDE DEF n, ps
    <3> QED
      BY <1>3, <1>8, <2>2, <2>3, BookAssumption
  <2> QED
    BY <1>7, <1>8, <2>4 DEF CashReconciles
<1>12. OldestClosedFirst(c)
  <2>1. \A j, k \in 1 .. n : j < k /\ ps[j].ticker = ps[k].ticker /\ ps[j].side = ps[k].side
                               /\ IsOpen(ps[j]) => IsOpen(ps[k])
    BY <1>1 DEF Sound, OldestClosedFirst
  <2>2. ASSUME NEW j \in 1 .. n, j < i, ps[j].ticker = ps[i].ticker, ps[j].side = ps[i].side,
               IsOpen(ps[j])
        PROVE  FALSE
    <3>1. i \in against
      BY <1>1, OldestIsOne DEF i, OpenPositions
    <3>2. j \in against
      BY <1>1, <2>2, <3>1 DEF OpenPositions
    <3>3. ps[i].since < ps[j].since
      BY <1>6, <2>2, <3>2, <1>2
    <3>4. ps[j].since <= ps[i].since
      BY <1>1, <1>2, <2>2 DEF Sound, InOrder
    <3>5. ps[i].since \in Nat /\ ps[j].since \in Nat
      <4>1. ps[j] \in Position
        BY <1>1
      <4> QED
        BY <1>2, <4>1 DEF Position
    <3> QED
      BY <3>3, <3>4, <3>5
  <2> QED
    BY <1>7, <1>8, <1>9, <2>1, <2>2 DEF OldestClosedFirst
<1>13. InOrder(c, now)
  <2>1. \A j \in 1 .. n : ps[j].since \in Nat /\ ps[j].since <= t
    <3> TAKE j \in 1 .. n
    <3>1. ps[j] \in Position
      BY <1>1
    <3> QED
      BY <1>1, <3>1 DEF Sound, InOrder, Position
  <2>2. \A j \in 1 .. n : ps[j].since <= now
    BY <2>1
  <2>3. \A j, k \in 1 .. n : j < k => ps[j].since <= ps[k].since
    BY <1>1 DEF Sound, InOrder
  <2> QED
    BY <1>7, <1>8, <1>9, <2>2, <2>3 DEF InOrder
<1>14. Traded(c) = Traded(b) + 1
  <2>1. ClosedOf(c) = ClosedOf(b) \cup {i} /\ i \notin ClosedOf(b)
    BY <1>1, <1>2, <1>7, <1>8, <1>9 DEF ClosedOf
  <2>2. Cardinality(ClosedOf(c)) = Cardinality(ClosedOf(b)) + 1
    BY <1>1, <2>1, ClosedFinite, FS_AddElement
  <2>3. Len(c.positions) = Len(b.positions) /\ Len(b.positions) \in Nat
    BY <1>1, <1>7, <1>8
  <2> QED
    BY <1>1, <2>2, <2>3, ClosedFinite DEF Traded
<1> QED
  BY <1>8, <1>10, <1>11, <1>12, <1>13, <1>14 DEF Sound, c, i

(* A fill, which opens or closes, keeps the book sound.                    *)
LEMMA SettleKeeps ==
  ASSUME NEW t \in Nat, NEW b, Sound(b, t), NEW o \in Order, NEW price \in Nat,
         NEW now \in Nat, t <= now
  PROVE  LET c == Settle(b, o, price, now)
         IN  /\ Sound(c, now) /\ c.orders = b.orders
             /\ Traded(c) = Traded(b) + 1
<1> DEFINE against == OpenPositions(b, o.ticker, OtherSide(o.side))
<1>1. CASE against = {}
  <2>1. Settle(b, o, price, now) = RecordOpen(b, o, price, now)
    BY <1>1 DEF Settle
  <2> QED
    BY <1>1, <2>1, OpenKeeps
<1>2. CASE against # {}
  <2>1. Settle(b, o, price, now) = RecordClose(b, Oldest(b, against), price)
    BY <1>2 DEF Settle
  <2> QED
    BY <1>2, <2>1, CloseKeeps
<1> QED
  BY <1>1, <1>2

-----------------------------------------------------------------------------
(* on_tick.  What holds after k turns of the loop, over the book b it      *)
(* began with.                                                             *)
Within(f) ==
  f.order.limit # Market =>
    IF f.order.side = "Long" THEN f.price <= f.order.limit ELSE f.price >= f.order.limit

OrderIds(orders, k)  == {orders[i].id : i \in 1 .. k}

(* The ids of the orders that filled.                                      *)
FilledIds(fills) == {fills[i].order.id : i \in 1 .. Len(fills)}

(* After k turns: the book is sound; each of the first k orders is pending *)
(* again or has a fill event, never both; each fill moved one position; no *)
(* fill crosses its order's limit; and what held of all the orders before  *)
(* holds of those that stay pending.                                       *)
AfterTurns(w, b, k, now) ==
  /\ Sound(w.book, now) /\ w.fills \in Seq(Fill)
  /\ Len(w.book.orders) + Len(w.fills) = k
  /\ OrderIds(w.book.orders, Len(w.book.orders)) \cup FilledIds(w.fills) = OrderIds(b.orders, k)
  /\ Traded(w.book) = Traded(b) + Len(w.fills)
  /\ \A i \in 1 .. Len(w.fills) : Within(w.fills[i])
  /\ \A P : b.orders \in Seq(P) => w.book.orders \in Seq(P)

(* Only the positions and the cash matter to soundness.                    *)
LEMMA OrdersDoNotMatter ==
  ASSUME NEW t \in Nat, NEW b, Sound(b, t), NEW now \in Nat, t <= now,
         NEW orders \in Seq(Order)
  PROVE  LET c == [b EXCEPT !.orders = orders]
         IN  /\ Sound(c, now) /\ Traded(c) = Traded(b) /\ c.orders = orders
<1> DEFINE c == [b EXCEPT !.orders = orders]
<1>1. b \in Book
  BY DEF Sound
<1>2. c \in Book /\ c.orders = orders /\ c.positions = b.positions /\ c.cash = b.cash
  BY <1>1 DEF Book
<1>3. b.positions \in Seq(Position)
  BY <1>1 DEF Book
<1> HIDE DEF c
<1>4. InOrder(c, now)
  <2> SUFFICES ASSUME NEW i \in DOMAIN b.positions, NEW j \in DOMAIN b.positions
               PROVE  /\ b.positions[i].since <= now
                      /\ i < j => b.positions[i].since <= b.positions[j].since
    BY <1>2 DEF InOrder
  <2>1. b.positions[i] \in Position
    BY <1>3
  <2>2. b.positions[i].since \in Nat /\ b.positions[i].since <= t
    BY <2>1 DEF Position, Sound, InOrder
  <2>3. i < j => b.positions[i].since <= b.positions[j].since
    BY DEF Sound, InOrder
  <2> QED
    BY <2>2, <2>3
<1>5. OneSided(c) /\ OldestClosedFirst(c)
  BY <1>2 DEF Sound, OneSided, OldestClosedFirst
<1>6. CashReconciles(c)
  BY <1>2 DEF Sound, CashReconciles
<1>7. Traded(c) = Traded(b)
  BY <1>2 DEF Traded, ClosedOf
<1> QED
  BY <1>2, <1>4, <1>5, <1>6, <1>7 DEF Sound, c

(* An order that stays pending adds its id to the pending ones.            *)
LEMMA IdsOfAppend ==
  ASSUME NEW orders \in Seq(Order), NEW o \in Order
  PROVE  OrderIds(Append(orders, o), Len(Append(orders, o))) = OrderIds(orders, Len(orders)) \cup {o.id}
<1> DEFINE all == Append(orders, o)
           n == Len(orders)
<1>1. /\ Len(all) = n + 1 /\ n \in Nat
      /\ all[n + 1] = o /\ \A i \in 1 .. n : all[i] = orders[i]
  BY AppendProperties
<1> HIDE DEF all, n
<1>2. \A i \in 1 .. n + 1 : i \in 1 .. n \/ i = n + 1
  BY <1>1
<1>3. 1 .. n \subseteq 1 .. n + 1 /\ n + 1 \in 1 .. n + 1
  BY <1>1
<1>4. {all[i].id : i \in 1 .. n + 1} = {orders[i].id : i \in 1 .. n} \cup {o.id}
  BY <1>1, <1>2, <1>3
<1> QED
  BY <1>1, <1>4 DEF OrderIds, all, n

(* A fill adds its order's id to the filled ones.                          *)
LEMMA FilledIdsOfAppend ==
  ASSUME NEW fills \in Seq(Fill), NEW f \in Fill
  PROVE  FilledIds(Append(fills, f)) = FilledIds(fills) \cup {f.order.id}
<1> DEFINE all == Append(fills, f)
           n == Len(fills)
<1>1. /\ Len(all) = n + 1 /\ n \in Nat
      /\ all[n + 1] = f /\ \A i \in 1 .. n : all[i] = fills[i]
  BY AppendProperties
<1> HIDE DEF all, n
<1>2. \A i \in 1 .. n + 1 : i \in 1 .. n \/ i = n + 1
  BY <1>1
<1>3. 1 .. n \subseteq 1 .. n + 1 /\ n + 1 \in 1 .. n + 1
  BY <1>1
<1>4. {all[i].order.id : i \in 1 .. n + 1} = {fills[i].order.id : i \in 1 .. n} \cup {f.order.id}
  BY <1>1, <1>2, <1>3
<1> QED
  BY <1>1, <1>4 DEF FilledIds, all, n

(* The ids of one order more.                                              *)
LEMMA NextId ==
  ASSUME NEW orders \in Seq(Order), NEW k \in Nat, k + 1 \in 1 .. Len(orders)
  PROVE  OrderIds(orders, k + 1) = OrderIds(orders, k) \cup {orders[k + 1].id}
<1>1. \A i \in 1 .. k + 1 : i \in 1 .. k \/ i = k + 1
  OBVIOUS
<1>2. 1 .. k \subseteq 1 .. k + 1 /\ k + 1 \in 1 .. k + 1
  OBVIOUS
<1> QED
  BY <1>1, <1>2 DEF OrderIds

(* Two instances of associativity, in the form a turn needs them.          *)
LEMMA PlusAssociative ==
  \A m, l \in Nat : m + (l + 1) = (m + l) + 1 /\ (m + 1) + l = (m + l) + 1
OBVIOUS

(* One turn: the order fills and is settled, or stays pending.             *)
LEMMA TurnKeeps ==
  ASSUME NEW b, NEW w, NEW k \in Nat, NEW now \in Nat, AfterTurns(w, b, k, now),
         NEW o \in Order, NEW ticker, NEW trades \in Seq(Nat),
         Traded(b) \in Nat, OrderIds(b.orders, k + 1) = OrderIds(b.orders, k) \cup {o.id},
         \A P : b.orders \in Seq(P) => o \in P
  PROVE  AfterTurns(TakeTurn(w, o, ticker, trades, now), b, k + 1, now)
<1> DEFINE v == TakeTurn(w, o, ticker, trades, now)
           u == w.book
           fs == w.fills
           price == FillPrice(o, trades)
           f == [order |-> o, price |-> price, time |-> now]
<1>1. /\ Sound(u, now) /\ fs \in Seq(Fill) /\ Len(u.orders) + Len(fs) = k
      /\ OrderIds(u.orders, Len(u.orders)) \cup FilledIds(fs) = OrderIds(b.orders, k)
      /\ Traded(u) = Traded(b) + Len(fs)
      /\ \A i \in 1 .. Len(fs) : Within(fs[i])
      /\ \A P : b.orders \in Seq(P) => u.orders \in Seq(P)
  BY DEF AfterTurns
<1>2. CASE Fillable(o, ticker, trades)
  <2>1. price \in Nat /\ Within(f)
    BY <1>2, FillKeepsLimit DEF Within
  <2>2. f \in Fill /\ f.order.id = o.id
    BY <2>1 DEF Fill
  <2>3. v = [book |-> Settle(u, o, price, now), fills |-> Append(fs, f)]
    BY <1>2 DEF TakeTurn, LeftPending
  <2>4. v.book = Settle(u, o, price, now) /\ v.fills = Append(fs, f)
    BY <2>3
  <2> HIDE DEF v, u, fs, f, price
  <2>5. u.orders \in Seq(Order) /\ Len(u.orders) \in Nat /\ Len(fs) \in Nat
    BY <1>1 DEF Sound, Book
  <2>6. now <= now
    OBVIOUS
  <2>7. /\ Sound(v.book, now) /\ v.book.orders = u.orders
        /\ Traded(v.book) = Traded(u) + 1
    BY <1>1, <2>1, <2>4, <2>6, SettleKeeps
  <2>8. /\ v.fills \in Seq(Fill) /\ Len(v.fills) = Len(fs) + 1
        /\ v.fills[Len(fs) + 1] = f
        /\ \A i \in 1 .. Len(fs) : v.fills[i] = fs[i]
    BY <1>1, <2>2, <2>4, AppendProperties
  <2>9. FilledIds(v.fills) = FilledIds(fs) \cup {o.id}
    BY <1>1, <2>2, <2>4, FilledIdsOfAppend
  <2>10. OrderIds(v.book.orders, Len(v.book.orders)) \cup FilledIds(v.fills) = OrderIds(b.orders, k + 1)
    BY <1>1, <2>7, <2>9
  <2>11. \A i \in 1 .. Len(v.fills) : Within(v.fills[i])
    <3>1. \A i \in 1 .. Len(fs) + 1 : i \in 1 .. Len(fs) \/ i = Len(fs) + 1
      BY <2>5
    <3> QED
      BY <1>1, <2>1, <2>8, <3>1
  <2>12. Traded(v.book) = Traded(b) + Len(v.fills)
    BY <1>1, <2>5, <2>7, <2>8
  <2>13. Len(v.book.orders) + Len(v.fills) = k + 1
    <3>1. Len(v.book.orders) = Len(u.orders)
      BY <2>7
    <3>2. Len(v.fills) = Len(fs) + 1
      BY <2>8
    <3>3. Len(u.orders) + Len(fs) = k
      BY <1>1
    <3>4. Len(u.orders) \in Nat /\ Len(fs) \in Nat
      BY <2>5
    <3> QED
      <4>1. Len(v.book.orders) + Len(v.fills) = Len(u.orders) + (Len(fs) + 1)
        BY <3>1, <3>2
      <4>2. Len(u.orders) + (Len(fs) + 1) = (Len(u.orders) + Len(fs)) + 1
        BY <3>4, PlusAssociative
      <4> QED
        BY <3>3, <4>1, <4>2
  <2>14. \A P : b.orders \in Seq(P) => v.book.orders \in Seq(P)
    BY <1>1, <2>7, Zenon
  <2> QED
    BY <2>7, <2>8, <2>10, <2>11, <2>12, <2>13, <2>14 DEF AfterTurns, v
<1>3. CASE ~Fillable(o, ticker, trades)
  <2>1. v = [book |-> PlaceOrder(u, o), fills |-> fs]
    BY <1>3 DEF TakeTurn, LeftPending
  <2>2. v.book = [u EXCEPT !.orders = Append(u.orders, o)] /\ v.fills = fs
    BY <2>1 DEF PlaceOrder
  <2> HIDE DEF v, u, fs
  <2>3. u.orders \in Seq(Order) /\ Len(u.orders) \in Nat /\ Len(fs) \in Nat
    BY <1>1 DEF Sound, Book
  <2>4. /\ Append(u.orders, o) \in Seq(Order)
        /\ Len(Append(u.orders, o)) = Len(u.orders) + 1
    BY <2>3, AppendProperties
  <2>5. now <= now
    OBVIOUS
  <2>6. /\ Sound(v.book, now) /\ Traded(v.book) = Traded(u)
        /\ v.book.orders = Append(u.orders, o)
    <3> DEFINE c == [u EXCEPT !.orders = Append(u.orders, o)]
    <3>1. Sound(c, now) /\ Traded(c) = Traded(u) /\ c.orders = Append(u.orders, o)
      BY <1>1, <2>4, <2>5, OrdersDoNotMatter
    <3> QED
      BY <2>2, <3>1
  <2>7. OrderIds(v.book.orders, Len(v.book.orders)) = OrderIds(u.orders, Len(u.orders)) \cup {o.id}
    BY <2>3, <2>6, IdsOfAppend
  <2>8. OrderIds(v.book.orders, Len(v.book.orders)) \cup FilledIds(v.fills) = OrderIds(b.orders, k + 1)
    BY <1>1, <2>2, <2>7
  <2>9. Len(v.book.orders) + Len(v.fills) = k + 1
    BY <1>1, <2>2, <2>3, <2>4, <2>6
  <2>10. \A P : b.orders \in Seq(P) => v.book.orders \in Seq(P)
    <3> SUFFICES ASSUME NEW P, b.orders \in Seq(P)
                 PROVE  v.book.orders \in Seq(P)
      OBVIOUS
    <3>1. u.orders \in Seq(P) /\ o \in P
      BY <1>1
    <3>2. Append(u.orders, o) \in Seq(P)
      BY <3>1, AppendProperties
    <3> QED
      BY <2>6, <3>2
  <2> QED
    BY <1>1, <2>2, <2>6, <2>8, <2>9, <2>10 DEF AfterTurns, v
<1> QED
  BY <1>2, <1>3

(* All the turns, by induction over the pending orders: what on_tick and   *)
(* the fill events it returns amount to, for every book and every sequence *)
(* of trades.                                                              *)
LEMMA OnTickKeeps ==
  ASSUME NEW t \in Nat, NEW b, Sound(b, t), NEW ticker, NEW trades \in Seq(Nat),
         NEW now \in Nat, t <= now
  PROVE  AfterTurns([book  |-> OnTick(b, ticker, trades, now),
                     fills |-> FillEvents(b, ticker, trades, now)], b, Len(b.orders), now)
<1> DEFINE W == Turns(b, ticker, trades, now)
           n == Len(b.orders)
<1>1. b \in Book /\ b.orders \in Seq(Order) /\ n \in Nat
  BY DEF Sound, Book
<1>2. /\ W[0] = [book |-> [b EXCEPT !.orders = <<>>], fills |-> <<>>]
      /\ \A k \in 1 .. Len(b.orders) : W[k] = TakeTurn(W[k - 1], b.orders[k], ticker, trades, now)
  <2>1. Len(b.orders) \in Nat
    BY <1>1
  <2>2. AreTurns(W, b, ticker, trades, now)
    BY <2>1, TurnsDef
  <2> HIDE DEF W
  <2> QED
    BY <2>2 DEF AreTurns
<1> HIDE DEF W
<1> DEFINE Good(k) == AfterTurns(W[k], b, k, now)
           S == {k \in 0 .. n : Good(k)}
<1>3. Traded(b) \in Nat
  <2>1. b.positions \in Seq(Position)
    BY <1>1 DEF Book
  <2> QED
    BY <1>1, <2>1, ClosedFinite DEF Traded
<1>4. 0 \in S
  <2> DEFINE c == [b EXCEPT !.orders = <<>>]
  <2>1. Sound(c, now) /\ Traded(c) = Traded(b) /\ c.orders = <<>>
    <3>1. <<>> \in Seq(Order)
      OBVIOUS
    <3> QED
      BY <3>1, OrdersDoNotMatter
  <2>2. W[0].book = c /\ W[0].fills = <<>>
    BY <1>2
  <2> HIDE DEF c
  <2>3. Len(<<>>) = 0 /\ <<>> \in Seq(Fill)
    OBVIOUS
  <2>4. \A i \in 1 .. 0 : FALSE
    OBVIOUS
  <2>5. OrderIds(<<>>, 0) = {} /\ FilledIds(<<>>) = {} /\ OrderIds(b.orders, 0) = {}
    BY <2>3, <2>4 DEF OrderIds, FilledIds
  <2>6. \A P : <<>> \in Seq(P)
    OBVIOUS
  <2>7. Good(0)
    <3>1. /\ Sound(W[0].book, now) /\ W[0].fills \in Seq(Fill)
          /\ Len(W[0].book.orders) + Len(W[0].fills) = 0
          /\ Traded(W[0].book) = Traded(b) + Len(W[0].fills)
      BY <1>3, <2>1, <2>2, <2>3
    <3>2. OrderIds(W[0].book.orders, Len(W[0].book.orders)) \cup FilledIds(W[0].fills)
            = OrderIds(b.orders, 0)
      BY <2>1, <2>2, <2>3, <2>5
    <3>3. \A i \in 1 .. Len(W[0].fills) : Within(W[0].fills[i])
      BY <2>2, <2>3, <2>4
    <3>4. \A P : b.orders \in Seq(P) => W[0].book.orders \in Seq(P)
      BY <2>1, <2>2, <2>6
    <3> QED
      BY <3>1, <3>2, <3>3, <3>4 DEF AfterTurns
  <2> QED
    BY <1>1, <2>7
<1>5. ASSUME NEW k \in 0 .. n - 1, k \in S
      PROVE  k + 1 \in S
  <2>1. k \in Nat /\ k + 1 \in 1 .. n /\ (k + 1) - 1 = k
    BY <1>1
  <2>2. W[k + 1] = TakeTurn(W[k], b.orders[k + 1], ticker, trades, now)
    BY <1>2, <2>1
  <2>3. b.orders[k + 1] \in Order
    BY <1>1, <2>1
  <2>4. OrderIds(b.orders, k + 1) = OrderIds(b.orders, k) \cup {b.orders[k + 1].id}
    BY <1>1, <2>1, NextId
  <2>5. AfterTurns(W[k], b, k, now)
    BY <1>5
  <2>6. \A P : b.orders \in Seq(P) => b.orders[k + 1] \in P
    BY <2>1, ElementOfSeq
  <2>7. Good(k + 1)
    BY <1>3, <2>1, <2>2, <2>3, <2>4, <2>5, <2>6, TurnKeeps
  <2> QED
    BY <1>1, <2>1, <2>7
<1>6. Good(n)
  <2> HIDE DEF Good
  <2>1. 0 .. n \subseteq S
    <3> HIDE DEF S
    <3> QED
      BY <1>1, <1>4, <1>5, SetInduction
  <2> QED
    BY <1>1, <2>1
<1> DEFINE v == [book  |-> OnTick(b, ticker, trades, now),
                 fills |-> FillEvents(b, ticker, trades, now)]
<1>7. v.book = W[n].book /\ v.fills = W[n].fills
  BY DEF OnTick, FillEvents, W
<1> HIDE DEF v
<1>8. AfterTurns(v, b, n, now)
  BY <1>6, <1>7 DEF AfterTurns
<1> QED
  BY <1>8 DEF v

(* A new or reset book is sound.                                           *)
LEMMA EmptyIsSound == \A t \in Nat : Sound(EmptyBook, t)
<1> SUFFICES ASSUME NEW t \in Nat
             PROVE  Sound(EmptyBook, t)
  OBVIOUS
<1> DEFINE b == EmptyBook
<1>1. b.orders = <<>> /\ b.positions = <<>> /\ b.cash = InitialCash
  BY DEF EmptyBook
<1>2. b \in Book
  <2>1. <<>> \in Seq(Order) /\ <<>> \in Seq(Position)
    OBVIOUS
  <2> QED
    BY <2>1, BookAssumption DEF EmptyBook, Book
<1>3. DOMAIN <<>> = {} /\ Len(<<>>) = 0 /\ <<>> \in Seq(Position)
  OBVIOUS
<1> HIDE DEF b
<1>4. OneSided(b) /\ OldestClosedFirst(b) /\ InOrder(b, t)
  BY <1>1, <1>3 DEF OneSided, OldestClosedFirst, InOrder
<1>5. Flows(<<>>)[0] = 0
  BY <1>3, FlowsDef
<1>6. CashReconciles(b)
  BY <1>1, <1>3, <1>5, BookAssumption DEF CashReconciles
<1> QED
  BY <1>2, <1>4, <1>6 DEF Sound, b
=============================================================================
