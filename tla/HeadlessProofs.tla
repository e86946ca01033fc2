--------------------------- MODULE HeadlessProofs ---------------------------
(***************************************************************************)
(* Proofs about the headless replay (src/src/headless.rs, src/narrative/), *)
(* for any timeframes, bars, ranges, speeds, panes, orders and keys, and   *)
(* any number of commands, loads and restarts.                             *)
(*                                                                         *)
(* 1. What is stored of narratives, with their outcomes (NarrativeInv).    *)
(***************************************************************************)
EXTENDS Headless, StepClockProofs, OrderBookProofs

-----------------------------------------------------------------------------
(* The book of a process that goes back in time need not be Sound, but it  *)
(* is a book.                                                              *)

(* A fill leaves a book.                                                   *)
LEMMA SettleTyped ==
  ASSUME NEW b \in Book, NEW o \in Order, NEW price \in Nat, NEW now \in Nat
  PROVE  Settle(b, o, price, now) \in Book
<1> DEFINE against == OpenPositions(b, o.ticker, OtherSide(o.side))
           ps == b.positions
<1>1. /\ b = [orders |-> b.orders, positions |-> ps, cash |-> b.cash]
      /\ b.orders \in Seq(Order) /\ ps \in Seq(Position) /\ b.cash \in Int
  BY DEF Book
<1>2. CASE against = {}
  <2> DEFINE new == [id |-> o.id, ticker |-> o.ticker, side |-> o.side, qty |-> o.qty,
                     entry |-> price, since |-> now, exit |-> StillOpen]
             cash == IF o.side = "Long" THEN b.cash - price * o.qty ELSE b.cash + price * o.qty
  <2>1. new \in Position
    BY DEF Order, Position
  <2>2. price * o.qty \in Int
    BY Products DEF Order
  <2>3. cash \in Int
    BY <1>1, <2>2
  <2>4. Append(ps, new) \in Seq(Position)
    BY <1>1, <2>1
  <2>5. Settle(b, o, price, now) = [b EXCEPT !.cash = cash, !.positions = Append(ps, new)]
    BY <1>2 DEF Settle, RecordOpen
  <2> HIDE DEF new, cash, ps
  <2>6. Settle(b, o, price, now) = [orders |-> b.orders, positions |-> Append(ps, new), cash |-> cash]
    BY <1>1, <2>5
  <2> QED
    BY <1>1, <2>3, <2>4, <2>6 DEF Book
<1>3. CASE against # {}
  <2> DEFINE i == Oldest(b, against)
             p == ps[i]
             cash == IF p.side = "Long" THEN b.cash + price * p.qty ELSE b.cash - price * p.qty
  <2>1. against \in SUBSET DOMAIN ps
    BY DEF OpenPositions
  <2>2. i \in DOMAIN ps
    BY <1>3, <2>1, OldestIsOne
  <2>3. p \in Position
    BY <1>1, <2>2
  <2>4. price * p.qty \in Int
    BY <2>3, Products DEF Position
  <2>5. cash \in Int
    BY <1>1, <2>4
  <2>6. [p EXCEPT !.exit = price] \in Position
    BY <2>3 DEF Position
  <2>7. [ps EXCEPT ![i] = [p EXCEPT !.exit = price]] \in Seq(Position)
    BY <1>1, <2>2, <2>6
  <2>8. Settle(b, o, price, now)
          = [b EXCEPT !.cash = cash, !.positions = [ps EXCEPT ![i] = [p EXCEPT !.exit = price]]]
    BY <1>3 DEF Settle, RecordClose
  <2> HIDE DEF i, p, cash, ps
  <2>9. Settle(b, o, price, now)
          = [orders |-> b.orders, positions |-> [ps EXCEPT ![i] = [p EXCEPT !.exit = price]],
             cash |-> cash]
    BY <1>1, <2>8
  <2> QED
    BY <1>1, <2>5, <2>7, <2>9 DEF Book
<1> QED
  BY <1>2, <1>3

(* The fill events of a tick: fills at the time of the tick, at the price  *)
(* of a trade.                                                             *)
FilledNow(w, trades, now) ==
  /\ w.book \in Book /\ w.fills \in Seq(Fill)
  /\ \A i \in 1 .. Len(w.fills) :
       w.fills[i].time = now /\ \E j \in DOMAIN trades : w.fills[i].price = trades[j]

(* One order's turn.                                                       *)
LEMMA TurnTyped ==
  ASSUME NEW trades \in Seq(Nat), NEW now \in Nat, NEW w, FilledNow(w, trades, now),
         NEW o \in Order, NEW ticker
  PROVE  FilledNow(TakeTurn(w, o, ticker, trades, now), trades, now)
<1> DEFINE v == TakeTurn(w, o, ticker, trades, now)
           price == FillPrice(o, trades)
           f == [order |-> o, price |-> price, time |-> now]
<1>1. w.book \in Book /\ w.fills \in Seq(Fill)
  BY DEF FilledNow
<1>2. CASE Fillable(o, ticker, trades)
  <2>1. price \in Nat /\ \E j \in DOMAIN trades : price = trades[j]
    BY <1>2, FillKeepsLimit
  <2>2. v.book = Settle(w.book, o, price, now) /\ v.fills = Append(w.fills, f)
    BY <1>2 DEF TakeTurn, LeftPending
  <2>3. f \in Fill /\ f.time = now /\ f.price = price
    BY <2>1 DEF Fill
  <2> HIDE DEF v, price, f
  <2>4. v.book \in Book
    BY <1>1, <2>1, <2>2, SettleTyped
  <2>5. /\ v.fills \in Seq(Fill) /\ Len(v.fills) = Len(w.fills) + 1
        /\ v.fills[Len(w.fills) + 1] = f
        /\ \A i \in 1 .. Len(w.fills) : v.fills[i] = w.fills[i]
    BY <1>1, <2>2, <2>3, AppendProperties
  <2>6. \A i \in 1 .. Len(w.fills) + 1 : i \in 1 .. Len(w.fills) \/ i = Len(w.fills) + 1
    BY <1>1
  <2>7. \A i \in 1 .. Len(v.fills) :
          v.fills[i].time = now /\ \E j \in DOMAIN trades : v.fills[i].price = trades[j]
    BY <2>1, <2>3, <2>5, <2>6 DEF FilledNow
  <2> QED
    BY <2>4, <2>5, <2>7 DEF FilledNow, v
<1>3. CASE ~Fillable(o, ticker, trades)
  <2>1. v.book = PlaceOrder(w.book, o) /\ v.fills = w.fills
    BY <1>3 DEF TakeTurn, LeftPending
  <2> HIDE DEF v
  <2>2. w.book.orders \in Seq(Order)
    BY <1>1 DEF Book
  <2>3. Append(w.book.orders, o) \in Seq(Order)
    BY <2>2
  <2>4. v.book \in Book
    BY <1>1, <2>1, <2>3 DEF PlaceOrder, Book
  <2> QED
    BY <2>1, <2>4 DEF FilledNow, v
<1> QED
  BY <1>2, <1>3

(* All the turns.                                                          *)
LEMMA OnTickTyped ==
  ASSUME NEW b \in Book, NEW ticker, NEW trades \in Seq(Nat), NEW now \in Nat
  PROVE  FilledNow([book  |-> OnTick(b, ticker, trades, now),
                    fills |-> FillEvents(b, ticker, trades, now)], trades, now)
<1> DEFINE W == Turns(b, ticker, trades, now)
           n == Len(b.orders)
<1>1. b.orders \in Seq(Order) /\ n \in Nat
  BY DEF Book
<1>2. AreTurns(W, b, ticker, trades, now)
  BY <1>1, TurnsDef
<1> DEFINE v == [book  |-> OnTick(b, ticker, trades, now),
                 fills |-> FillEvents(b, ticker, trades, now)]
<1>3. v.book = W[n].book /\ v.fills = W[n].fills
  BY DEF OnTick, FillEvents
<1> HIDE DEF W, v
<1> DEFINE S == {k \in 0 .. n : FilledNow(W[k], trades, now)}
<1>4. 0 \in S
  <2>1. W[0].book = [b EXCEPT !.orders = <<>>] /\ W[0].fills = <<>>
    BY <1>2 DEF AreTurns
  <2>2. /\ <<>> \in Seq(Order) /\ <<>> \in Seq(Fill)
        /\ \A i \in 1 .. Len(<<>>) : FALSE
    OBVIOUS
  <2>3. W[0].book \in Book
    BY <2>1, <2>2 DEF Book
  <2>4. FilledNow(W[0], trades, now)
    BY <2>1, <2>2, <2>3 DEF FilledNow
  <2>5. 0 \in 0 .. n
    BY <1>1
  <2> QED
    BY <2>4, <2>5
<1>5. ASSUME NEW k \in 0 .. n - 1, k \in S
      PROVE  k + 1 \in S
  <2>1. k + 1 \in 1 .. n /\ k + 1 \in 0 .. n /\ (k + 1) - 1 = k
    BY <1>1
  <2>2. W[k + 1] = TakeTurn(W[k], b.orders[k + 1], ticker, trades, now)
    BY <1>2, <2>1 DEF AreTurns
  <2>3. b.orders[k + 1] \in Order
    BY <1>1, <2>1
  <2>4. FilledNow(W[k + 1], trades, now)
    BY <1>5, <2>2, <2>3, TurnTyped
  <2> QED
    BY <2>1, <2>4
<1>6. n \in S
  <2> HIDE DEF S
  <2>1. 0 .. n \subseteq S
    BY <1>1, <1>4, <1>5, SetInduction
  <2> QED
    BY <1>1, <2>1
<1> QED
  BY <1>3, <1>6 DEF FilledNow, v

-----------------------------------------------------------------------------
(* 1. Narratives.                                                          *)

(* An id names the file it is written to before the row is stored.         *)
FilesAreNumbered == \E n \in Nat : files = 1 .. n

(* The narrative between its two writes has a file and no row yet.         *)
CreatingIsNew ==
  \A n \in creating : n.id \in files /\ n.outcome = NoOutcome /\ \A r \in rows : r.id # n.id

(* What a fill found stored still is, and what a task is to write is what  *)
(* a fill brought.                                                         *)
RowIds == {r.id : r \in rows}
FillsAreKnown ==
  /\ \A f \in fills : f.known \subseteq RowIds
  /\ \A o \in outcomes : \E f \in fills : f.order = o.order /\ f.price = o.price /\ f.time = o.time

(* The inductive invariant of the narratives.                              *)
NarrativeInv ==
  TypeOKNarratives /\ FilesAreNumbered /\ CreatingIsNew /\ FillsAreKnown /\ NarrativesSound

(* Nothing is stored at first.                                             *)
LEMMA NarrativesStart == NarrativesInit => NarrativeInv
<1> SUFFICES ASSUME NarrativesInit
             PROVE  NarrativeInv
  OBVIOUS
<1>1. Cardinality({}) = 0
  BY FS_EmptySet
<1>2. 1 .. 0 = {} /\ 0 \in Nat
  OBVIOUS
<1>3. TypeOKNarratives
  BY <1>1 DEF NarrativesInit, TypeOKNarratives
<1>4. FilesAreNumbered
  BY <1>2 DEF NarrativesInit, FilesAreNumbered
<1> QED
  BY <1>3, <1>4 DEF NarrativesInit, NarrativeInv, CreatingIsNew, FillsAreKnown, NarrativesSound,
     OneRowPerKey, EveryRowHasItsFile, OutcomesAreTrue, NoOutcomeForgotten

(* The next id is that of no file, so of no row either.                    *)
LEMMA FreshIdIsNew ==
  ASSUME FilesAreNumbered
  PROVE  \E n \in Nat : files = 1 .. n /\ FreshId = n + 1 /\ FreshId \notin files
                        /\ files \cup {FreshId} = 1 .. n + 1
<1>1. PICK n \in Nat : files = 1 .. n
  BY DEF FilesAreNumbered
<1>2. Cardinality(1 .. n) = n
  <2>1. Cardinality(1 .. n) = IF 1 > n THEN 0 ELSE n - 1 + 1
    BY FS_Interval
  <2> QED
    BY <2>1
<1>3. FreshId = n + 1
  BY <1>1, <1>2 DEF FreshId
<1>4. (1 .. n) \cup {n + 1} = 1 .. n + 1
  OBVIOUS
<1> QED
  BY <1>1, <1>3, <1>4

(* The file is written.                                                    *)
LEMMA SnapshotWritten ==
  ASSUME NarrativeInv, NEW key \in Keys \cup {NoKey}, NEW link \in Nat, WriteSnapshot(key, link)
  PROVE  NarrativeInv'
<1> DEFINE new == [id |-> FreshId, key |-> key, link |-> link,
                   outcome |-> NoOutcome, public |-> FALSE]
<1>1. /\ FreshId \in Ids /\ files' = files \cup {FreshId} /\ creating' = {new}
      /\ UNCHANGED <<rows, outcomes, fills, lost>>
  BY DEF WriteSnapshot
<1>2. PICK n \in Nat : /\ files = 1 .. n /\ FreshId = n + 1 /\ FreshId \notin files
                       /\ files \cup {FreshId} = 1 .. n + 1
  BY FreshIdIsNew DEF NarrativeInv
<1>3. new \in Narrative /\ new.id = FreshId /\ new.outcome = NoOutcome
  BY <1>1 DEF Narrative
<1> HIDE DEF new
<1>4. TypeOKNarratives'
  <2>1. Cardinality({new}) = 1
    BY FS_Singleton
  <2> QED
    BY <1>1, <1>3, <2>1 DEF NarrativeInv, TypeOKNarratives
<1>5. FilesAreNumbered'
  <2>1. n + 1 \in Nat
    OBVIOUS
  <2> QED
    BY <1>1, <1>2, <2>1 DEF FilesAreNumbered
<1>6. CreatingIsNew'
  BY <1>1, <1>2, <1>3 DEF CreatingIsNew, NarrativeInv, NarrativesSound, EveryRowHasItsFile
<1> QED
  BY <1>1, <1>4, <1>5, <1>6 DEF NarrativeInv, FillsAreKnown, RowIds, NarrativesSound, OneRowPerKey,
     EveryRowHasItsFile, OutcomesAreTrue, NoOutcomeForgotten

(* The row is stored, or one with its key is there already.                *)
LEMMA RowStored ==
  ASSUME NarrativeInv, InsertRow
  PROVE  NarrativeInv'
<1>1. PICK n \in creating : rows' = Insert(n)
  BY DEF InsertRow
<1>2. creating' = {} /\ UNCHANGED <<files, outcomes, fills, lost>>
  BY DEF InsertRow
<1>3. n \in Narrative /\ n.id \in files /\ n.outcome = NoOutcome /\ \A r \in rows : r.id # n.id
  BY DEF NarrativeInv, TypeOKNarratives, CreatingIsNew
<1>4. CASE rows' = rows
  <2>1. TypeOKNarratives'
    BY <1>2, <1>4, FS_EmptySet DEF NarrativeInv, TypeOKNarratives
  <2> QED
    BY <1>2, <1>4, <2>1 DEF NarrativeInv, FilesAreNumbered, CreatingIsNew, FillsAreKnown, RowIds,
       NarrativesSound, OneRowPerKey, EveryRowHasItsFile, OutcomesAreTrue, NoOutcomeForgotten
<1>5. CASE rows' # rows
  <2>1. rows' = rows \cup {n} /\ SameKey(n) = {}
    BY <1>1, <1>5 DEF Insert
  <2>2. TypeOKNarratives'
    BY <1>2, <1>3, <2>1, FS_EmptySet DEF NarrativeInv, TypeOKNarratives
  <2>3. FilesAreNumbered' /\ CreatingIsNew'
    BY <1>2 DEF NarrativeInv, FilesAreNumbered, CreatingIsNew
  <2>4. FillsAreKnown'
    BY <1>2, <2>1 DEF NarrativeInv, FillsAreKnown, RowIds
  <2>5. OneRowPerKey'
    <3>1. \A r \in rows : r.key # NoKey => r.key # n.key
      BY <2>1 DEF SameKey
    <3> QED
      BY <1>3, <2>1, <3>1 DEF NarrativeInv, NarrativesSound, OneRowPerKey
  <2>6. EveryRowHasItsFile' /\ OutcomesAreTrue'
    BY <1>2, <1>3, <2>1 DEF NarrativeInv, NarrativesSound, EveryRowHasItsFile, OutcomesAreTrue
  <2>7. NoOutcomeForgotten'
    <3>1. \A f \in fills : n.id \notin f.known
      BY <1>3 DEF NarrativeInv, FillsAreKnown, RowIds
    <3> QED
      BY <1>2, <2>1, <3>1 DEF NarrativeInv, NarrativesSound, NoOutcomeForgotten
  <2> QED
    BY <2>2, <2>3, <2>4, <2>5, <2>6, <2>7 DEF NarrativeInv, NarrativesSound
<1> QED
  BY <1>4, <1>5

(* The insert fails: the file stays.                                       *)
LEMMA RowRefused ==
  ASSUME NarrativeInv, InsertFails
  PROVE  NarrativeInv'
<1>1. creating' = {} /\ UNCHANGED <<rows, files, outcomes, fills, lost>>
  BY DEF InsertFails
<1>2. TypeOKNarratives'
  BY <1>1, FS_EmptySet DEF NarrativeInv, TypeOKNarratives
<1> QED
  BY <1>1, <1>2 DEF NarrativeInv, FilesAreNumbered, CreatingIsNew, FillsAreKnown, RowIds,
     NarrativesSound, OneRowPerKey, EveryRowHasItsFile, OutcomesAreTrue, NoOutcomeForgotten

(* A fill starts tasks, each with the outcome that the fill brought.       *)
LEMMA FillsNoted ==
  ASSUME NarrativeInv, NEW events \in Seq(Fill), StartOutcomeTasks(events),
         UNCHANGED <<rows, files, creating, lost>>
  PROVE  NarrativeInv'
<1>1. fills' = fills \cup Noted(events) /\ outcomes' = outcomes \cup Outcomes(events)
  BY DEF StartOutcomeTasks
<1>2. Outcomes(events) \subseteq Outcome
  <2>1. \A i \in DOMAIN events : events[i] \in Fill
    OBVIOUS
  <2> QED
    BY <2>1 DEF Outcomes, Outcome, Fill, Order
<1>3. \A f \in Noted(events) : \E o \in Outcomes(events) :
        f = [order |-> o.order, price |-> o.price, time |-> o.time, known |-> RowIds]
  BY DEF Noted, RowIds
<1>4. \A o \in Outcomes(events) : \E f \in Noted(events) :
        f.order = o.order /\ f.price = o.price /\ f.time = o.time
  <2> TAKE o \in Outcomes(events)
  <2> DEFINE f == [order |-> o.order, price |-> o.price, time |-> o.time, known |-> RowIds]
  <2>1. f \in Noted(events)
    BY DEF Noted, RowIds
  <2>2. f.order = o.order /\ f.price = o.price /\ f.time = o.time
    OBVIOUS
  <2> HIDE DEF f
  <2> QED
    BY <2>1, <2>2
<1>5. RowIds \subseteq Ids
  BY DEF RowIds, NarrativeInv, TypeOKNarratives, Narrative
<1>6. TypeOKNarratives'
  <2>1. Noted(events) \subseteq FillNote
    BY <1>2, <1>3, <1>5 DEF FillNote, Outcome
  <2> QED
    BY <1>1, <1>2, <2>1 DEF NarrativeInv, TypeOKNarratives
<1>7. FillsAreKnown'
  <2>1. \A f \in Noted(events) : f.known \subseteq RowIds
    BY <1>3
  <2>2. RowIds' = RowIds
    BY DEF RowIds
  <2> QED
    BY <1>1, <1>4, <2>1, <2>2 DEF NarrativeInv, FillsAreKnown
<1>8. OutcomesAreTrue'
  BY <1>1 DEF NarrativeInv, NarrativesSound, OutcomesAreTrue
<1>9. NoOutcomeForgotten'
  <2>1. \A f \in Noted(events) : \E o \in outcomes' : o.order = f.order
    BY <1>1, <1>3
  <2> QED
    BY <1>1, <2>1 DEF NarrativeInv, NarrativesSound, NoOutcomeForgotten
<1> QED
  BY <1>6, <1>7, <1>8, <1>9 DEF NarrativeInv, FilesAreNumbered, CreatingIsNew, NarrativesSound,
     OneRowPerKey, EveryRowHasItsFile

(* Rows that are rewritten without their ids, keys and orders stay one per *)
(* id and key.                                                             *)
LEMMA RowsRewritten ==
  ASSUME NarrativeInv, NEW g, rows' = {g[r] : r \in rows}, UNCHANGED files,
         \A r \in rows : g[r].id = r.id /\ g[r].key = r.key
  PROVE  OneRowPerKey' /\ EveryRowHasItsFile' /\ RowIds' = RowIds
<1>1. RowIds' = RowIds
  BY DEF RowIds
<1>2. OneRowPerKey'
  <2> SUFFICES ASSUME NEW r \in rows, NEW s \in rows,
                      g[r].id = g[s].id \/ (g[r].key = g[s].key /\ g[r].key # NoKey)
               PROVE  r = s
    BY DEF OneRowPerKey
  <2> QED
    BY DEF NarrativeInv, NarrativesSound, OneRowPerKey
<1> QED
  BY <1>1, <1>2 DEF NarrativeInv, NarrativesSound, EveryRowHasItsFile

(* A task writes the outcome into every row that names the order.          *)
LEMMA OutcomeWritten ==
  ASSUME NarrativeInv, NEW o, UpdateOutcome(o)
  PROVE  NarrativeInv'
<1> DEFINE g == [r \in rows |-> IF r.link = o.order THEN [r EXCEPT !.outcome = o] ELSE r]
<1>1. /\ o \in outcomes /\ outcomes' = outcomes \ {o} /\ rows' = {g[r] : r \in rows}
      /\ UNCHANGED <<files, creating, fills, lost>>
  BY DEF UpdateOutcome, WithOutcome
<1>2. o \in Outcome /\ o # NoOutcome
  BY <1>1, NarrativeAssumption DEF NarrativeInv, TypeOKNarratives
<1>3. \A r \in rows :
        /\ g[r] \in Narrative /\ g[r].id = r.id /\ g[r].key = r.key /\ g[r].link = r.link
        /\ g[r].outcome = IF r.link = o.order THEN o ELSE r.outcome
  <2> TAKE r \in rows
  <2>1. r \in Narrative
    BY DEF NarrativeInv, TypeOKNarratives
  <2>2. g[r] = IF r.link = o.order THEN [r EXCEPT !.outcome = o] ELSE r
    OBVIOUS
  <2> HIDE DEF g
  <2> QED
    BY <1>2, <2>1, <2>2 DEF Narrative
<1> HIDE DEF g
<1>4. OneRowPerKey' /\ EveryRowHasItsFile' /\ RowIds' = RowIds
  BY <1>1, <1>3, RowsRewritten
<1>5. TypeOKNarratives'
  BY <1>1, <1>3 DEF NarrativeInv, TypeOKNarratives
<1>6. CreatingIsNew'
  BY <1>1, <1>3 DEF NarrativeInv, CreatingIsNew
<1>7. FillsAreKnown'
  BY <1>1, <1>4 DEF NarrativeInv, FillsAreKnown
<1>8. OutcomesAreTrue'
  <2> SUFFICES ASSUME NEW r \in rows, g[r].outcome # NoOutcome
               PROVE  /\ g[r].outcome.order = g[r].link
                      /\ \E f \in fills : f.order = g[r].link /\ f.price = g[r].outcome.price
                                                              /\ f.time = g[r].outcome.time
    BY <1>1 DEF OutcomesAreTrue
  <2>1. CASE r.link = o.order
    BY <1>1, <1>3, <2>1 DEF NarrativeInv, FillsAreKnown
  <2>2. CASE r.link # o.order
    BY <1>3, <2>2 DEF NarrativeInv, NarrativesSound, OutcomesAreTrue
  <2> QED
    BY <2>1, <2>2
<1>9. NoOutcomeForgotten'
  <2> SUFFICES ASSUME NEW f \in fills, NEW r \in rows, g[r].id \in f.known, g[r].link = f.order
               PROVE  g[r].outcome # NoOutcome \/ f.order \in lost
                      \/ \E p \in outcomes \ {o} : p.order = f.order
    BY <1>1 DEF NoOutcomeForgotten
  <2>1. r.outcome # NoOutcome \/ f.order \in lost \/ \E p \in outcomes : p.order = f.order
    BY <1>3 DEF NarrativeInv, NarrativesSound, NoOutcomeForgotten
  <2> QED
    BY <1>2, <1>3, <2>1
<1> QED
  BY <1>1, <1>4, <1>5, <1>6, <1>7, <1>8, <1>9 DEF NarrativeInv, NarrativesSound, FilesAreNumbered

(* A task that fails leaves its order among the lost.                      *)
LEMMA OutcomeLost ==
  ASSUME NarrativeInv, NEW o, UpdateFails(o)
  PROVE  NarrativeInv'
<1>1. /\ o \in outcomes /\ outcomes' = outcomes \ {o} /\ lost' = lost \cup {o.order}
      /\ UNCHANGED <<rows, files, creating, fills>>
  BY DEF UpdateFails
<1>2. o.order \in Nat
  BY <1>1 DEF NarrativeInv, TypeOKNarratives, Outcome
<1>3. TypeOKNarratives'
  BY <1>1, <1>2 DEF NarrativeInv, TypeOKNarratives
<1>4. NoOutcomeForgotten'
  BY <1>1 DEF NarrativeInv, NarrativesSound, NoOutcomeForgotten
<1> QED
  BY <1>1, <1>3, <1>4 DEF NarrativeInv, FilesAreNumbered, CreatingIsNew, FillsAreKnown, RowIds,
     NarrativesSound, OneRowPerKey, EveryRowHasItsFile, OutcomesAreTrue

(* A row is published or withdrawn.                                        *)
LEMMA RowPublished ==
  ASSUME NarrativeInv, NEW id, SetPublic(id)
  PROVE  NarrativeInv'
<1> DEFINE g == [r \in rows |-> IF r.id = id THEN [r EXCEPT !.public = ~@] ELSE r]
<1>1. rows' = {g[r] : r \in rows} /\ UNCHANGED <<files, creating, outcomes, fills, lost>>
  BY DEF SetPublic
<1>2. \A r \in rows :
        /\ g[r] \in Narrative /\ g[r].id = r.id /\ g[r].key = r.key /\ g[r].link = r.link
        /\ g[r].outcome = r.outcome
  <2> TAKE r \in rows
  <2>1. r \in Narrative
    BY DEF NarrativeInv, TypeOKNarratives
  <2>2. g[r] = IF r.id = id THEN [r EXCEPT !.public = ~r.public] ELSE r
    OBVIOUS
  <2>3. (~r.public) \in BOOLEAN
    OBVIOUS
  <2> HIDE DEF g
  <2> QED
    BY <2>1, <2>2, <2>3 DEF Narrative
<1> HIDE DEF g
<1>3. OneRowPerKey' /\ EveryRowHasItsFile' /\ RowIds' = RowIds
  BY <1>1, <1>2, RowsRewritten
<1>4. TypeOKNarratives' /\ CreatingIsNew'
  BY <1>1, <1>2 DEF NarrativeInv, TypeOKNarratives, CreatingIsNew
<1>5. FillsAreKnown'
  BY <1>1, <1>3 DEF NarrativeInv, FillsAreKnown
<1>6. OutcomesAreTrue' /\ NoOutcomeForgotten'
  BY <1>1, <1>2 DEF NarrativeInv, NarrativesSound, OutcomesAreTrue, NoOutcomeForgotten
<1> QED
  BY <1>1, <1>3, <1>4, <1>5, <1>6 DEF NarrativeInv, NarrativesSound, FilesAreNumbered

(* A restart loses the tasks, and remembers nothing of them.               *)
LEMMA NarrativesSurvive ==
  ASSUME NarrativeInv, NarrativesCrash
  PROVE  NarrativeInv'
<1>1. /\ creating' = {} /\ outcomes' = {} /\ lost' = lost \cup {o.order : o \in outcomes}
      /\ UNCHANGED <<rows, files, fills>>
  BY DEF NarrativesCrash
<1>2. TypeOKNarratives'
  <2>1. \A o \in outcomes : o.order \in Nat
    BY DEF NarrativeInv, TypeOKNarratives, Outcome
  <2>2. lost' \subseteq Nat
    BY <1>1, <2>1 DEF NarrativeInv, TypeOKNarratives
  <2>3. creating' \subseteq Narrative /\ Cardinality(creating') <= 1
    BY <1>1, FS_EmptySet
  <2> QED
    BY <1>1, <2>2, <2>3 DEF NarrativeInv, TypeOKNarratives
<1>3. NoOutcomeForgotten'
  BY <1>1 DEF NarrativeInv, NarrativesSound, NoOutcomeForgotten
<1> QED
  BY <1>1, <1>2, <1>3 DEF NarrativeInv, FilesAreNumbered, CreatingIsNew, FillsAreKnown, RowIds,
     NarrativesSound, OneRowPerKey, EveryRowHasItsFile, OutcomesAreTrue

(* What no step of a narrative touches is kept.                            *)
LEMMA NarrativesKept ==
  ASSUME NarrativeInv, UNCHANGED narrativeVars
  PROVE  NarrativeInv'
BY DEF narrativeVars, NarrativeInv, TypeOKNarratives, FilesAreNumbered, CreatingIsNew,
   FillsAreKnown, RowIds, NarrativesSound, OneRowPerKey, EveryRowHasItsFile, OutcomesAreTrue,
   NoOutcomeForgotten

-----------------------------------------------------------------------------
(* 2. Panes: at least one, and no id twice.                                *)

(* There is a pane, and no two have one id.                                *)
PanesOK(ps) ==
  /\ ps \in Seq(Pane) /\ ps # <<>>
  /\ \A i, j \in DOMAIN ps : ps[i].id = ps[j].id => i = j

(* An id that is there is where IndexOf says.                              *)
LEMMA PaneFound ==
  ASSUME NEW id, HasPane(id)
  PROVE  IndexOf(id) \in DOMAIN panes /\ panes[IndexOf(id)].id = id
BY DEF HasPane, IndexOf

(* As long as there is room for a pane there is an id for it.              *)
LEMMA FreshPaneIdIsNew ==
  ASSUME PanesOK(panes), Len(panes) < MaxPanes
  PROVE  FreshPaneId \in 1 .. MaxPanes /\ ~HasPane(FreshPaneId)
<1> DEFINE S == {id \in 1 .. MaxPanes : ~HasPane(id)}
           n == Len(panes)
<1>1. n \in Nat /\ DOMAIN panes = 1 .. n /\ MaxPanes \in Nat
  BY HeadlessAssumption DEF PanesOK
<1>2. S # {}
  <2> SUFFICES ASSUME \A id \in 1 .. MaxPanes : HasPane(id)
               PROVE  FALSE
    OBVIOUS
  <2> DEFINE f == [id \in 1 .. MaxPanes |-> IndexOf(id)]
  <2>1. \A id \in 1 .. MaxPanes : f[id] \in 1 .. n /\ panes[f[id]].id = id
    BY <1>1, PaneFound
  <2>2. f \in [1 .. MaxPanes -> 1 .. n]
    BY <2>1
  <2> HIDE DEF f
  <2>3. /\ IsFiniteSet(1 .. MaxPanes) /\ Cardinality(1 .. MaxPanes) = MaxPanes
        /\ IsFiniteSet(1 .. n) /\ Cardinality(1 .. n) = n
    <3> HIDE DEF n
    <3>1. /\ IsFiniteSet(1 .. MaxPanes)
          /\ Cardinality(1 .. MaxPanes) = IF 1 > MaxPanes THEN 0 ELSE MaxPanes - 1 + 1
      BY <1>1, FS_Interval
    <3>2. IsFiniteSet(1 .. n) /\ Cardinality(1 .. n) = IF 1 > n THEN 0 ELSE n - 1 + 1
      <4>1. n \in Int /\ 1 \in Int
        BY <1>1
      <4> QED
        BY <4>1, FS_Interval
    <3> QED
      BY <1>1, <3>1, <3>2
  <2>4. \E x, y \in 1 .. MaxPanes : x # y /\ f[x] = f[y]
    BY <2>2, <2>3, FS_PigeonHole
  <2> QED
    BY <2>1, <2>4
<1>3. S \subseteq Nat
  OBVIOUS
<1>4. Min(S) \in S
  BY <1>2, <1>3, MinOfNat
<1> QED
  BY <1>4 DEF FreshPaneId

(* A pane is split.                                                        *)
LEMMA PaneSplit ==
  ASSUME PanesOK(panes), NEW id, SplitPane(id)
  PROVE  PanesOK(panes')
<1> DEFINE new == [id |-> FreshPaneId, timeframe |-> panes[IndexOf(id)].timeframe]
<1>1. HasPane(id) /\ Len(panes) < MaxPanes /\ panes' = Append(panes, new)
  BY DEF SplitPane
<1>2. FreshPaneId \in Nat \ {0} /\ ~HasPane(FreshPaneId)
  BY <1>1, FreshPaneIdIsNew
<1>3. panes \in Seq(Pane) /\ panes[IndexOf(id)] \in Pane
  BY <1>1, PaneFound DEF PanesOK
<1>4. new \in Pane /\ new.id = FreshPaneId
  BY <1>2, <1>3 DEF Pane
<1> HIDE DEF new
<1> DEFINE n == Len(panes)
<1>5. /\ panes' \in Seq(Pane) /\ panes' # <<>> /\ Len(panes') = n + 1
      /\ \A i \in 1 .. n : panes'[i] = panes[i]
      /\ panes'[n + 1] = new
  BY <1>1, <1>3, <1>4, AppendProperties
<1>6. \A i \in 1 .. n : panes[i].id # new.id
  BY <1>2, <1>3, <1>4 DEF HasPane
<1>7. \A i, j \in 1 .. n : panes[i].id = panes[j].id => i = j
  BY <1>3 DEF PanesOK
<1>8. n \in Nat /\ DOMAIN panes' = 1 .. n + 1
  BY <1>3, <1>5
<1> HIDE DEF n
<1>9. \A i \in 1 .. n + 1 : i \in 1 .. n \/ i = n + 1
  BY <1>8
<1>10. \A i, j \in DOMAIN panes' : panes'[i].id = panes'[j].id => i = j
  BY <1>5, <1>6, <1>7, <1>8, <1>9
<1> QED
  BY <1>5, <1>10 DEF PanesOK

(* A pane is closed, but for the last.                                     *)
LEMMA PaneClosed ==
  ASSUME PanesOK(panes), NEW id, ClosePane(id)
  PROVE  PanesOK(panes')
<1> DEFINE k == IndexOf(id)
           n == Len(panes)
           before == SubSeq(panes, 1, k - 1)
           after == SubSeq(panes, k + 1, n)
<1>1. panes' = before \o after /\ n > 1 /\ HasPane(id)
  BY DEF ClosePane, RemoveAt
<1>2. panes \in Seq(Pane) /\ n \in Nat /\ DOMAIN panes = 1 .. n /\ k \in 1 .. n
  BY <1>1, PaneFound DEF PanesOK
<1> HIDE DEF k
<1>3. \A i \in 1 .. n : panes[i] \in Pane
  BY <1>2
<1>4. /\ before \in Seq(Pane) /\ Len(before) = k - 1
      /\ \A i \in 1 .. k - 1 : before[i] = panes[i]
  <2>1. /\ k - 1 \in Int /\ \A i \in 1 .. k - 1 : panes[i] \in Pane
    BY <1>2, <1>3
  <2>2. /\ before \in Seq(Pane) /\ Len(before) = IF 1 <= k - 1 THEN k - 1 - 1 + 1 ELSE 0
        /\ \A i \in 1 .. k - 1 - 1 + 1 : before[i] = panes[1 + i - 1]
    BY <2>1, SubSeqProperties
  <2> QED
    BY <1>2, <2>2
<1>5. /\ after \in Seq(Pane) /\ Len(after) = n - k
      /\ \A i \in 1 .. n - k : after[i] = panes[k + i]
  <2>1. /\ k + 1 \in Int /\ \A i \in k + 1 .. n : panes[i] \in Pane
    BY <1>2, <1>3
  <2>2. /\ after \in Seq(Pane) /\ Len(after) = IF k + 1 <= n THEN n - (k + 1) + 1 ELSE 0
        /\ \A i \in 1 .. n - (k + 1) + 1 : after[i] = panes[(k + 1) + i - 1]
    BY <1>2, <2>1, SubSeqProperties
  <2> QED
    BY <1>2, <2>2
<1> HIDE DEF before, after
<1>6. /\ panes' \in Seq(Pane) /\ Len(panes') = n - 1
      /\ \A i \in 1 .. n - 1 : panes'[i] = IF i <= k - 1 THEN before[i] ELSE after[i - (k - 1)]
  <2>1. /\ before \o after \in Seq(Pane) /\ Len(before \o after) = Len(before) + Len(after)
        /\ \A i \in 1 .. Len(before) + Len(after) : (before \o after)[i] =
              IF i <= Len(before) THEN before[i] ELSE after[i - Len(before)]
    BY <1>4, <1>5, ConcatProperties
  <2>2. (k - 1) + (n - k) = n - 1
    BY <1>2
  <2> QED
    BY <1>1, <1>4, <1>5, <2>1, <2>2
<1>7. \A i \in 1 .. n - 1 : panes'[i] = panes[IF i <= k - 1 THEN i ELSE i + 1]
  <2> TAKE i \in 1 .. n - 1
  <2>1. CASE i <= k - 1
    <3>1. i \in 1 .. k - 1
      BY <1>2, <2>1
    <3>2. panes'[i] = before[i]
      BY <1>6, <2>1
    <3> QED
      BY <1>4, <2>1, <3>1, <3>2
  <2>2. CASE ~(i <= k - 1)
    <3> DEFINE m == i - (k - 1)
    <3>1. m \in 1 .. n - k /\ k + m = i + 1
      BY <1>2, <2>2
    <3>2. panes'[i] = after[m]
      BY <1>6, <2>2
    <3> HIDE DEF m
    <3>3. panes'[i] = panes[i + 1]
      BY <1>5, <3>1, <3>2
    <3> QED
      BY <2>2, <3>3
  <2> QED
    BY <2>1, <2>2
<1>8. \A i, j \in 1 .. n : panes[i].id = panes[j].id => i = j
  BY <1>2 DEF PanesOK
<1>9. \A i, j \in 1 .. n - 1 : panes'[i].id = panes'[j].id => i = j
  <2> TAKE i, j \in 1 .. n - 1
  <2> DEFINE a == IF i <= k - 1 THEN i ELSE i + 1
             b == IF j <= k - 1 THEN j ELSE j + 1
  <2>1. a \in 1 .. n /\ b \in 1 .. n /\ (a = b => i = j)
    BY <1>2
  <2>2. panes'[i] = panes[a] /\ panes'[j] = panes[b]
    BY <1>7
  <2> QED
    BY <1>8, <2>1, <2>2
<1>10. DOMAIN panes' = 1 .. n - 1 /\ panes' # <<>>
  <2>1. DOMAIN panes' = 1 .. n - 1
    BY <1>6
  <2>2. n - 1 # 0 /\ Len(<<>>) = 0
    BY <1>1, <1>2
  <2> QED
    BY <1>6, <2>1, <2>2
<1> QED
  BY <1>6, <1>9, <1>10 DEF PanesOK

(* A pane is given a timeframe.                                            *)
LEMMA PaneSet ==
  ASSUME PanesOK(panes), NEW id, HasPane(id), NEW timeframe \in Nat \ {0},
         panes' = [panes EXCEPT ![IndexOf(id)].timeframe = timeframe]
  PROVE  PanesOK(panes')
<1> DEFINE k == IndexOf(id)
           new == [panes[k] EXCEPT !.timeframe = timeframe]
<1>1. panes \in Seq(Pane) /\ k \in 1 .. Len(panes) /\ DOMAIN panes = 1 .. Len(panes)
  BY PaneFound DEF PanesOK
<1>2. panes' = [panes EXCEPT ![k] = new]
  OBVIOUS
<1>3. panes[k] \in Pane
  BY <1>1
<1>4. new \in Pane /\ new.id = panes[k].id
  BY <1>3 DEF Pane
<1> HIDE DEF k, new
<1>5. /\ panes' \in Seq(Pane) /\ Len(panes') = Len(panes)
      /\ \A j \in 1 .. Len(panes) : panes'[j] = IF j = k THEN new ELSE panes[j]
  <2>1. /\ [panes EXCEPT ![k] = new] \in Seq(Pane) /\ Len([panes EXCEPT ![k] = new]) = Len(panes)
        /\ \A j \in 1 .. Len(panes) : [panes EXCEPT ![k] = new][j] = IF j = k THEN new ELSE panes[j]
    BY <1>1, <1>4, ExceptSeq
  <2> QED
    BY <1>2, <2>1
<1>6. DOMAIN panes' = DOMAIN panes /\ panes' # <<>>
  BY <1>1, <1>5
<1>7. \A j \in DOMAIN panes : panes'[j].id = panes[j].id
  BY <1>1, <1>4, <1>5
<1> QED
  BY <1>5, <1>6, <1>7 DEF PanesOK

(* The step of the panes is a timeframe of one of them.                    *)
LEMMA PaneStepType ==
  ASSUME PanesOK(panes)
  PROVE  PaneStep \in Nat \ {0}
<1> DEFINE S == {panes[i].timeframe : i \in DOMAIN panes}
<1>1. panes \in Seq(Pane) /\ 1 \in DOMAIN panes
  BY DEF PanesOK
<1>2. S \subseteq Nat \ {0}
  <2>1. \A i \in DOMAIN panes : panes[i] \in Pane
    BY <1>1
  <2> QED
    BY <2>1 DEF Pane
<1>3. panes[1].timeframe \in S
  BY <1>1
<1> HIDE DEF S
<1>4. Min(S) \in S
  BY <1>2, <1>3, MinOfNat
<1> QED
  BY <1>2, <1>4 DEF PaneStep, S

-----------------------------------------------------------------------------
(* 3. The session.  SessionIsSound is inductive together with what is      *)
(* stored of narratives, which number the fills of a book.  It has four    *)
(* parts beside those of the panes and the narratives.                     *)

(* The clock is sane; it waits at its start as long as the session loads.  *)
ClockFits ==
  /\ clock \in Clock /\ ClockOK(clock)
  /\ session = "Loading" => clock.status = "Waiting" /\ clock.now = clock.start
  /\ session = "Idle" => clock = NoClock

(* A session that loads has its load under way, an active one has loaded.  *)
LoadsFit ==
  /\ session \in {"Idle", "Loading", "Active"}
  /\ store \subseteq Nat \X Nat /\ loads \subseteq Load /\ plays \in 0 .. MaxPlays
  /\ session = "Loading" => \E l \in loads : l.play = plays
  /\ session = "Active" => store # {}
  /\ session = "Idle" => store = {}

(* The orders.                                                             *)
OrdersTyped == book \in Book /\ issued \in 0 .. MaxOrders /\ crashes \in 0 .. MaxCrashes

(* The inductive invariant of the headless process.                        *)
HeadlessInv == ClockFits /\ LoadsFit /\ OrdersTyped /\ PanesOK(panes) /\ NarrativeInv

(* What the parts say together is what the run checks.                     *)
LEMMA HeadlessInvMeans == HeadlessInv => SessionIsSound /\ NarrativesSound
BY DEF HeadlessInv, ClockFits, LoadsFit, OrdersTyped, PanesOK, NarrativeInv, SessionIsSound,
   TypeOK, SessionHasItsLoad

(* No clock is a clock.                                                    *)
LEMMA NoClockOK == NoClock \in Clock /\ ClockOK(NoClock)
BY HeadlessAssumption, NewClockOK DEF NoClock

(* The first pane, and an empty book.                                      *)
LEMMA FirstPaneOK == PanesOK(FirstPane) /\ EmptyBook \in Book
<1>1. [id |-> 1, timeframe |-> Timeframe] \in Pane
  BY HeadlessAssumption DEF Pane
<1>2. FirstPane \in Seq(Pane) /\ Len(FirstPane) = 1 /\ FirstPane # <<>>
  BY <1>1 DEF FirstPane
<1>3. PanesOK(FirstPane)
  BY <1>2 DEF PanesOK
<1>4. <<>> \in Seq(Order) /\ <<>> \in Seq(Position)
  OBVIOUS
<1>5. EmptyBook \in Book
  BY <1>4, BookAssumption DEF EmptyBook, Book
<1> QED
  BY <1>3, <1>5

(* The initial state is sound.                                             *)
LEMMA HeadlessInit == Init => HeadlessInv
<1> SUFFICES ASSUME Init
             PROVE  HeadlessInv
  OBVIOUS
<1>1. ClockFits
  BY NoClockOK DEF Init, ClockFits
<1>2. LoadsFit
  BY HeadlessAssumption DEF Init, LoadsFit
<1>3. OrdersTyped /\ PanesOK(panes)
  BY HeadlessAssumption, FirstPaneOK DEF Init, OrdersTyped
<1> QED
  BY <1>1, <1>2, <1>3, NarrativesStart DEF Init, HeadlessInv

-----------------------------------------------------------------------------
(* What is left alone stays as it was.                                     *)

(* The clock of a session that keeps it.                                   *)
LEMMA ClockKept == ClockFits /\ UNCHANGED <<session, clock>> => ClockFits'
BY DEF ClockFits

(* The loads.                                                              *)
LEMMA LoadsKept == LoadsFit /\ UNCHANGED <<session, store, loadVars>> => LoadsFit'
BY DEF LoadsFit, loadVars

(* The orders.                                                             *)
LEMMA OrdersKept == OrdersTyped /\ UNCHANGED <<book, issued, crashes>> => OrdersTyped'
BY DEF OrdersTyped

(* The clock of an active session may be any sane one.                     *)
LEMMA ActiveClock ==
  ASSUME session = "Active", session' = session, clock' \in Clock, ClockOK(clock')
  PROVE  ClockFits'
BY DEF ClockFits

(* A sane clock that is paused and sought is sane.                         *)
LEMMA PausedSeekOK ==
  ASSUME NEW c \in Clock, ClockOK(c), NEW t \in Nat
  PROVE  Seek(Pause(c), t) \in Clock /\ ClockOK(Seek(Pause(c), t))
BY PauseOK, SeekOK

(* Times are numbers.                                                      *)
LEMMA ClockTimes ==
  ASSUME ClockFits
  PROVE  /\ clock \in Clock /\ ClockOK(clock)
         /\ clock.now \in Nat /\ clock.start \in Nat /\ clock.end \in Nat
         /\ clock.step \in Nat \ {0} /\ clock.speed \in Nat \ {0}
         /\ clock.start <= clock.now /\ clock.now <= clock.end
BY DEF ClockFits, Clock, ClockOK, InRange

(* A session that is taken to its start, if it is active.                  *)
LEMMA ToTheStartFits ==
  ASSUME ClockFits, session' = session, clock' = ToTheStart
  PROVE  ClockFits'
<1>1. CASE session = "Active"
  BY <1>1, ClockTimes, PausedSeekOK, ActiveClock DEF ToTheStart
<1>2. CASE session # "Active"
  BY <1>2, ClockKept DEF ToTheStart
<1> QED
  BY <1>1, <1>2

(* The bars that are stored are times, and those up to a time have opened. *)
LEMMA StoredBarsAreTimes ==
  ASSUME NEW t \in Nat
  PROVE  /\ BarsBefore(t) \subseteq Nat /\ \A b \in BarsBefore(t) : b < t
         /\ BarsBefore(t) # {} => Max(BarsBefore(t)) \in BarsBefore(t)
<1>1. BarsBefore(t) \subseteq Nat /\ \A b \in BarsBefore(t) : b < t
  BY HeadlessAssumption DEF BarsBefore, StoredBars
<1>2. \A b \in BarsBefore(t) : b <= t
  BY <1>1
<1> QED
  BY <1>1, <1>2, MaxOfNat

(* A step back leads to a time.                                            *)
LEMMA StepBackTargetType ==
  ASSUME ClockFits, PanesOK(panes)
  PROVE  StepBackTarget \in Nat
<1> DEFINE target == IF BarsBefore(clock.now) = {} THEN Monus(clock.now, PaneStep)
                     ELSE Max(BarsBefore(clock.now))
<1>1. target \in Nat
  <2>1. Monus(clock.now, PaneStep) \in Nat
    BY ClockTimes, PaneStepType DEF Monus
  <2>2. BarsBefore(clock.now) # {} => Max(BarsBefore(clock.now)) \in Nat
    BY ClockTimes, StoredBarsAreTimes
  <2> QED
    BY <2>1, <2>2
<1>2. StepBackTarget = IF target < clock.start THEN clock.start ELSE target
  BY DEF StepBackTarget
<1> HIDE DEF target
<1> QED
  BY <1>1, <1>2, ClockTimes

(* The next speed is one of the speeds.                                    *)
LEMMA NextSpeedType ==
  ASSUME NEW speed
  PROVE  NextSpeed(speed) \in Nat \ {0}
<1> DEFINE at == {i \in 1 .. Len(Speeds) : Speeds[i] = speed}
           k == (Min(at) % Len(Speeds)) + 1
<1>1. /\ Speeds \in Seq(Nat \ {0}) /\ Len(Speeds) \in Nat \ {0}
      /\ \A i \in 1 .. Len(Speeds) : Speeds[i] \in Nat \ {0}
  BY HeadlessAssumption
<1>2. at # {} => k \in 1 .. Len(Speeds)
  <2> SUFFICES ASSUME at # {}
               PROVE  k \in 1 .. Len(Speeds)
    OBVIOUS
  <2>1. Min(at) \in at
    <3>1. at \subseteq Nat
      OBVIOUS
    <3> HIDE DEF at
    <3> QED
      BY <3>1, MinOfNat
  <2>2. Min(at) \in Nat
    BY <1>1, <2>1
  <2>3. Min(at) % Len(Speeds) \in 0 .. (Len(Speeds) - 1)
    BY <1>1, <2>2, DivMod
  <2> QED
    BY <1>1, <2>3
<1>3. NextSpeed(speed) = IF at = {} THEN Speeds[1] ELSE Speeds[k]
  BY DEF NextSpeed
<1> HIDE DEF at, k
<1> QED
  BY <1>1, <1>2, <1>3

-----------------------------------------------------------------------------
(* The commands.                                                           *)

(* play: a fresh clock that waits, and a load for it.                      *)
LEMMA PlayFits ==
  ASSUME HeadlessInv, NEW begin \in Starts, NEW end \in Ends, PlayCommand(begin, end)
  PROVE  HeadlessInv'
<1>1. begin \in Nat /\ end \in Nat /\ begin < end /\ Timeframe \in Nat \ {0}
  BY HeadlessAssumption DEF PlayCommand
<1> DEFINE c == NewClock(begin, end, Timeframe)
           l == [play |-> plays', from |-> LoadFrom(begin), until |-> end]
<1>2. ClockFits'
  <2>1. AtStart(c)
    BY <1>1, NewClockAtStart
  <2>2. AtStart(SetWaiting(c))
    BY <2>1, SetWaitingAtStart
  <2>3. SetWaiting(c).status = "Waiting"
    BY DEF SetWaiting, Disarmed, NewClock
  <2>4. clock' = SetWaiting(c) /\ session' = "Loading"
    BY DEF PlayCommand
  <2> HIDE DEF c
  <2> QED
    BY <2>2, <2>3, <2>4 DEF AtStart, ClockFits
<1>3. LoadsFit'
  <2>1. LoadFrom(begin) \in Nat
    <3>1. HistoryBars * Timeframe \in Nat
      BY HeadlessAssumption, AtMostProduct
    <3> QED
      BY <1>1, <3>1 DEF LoadFrom, Monus
  <2>2. plays' \in 0 .. MaxPlays
    BY HeadlessAssumption DEF HeadlessInv, LoadsFit, PlayCommand
  <2>3. l \in Load /\ l.play = plays'
    BY <1>1, <2>1, <2>2 DEF Load
  <2>4. session' = "Loading" /\ store' = {} /\ loads' = loads \cup {l}
    BY DEF PlayCommand
  <2> HIDE DEF l
  <2> QED
    BY <2>2, <2>3, <2>4 DEF HeadlessInv, LoadsFit
<1>4. OrdersTyped' /\ PanesOK(panes)' /\ NarrativeInv'
  BY FirstPaneOK, NarrativesKept DEF HeadlessInv, OrdersTyped, PlayCommand, BookAfterPlay
<1> QED
  BY <1>2, <1>3, <1>4 DEF HeadlessInv

(* A step of the clock alone.                                              *)
LEMMA ClockStepFits ==
  ASSUME HeadlessInv, ClockFits',
         UNCHANGED <<session, store, loadVars, panes, book, issued, crashes, narrativeVars>>
  PROVE  HeadlessInv'
BY LoadsKept, OrdersKept, NarrativesKept DEF HeadlessInv

(* pause, resume and toggle.                                               *)
LEMMA PauseResumeFits ==
  ASSUME HeadlessInv, PauseCommand \/ ResumeCommand
  PROVE  HeadlessInv'
<1>1. /\ session = "Active" /\ session' = session /\ clock' \in {Pause(clock), Play(clock)}
      /\ UNCHANGED <<session, store, loadVars, panes, book, issued, crashes, narrativeVars>>
  BY DEF PauseCommand, ResumeCommand
<1>2. clock \in Clock /\ ClockOK(clock)
  BY DEF HeadlessInv, ClockFits
<1>3. clock' \in Clock /\ ClockOK(clock')
  BY <1>1, <1>2, PauseOK, PlayOK
<1> QED
  BY <1>1, <1>3, ActiveClock, ClockStepFits

(* cycle_speed.                                                            *)
LEMMA CycleSpeedFits ==
  ASSUME HeadlessInv, CycleSpeed
  PROVE  HeadlessInv'
<1> DEFINE v == NextSpeed(clock.speed)
<1>1. v \in Nat \ {0}
  BY NextSpeedType
<1>2. /\ session # "Idle" /\ session' = session /\ clock' = SetSpeed(clock, v)
      /\ UNCHANGED <<session, store, loadVars, panes, book, issued, crashes, narrativeVars>>
  BY DEF CycleSpeed
<1> HIDE DEF v
<1>3. clock \in Clock /\ ClockOK(clock)
  BY DEF HeadlessInv, ClockFits
<1>4. clock' \in Clock /\ ClockOK(clock')
  BY <1>1, <1>2, <1>3, SetSpeedOK
<1>5. clock'.status = clock.status /\ clock'.now = clock.now /\ clock'.start = clock.start
  BY <1>1, <1>2, <1>3 DEF SetSpeed, Clock
<1>6. ClockFits'
  BY <1>2, <1>4, <1>5 DEF HeadlessInv, ClockFits
<1> QED
  BY <1>2, <1>6, ClockStepFits

(* The fills of a step.  They are of the time that was asked for, at the   *)
(* close of a bar that has opened by then.                                 *)
LEMMA FillAtFits ==
  ASSUME book \in Book, NarrativeInv, NEW t \in Nat, FillAt(t)
  PROVE  /\ book' \in Book /\ NarrativeInv'
         /\ \A f \in fills' \ fills : f.time = t /\ \E b \in BarsUpTo(t) : CloseOf[b] = f.price
<1>1. CASE BarsUpTo(t) = {}
  <2>1. UNCHANGED <<book, narrativeVars>>
    BY <1>1 DEF FillAt
  <2>2. fills' \ fills = {}
    BY <2>1 DEF narrativeVars
  <2> QED
    BY <2>1, <2>2, NarrativesKept
<1>2. CASE BarsUpTo(t) # {}
  <2> DEFINE bar == Max(BarsUpTo(t))
             trades == <<CloseOf[bar]>>
             events == FillEvents(book, Ticker, trades, t)
  <2>1. bar \in BarsUpTo(t) /\ bar \in HasBars
    <3>1. t + 1 \in Nat
      OBVIOUS
    <3>2. bar \in BarsUpTo(t)
      BY <1>2, <3>1, StoredBarsAreTimes DEF BarsUpTo
    <3> QED
      BY <3>2 DEF BarsUpTo, BarsBefore, StoredBars
  <2>2. /\ book' = OnTick(book, Ticker, trades, t)
        /\ StartOutcomeTasks(events)
        /\ UNCHANGED <<rows, files, creating, lost>>
    BY <1>2 DEF FillAt
  <2>3. CloseOf[bar] \in Nat
    BY <2>1, HeadlessAssumption
  <2> HIDE DEF bar
  <2>4. trades \in Seq(Nat) /\ DOMAIN trades = {1} /\ trades[1] = CloseOf[bar]
    BY <2>3
  <2> HIDE DEF trades
  <2>5. FilledNow([book |-> book', fills |-> events], trades, t)
    BY <2>2, <2>4, OnTickTyped
  <2> HIDE DEF events
  <2>6. /\ book' \in Book /\ events \in Seq(Fill)
        /\ \A i \in 1 .. Len(events) :
             events[i].time = t /\ \E j \in DOMAIN trades : events[i].price = trades[j]
    BY <2>5 DEF FilledNow
  <2>7. NarrativeInv'
    BY <2>2, <2>6, FillsNoted
  <2>8. \A o \in Outcomes(events) : o.time = t /\ o.price = CloseOf[bar]
    <3>1. DOMAIN events = 1 .. Len(events)
      BY <2>6
    <3>2. \A i \in DOMAIN events : events[i].time = t /\ events[i].price = CloseOf[bar]
      BY <2>4, <2>6, <3>1
    <3> QED
      BY <3>2 DEF Outcomes
  <2>9. \A f \in Noted(events) : f.time = t /\ f.price = CloseOf[bar]
    BY <2>8 DEF Noted
  <2>10. fills' = fills \cup Noted(events)
    BY <2>2 DEF StartOutcomeTasks
  <2> QED
    BY <2>1, <2>6, <2>7, <2>9, <2>10
<1> QED
  BY <1>1, <1>2

(* step_forward.                                                           *)
LEMMA StepForwardFits ==
  ASSUME HeadlessInv, StepForward
  PROVE  HeadlessInv'
<1> DEFINE next == clock.now + PaneStep
<1>1. /\ session = "Active" /\ session' = session
      /\ UNCHANGED <<session, store, loadVars, panes, issued, crashes>>
  BY DEF StepForward, IsPlaying, IsPaused
<1>2. ClockFits /\ PanesOK(panes) /\ next \in Nat
  BY ClockTimes, PaneStepType DEF HeadlessInv
<1>3. \/ clock' = Seek(Pause(clock), clock.end) /\ UNCHANGED <<book, narrativeVars>>
      \/ clock' = Seek(clock, next) /\ FillAt(next)
  BY DEF StepForward
<1> HIDE DEF next
<1>4. clock' \in Clock /\ ClockOK(clock')
  BY <1>2, <1>3, ClockTimes, SeekOK, PausedSeekOK
<1>5. ClockFits'
  BY <1>1, <1>4, ActiveClock
<1>6. book' \in Book /\ NarrativeInv'
  BY <1>2, <1>3, FillAtFits, NarrativesKept DEF HeadlessInv, OrdersTyped
<1>7. LoadsFit'
  BY <1>1, LoadsKept DEF HeadlessInv
<1>8. OrdersTyped'
  BY <1>1, <1>6 DEF HeadlessInv, OrdersTyped
<1> QED
  BY <1>1, <1>5, <1>6, <1>7, <1>8 DEF HeadlessInv

(* step_backward.                                                          *)
LEMMA StepBackwardFits ==
  ASSUME HeadlessInv, StepBackward
  PROVE  HeadlessInv'
<1>1. /\ session = "Active" /\ session' = session /\ book' = EmptyBook
      /\ UNCHANGED <<session, store, loadVars, panes, issued, crashes, narrativeVars>>
      /\ clock' = ToTheStart \/ clock' = Seek(clock, StepBackTarget)
  BY DEF StepBackward, IsPlaying, IsPaused
<1>2. ClockFits'
  <2>1. CASE clock' = ToTheStart
    BY <1>1, <2>1, ToTheStartFits DEF HeadlessInv
  <2>2. CASE clock' = Seek(clock, StepBackTarget)
    <3>1. StepBackTarget \in Nat /\ clock \in Clock /\ ClockOK(clock)
      BY StepBackTargetType, ClockTimes DEF HeadlessInv
    <3> QED
      BY <1>1, <2>2, <3>1, SeekOK, ActiveClock
  <2> QED
    BY <1>1, <2>1, <2>2
<1>3. LoadsFit' /\ NarrativeInv'
  BY <1>1, LoadsKept, NarrativesKept DEF HeadlessInv
<1>4. OrdersTyped'
  BY <1>1, FirstPaneOK DEF HeadlessInv, OrdersTyped
<1> QED
  BY <1>1, <1>2, <1>3, <1>4 DEF HeadlessInv

(* Every replay command.                                                   *)
LEMMA ReplayCommandFits == HeadlessInv /\ ReplayCommand => HeadlessInv'
BY PlayFits, PauseResumeFits, CycleSpeedFits, StepForwardFits, StepBackwardFits
DEF ReplayCommand, ToggleCommand

(* The panes' commands.                                                    *)
LEMMA PaneCommandFits == HeadlessInv /\ PaneCommand => HeadlessInv'
<1> SUFFICES ASSUME HeadlessInv, NEW id \in 1 .. MaxPanes,
                    \/ SplitPane(id)
                    \/ ClosePane(id)
                    \/ SetPaneTicker(id)
                    \/ \E timeframe \in Timeframes : SetPaneTimeframe(id, timeframe)
             PROVE  HeadlessInv'
  BY DEF PaneCommand
<1>1. CASE SplitPane(id) \/ ClosePane(id)
  <2>1. PanesOK(panes)'
    BY <1>1, PaneSplit, PaneClosed DEF HeadlessInv
  <2>2. UNCHANGED <<sessionVars, loadVars, book, issued, crashes, narrativeVars>>
    BY <1>1 DEF SplitPane, ClosePane
  <2> QED
    BY <2>1, <2>2, ClockKept, LoadsKept, OrdersKept, NarrativesKept DEF HeadlessInv, sessionVars
<1>2. CASE SetPaneTicker(id)
  <2>1. /\ session' = session /\ clock' = ToTheStart /\ book' = EmptyBook
        /\ UNCHANGED <<session, store, loadVars, panes, issued, crashes, narrativeVars>>
    BY <1>2 DEF SetPaneTicker
  <2>2. ClockFits' /\ LoadsFit' /\ NarrativeInv'
    BY <2>1, ToTheStartFits, LoadsKept, NarrativesKept DEF HeadlessInv
  <2>3. OrdersTyped'
    BY <2>1, FirstPaneOK DEF HeadlessInv, OrdersTyped
  <2> QED
    BY <2>1, <2>2, <2>3 DEF HeadlessInv
<1>3. ASSUME NEW timeframe \in Timeframes, SetPaneTimeframe(id, timeframe)
      PROVE  HeadlessInv'
  <2>1. /\ HasPane(id) /\ panes' = [panes EXCEPT ![IndexOf(id)].timeframe = timeframe]
        /\ clock' = ToTheStart \/ clock' = clock
        /\ UNCHANGED <<session, store, loadVars, book, issued, crashes, narrativeVars>>
    BY <1>3 DEF SetPaneTimeframe
  <2>2. timeframe \in Nat \ {0}
    BY HeadlessAssumption
  <2>3. PanesOK(panes)'
    BY <2>1, <2>2, PaneSet DEF HeadlessInv
  <2>4. ClockFits'
    BY <2>1, ToTheStartFits, ClockKept DEF HeadlessInv
  <2> QED
    BY <2>1, <2>3, <2>4, LoadsKept, OrdersKept, NarrativesKept DEF HeadlessInv
<1> QED
  BY <1>1, <1>2, <1>3

(* An order.                                                               *)
LEMMA OrderCommandFits == HeadlessInv /\ OrderCommand => HeadlessInv'
<1> SUFFICES ASSUME HeadlessInv, NEW ticker \in Tickers, NEW side \in Sides,
                    NEW limit \in Limits \cup {Market}, PlaceOrderCommand(ticker, side, limit)
             PROVE  HeadlessInv'
  BY DEF OrderCommand
<1> DEFINE o == [id |-> issued', ticker |-> ticker, side |-> side,
                 qty |-> 1, limit |-> limit, placed |-> clock.now]
<1>1. /\ issued < MaxOrders /\ issued' = issued + 1 /\ book' = PlaceOrder(book, o)
      /\ UNCHANGED <<sessionVars, loadVars, panes, crashes, narrativeVars>>
  BY DEF PlaceOrderCommand
<1>2. book \in Book /\ issued \in 0 .. MaxOrders /\ MaxOrders \in Nat
  BY HeadlessAssumption DEF HeadlessInv, OrdersTyped
<1>3. issued' \in 0 .. MaxOrders /\ issued' \in Nat \ {0}
  BY <1>1, <1>2
<1>4. o \in Order
  <2>1. ticker \in STRING /\ limit \in Nat \cup {Market}
    BY HeadlessAssumption
  <2>2. clock.now \in Nat
    BY ClockTimes DEF HeadlessInv
  <2> QED
    BY <1>3, <2>1, <2>2 DEF Order
<1> HIDE DEF o
<1>5. book' \in Book
  <2>1. Append(book.orders, o) \in Seq(Order)
    BY <1>2, <1>4 DEF Book
  <2> QED
    BY <1>1, <1>2, <2>1 DEF PlaceOrder, Book
<1>6. OrdersTyped'
  BY <1>1, <1>3, <1>5 DEF HeadlessInv, OrdersTyped
<1> QED
  BY <1>1, <1>6, ClockKept, LoadsKept, NarrativesKept DEF HeadlessInv, sessionVars

(* A step of the narratives alone.                                         *)
LEMMA NarrativeStepFits ==
  ASSUME HeadlessInv, NarrativeInv', UNCHANGED headlessVars
  PROVE  HeadlessInv'
BY ClockKept, LoadsKept, OrdersKept DEF HeadlessInv, headlessVars, sessionVars

(* The narratives' commands, the rest of a create, and the outcome tasks.  *)
LEMMA NarrativeStepsFit ==
  ASSUME HeadlessInv,
         (NarrativeCommand /\ UNCHANGED headlessVars) \/ FinishCreate \/ OutcomeTask
  PROVE  HeadlessInv'
<1>1. NarrativeInv /\ \A link \in 0 .. issued : link \in Nat
  BY DEF HeadlessInv, OrdersTyped
<1>2. CASE NarrativeCommand /\ UNCHANGED headlessVars
  <2>1. NarrativeInv'
    BY <1>1, <1>2, SnapshotWritten, RowPublished DEF NarrativeCommand
  <2> QED
    BY <1>2, <2>1, NarrativeStepFits
<1>3. CASE FinishCreate
  <2>1. NarrativeInv'
    BY <1>1, <1>3, RowStored, RowRefused DEF FinishCreate
  <2> QED
    BY <1>3, <2>1, NarrativeStepFits DEF FinishCreate
<1>4. CASE OutcomeTask
  <2>1. NarrativeInv'
    BY <1>1, <1>4, OutcomeWritten, OutcomeLost DEF OutcomeTask
  <2> QED
    BY <1>4, <2>1, NarrativeStepFits DEF OutcomeTask
<1> QED
  BY <1>2, <1>3, <1>4

-----------------------------------------------------------------------------
(* The rest of the loop, and a restart.                                    *)

(* A load that succeeds activates the session that loads; any other is     *)
(* late.                                                                   *)
LEMMA LoadSucceededFits ==
  ASSUME HeadlessInv, NEW l \in loads, LoadSucceeded(l)
  PROVE  HeadlessInv'
<1>1. loads' = loads \ {l} /\ plays' = plays
  BY DEF LoadSucceeded, LoadTaken
<1>2. UNCHANGED <<panes, book, issued, crashes, narrativeVars>>
  BY DEF LoadSucceeded
<1>3. CASE session = "Loading"
  <2>1. /\ session' = "Active" /\ store' = store \cup {<<l.from, l.until>>}
        /\ clock' = ResumeFromWaiting(clock)
    BY <1>3 DEF LoadSucceeded
  <2>2. ClockFits'
    BY <2>1, ResumeFromWaitingOK DEF HeadlessInv, ClockFits
  <2>3. <<l.from, l.until>> \in Nat \X Nat
    BY DEF HeadlessInv, LoadsFit, Load
  <2>4. LoadsFit'
    BY <1>1, <2>1, <2>3 DEF HeadlessInv, LoadsFit
  <2> QED
    BY <1>2, <2>2, <2>4, OrdersKept, NarrativesKept DEF HeadlessInv
<1>4. CASE session # "Loading"
  <2>1. UNCHANGED <<session, clock, store>>
    BY <1>4 DEF LoadSucceeded, sessionVars
  <2>2. ClockFits'
    BY <2>1, ClockKept DEF HeadlessInv
  <2>3. LoadsFit'
    BY <1>1, <1>4, <2>1 DEF HeadlessInv, LoadsFit
  <2> QED
    BY <1>2, <2>2, <2>3, OrdersKept, NarrativesKept DEF HeadlessInv
<1> QED
  BY <1>3, <1>4

(* A load that fails leaves no session.                                    *)
LEMMA LoadFailedFits ==
  ASSUME HeadlessInv, NEW l \in loads, LoadFailed(l)
  PROVE  HeadlessInv'
<1>1. /\ loads' = loads \ {l} /\ plays' = plays
      /\ session' = "Idle" /\ clock' = NoClock /\ store' = {}
      /\ UNCHANGED <<panes, book, issued, crashes, narrativeVars>>
  BY DEF LoadFailed, LoadTaken
<1>2. ClockFits'
  BY <1>1, NoClockOK DEF ClockFits
<1>3. LoadsFit'
  BY <1>1 DEF HeadlessInv, LoadsFit
<1> QED
  BY <1>1, <1>2, <1>3, OrdersKept, NarrativesKept DEF HeadlessInv

(* A tick.                                                                 *)
LEMMA TickOfLoopFits == HeadlessInv /\ TickOfLoop => HeadlessInv'
<1> SUFFICES ASSUME HeadlessInv, NEW elapsed \in 1 .. MaxLag, TickBranch(elapsed)
             PROVE  HeadlessInv'
  BY DEF TickOfLoop
<1>1. /\ session = "Active" /\ session' = session
      /\ clock' \in {Tick(clock, elapsed), SetWaiting(clock)}
      /\ UNCHANGED <<session, store, loadVars, panes, book, issued, crashes, narrativeVars>>
  BY DEF TickBranch, IsPlaying
<1>2. elapsed \in Nat /\ clock \in Clock /\ ClockOK(clock)
  BY HeadlessAssumption DEF HeadlessInv, ClockFits
<1>3. clock' \in Clock /\ ClockOK(clock')
  BY <1>1, <1>2, TickOK, SetWaitingOK
<1> QED
  BY <1>1, <1>3, ActiveClock, ClockStepFits

(* A restart.                                                              *)
LEMMA CrashFits == HeadlessInv /\ Crash => HeadlessInv'
<1> SUFFICES ASSUME HeadlessInv, Crash
             PROVE  HeadlessInv'
  OBVIOUS
<1>1. /\ session' = "Idle" /\ clock' = NoClock /\ store' = {} /\ loads' = {}
      /\ plays' = plays /\ issued' = issued
      /\ panes' = FirstPane /\ book' = EmptyBook /\ crashes < MaxCrashes /\ crashes' = crashes + 1
  BY DEF Crash
<1>2. ClockFits'
  BY <1>1, NoClockOK DEF ClockFits
<1>3. LoadsFit'
  BY <1>1 DEF HeadlessInv, LoadsFit
<1>4. crashes' \in 0 .. MaxCrashes
  BY <1>1, HeadlessAssumption DEF HeadlessInv, OrdersTyped
<1>5. OrdersTyped' /\ PanesOK(panes)'
  BY <1>1, <1>4, FirstPaneOK DEF HeadlessInv, OrdersTyped
<1>6. NarrativeInv'
  BY NarrativesSurvive DEF HeadlessInv, Crash
<1> QED
  BY <1>2, <1>3, <1>5, <1>6 DEF HeadlessInv

(* Every step keeps the invariant.                                         *)
LEMMA HeadlessStep == HeadlessInv /\ [Next]_hvars => HeadlessInv'
<1> SUFFICES ASSUME HeadlessInv, [Next]_hvars
             PROVE  HeadlessInv'
  OBVIOUS
<1>1. CASE Serve
  BY <1>1, ReplayCommandFits, PaneCommandFits, OrderCommandFits, NarrativeStepsFit DEF Serve
<1>2. CASE FinishCreate \/ OutcomeTask
  BY <1>2, NarrativeStepsFit
<1>3. CASE LoadBranch
  BY <1>3, LoadSucceededFits, LoadFailedFits DEF LoadBranch
<1>4. CASE TickOfLoop \/ Crash
  BY <1>4, TickOfLoopFits, CrashFits
<1>5. CASE UNCHANGED hvars
  <2>1. UNCHANGED narrativeVars /\ UNCHANGED headlessVars
    BY <1>5 DEF hvars
  <2>2. NarrativeInv'
    BY <2>1, NarrativesKept DEF HeadlessInv
  <2> QED
    BY <2>1, <2>2, NarrativeStepFits
<1> QED
  BY <1>1, <1>2, <1>3, <1>4, <1>5 DEF Next

(* A session that loads can always become active, an active one has loaded *)
(* something, and its clock is sane: whatever commands, loads, ticks and   *)
(* restarts come in between (headless.rs play, handle_load_result).        *)
THEOREM HeadlessSessionIsSound == Spec => []SessionIsSound
<1>1. Init => HeadlessInv
  BY HeadlessInit
<1>2. HeadlessInv /\ [Next]_hvars => HeadlessInv'
  BY HeadlessStep
<1>3. HeadlessInv => SessionIsSound
  BY HeadlessInvMeans
<1> QED
  BY <1>1, <1>2, <1>3, PTL DEF Spec

(* What is stored of narratives is stored once, with its file, and learns  *)
(* the true outcome, through lost replies, failed writes and restarts      *)
(* (narrative/service.rs, store.rs).                                       *)
THEOREM NarrativesStaySound == Spec => []NarrativesSound
<1>1. Init => HeadlessInv
  BY HeadlessInit
<1>2. HeadlessInv /\ [Next]_hvars => HeadlessInv'
  BY HeadlessStep
<1>3. HeadlessInv => NarrativesSound
  BY HeadlessInvMeans
<1> QED
  BY <1>1, <1>2, <1>3, PTL DEF Spec

-----------------------------------------------------------------------------
(* 4. The refinement: each step maps to one of Playback's, or leaves what  *)
(* Playback sees alone.                                                    *)

(* A step of the abstract player, or a stutter.                            *)
AbstractStep == Abstract!Next \/ UNCHANGED Abstract!pvars

(* A step that leaves the place of the clock and its status is a stutter.  *)
LEMMA HeadlessStutters ==
  ASSUME session' = session, StandsAs(clock, clock'),
         (clock'.status = "Playing") <=> (clock.status = "Playing")
  PROVE  AbstractStep
BY DEF AbstractStep, Abstract!pvars, Abstract!range, StandsAs, SameFrame

(* A step that leaves the clock alone is one.                              *)
LEMMA ClockAlone ==
  ASSUME UNCHANGED <<session, clock>>
  PROVE  AbstractStep
BY HeadlessStutters DEF StandsAs, SameFrame

(* Play, Pause and a clock set to wait start or stop an active session.    *)
LEMMA HeadlessStartsOrStops ==
  ASSUME session' = session, session = "Active", StandsAs(clock, clock')
  PROVE  AbstractStep
<1>1. CASE (clock'.status = "Playing") <=> (clock.status = "Playing")
  BY <1>1, HeadlessStutters
<1>2. CASE ~((clock'.status = "Playing") <=> (clock.status = "Playing"))
  BY <1>2 DEF AbstractStep, Abstract!Next, Abstract!StartOrStop, Abstract!range, StandsAs, SameFrame
<1> QED
  BY <1>1, <1>2

(* A clock that lands paused in its range has jumped.                      *)
LEMMA HeadlessJumps ==
  ASSUME ClockFits', session' = session, session = "Active",
         SameFrame(clock, clock'), clock'.step = clock.step, clock'.status # "Playing"
  PROVE  AbstractStep
<1>1. InRange(clock')
  BY DEF ClockFits, ClockOK
<1> QED
  BY <1>1 DEF InRange, SameFrame, AbstractStep, Abstract!Next, Abstract!Jump, Abstract!range

(* A session that is gone is given up.                                     *)
LEMMA HeadlessGivesUp ==
  ASSUME session' = "Idle", clock' = NoClock
  PROVE  AbstractStep
BY DEF NoClock, NewClock, AbstractStep, Abstract!Next, Abstract!GiveUp

(* A seek leaves the range, and a pause before it stops the clock.         *)
LEMMA SeekFrame ==
  ASSUME NEW c \in Clock, NEW t
  PROVE  /\ SameFrame(c, Seek(c, t)) /\ Seek(c, t).step = c.step
         /\ Seek(c, t).status = c.status
         /\ SameFrame(c, Seek(Pause(c), t)) /\ Seek(Pause(c), t).step = c.step
         /\ Seek(Pause(c), t).status = "Paused"
BY DEF SameFrame, Seek, Pause, Disarmed, Clock

(* An active session that is taken to its start jumps.                     *)
LEMMA ToTheStartMaps ==
  ASSUME ClockFits, ClockFits', session' = session, clock' = ToTheStart
  PROVE  AbstractStep
<1>1. CASE session = "Active"
  <2>1. clock' = Seek(Pause(clock), clock.start) /\ clock \in Clock
    BY <1>1 DEF ToTheStart, ClockFits
  <2>2. SameFrame(clock, clock') /\ clock'.step = clock.step /\ clock'.status # "Playing"
    BY <2>1, SeekFrame
  <2> QED
    BY <1>1, <2>2, HeadlessJumps
<1>2. CASE session # "Active"
  BY <1>2, ClockAlone DEF ToTheStart
<1> QED
  BY <1>1, <1>2

(* Both steps jump.                                                        *)
LEMMA StepsJump ==
  ASSUME ClockFits, ClockFits', StepForward \/ StepBackward
  PROVE  AbstractStep
<1>1. session' = session /\ session = "Active" /\ clock \in Clock
  BY DEF StepForward, StepBackward, IsPlaying, IsPaused, ClockFits
<1>2. ASSUME NEW t, clock' = Seek(Pause(clock), t) PROVE AbstractStep
  <2>1. SameFrame(clock, clock') /\ clock'.step = clock.step /\ clock'.status # "Playing"
    BY <1>1, <1>2, SeekFrame
  <2> QED
    BY <1>1, <2>1, HeadlessJumps
<1>3. ASSUME NEW t, clock.status = "Paused", clock' = Seek(clock, t) PROVE AbstractStep
  <2>1. SameFrame(clock, clock') /\ clock'.step = clock.step /\ clock'.status # "Playing"
    BY <1>1, <1>3, SeekFrame
  <2> QED
    BY <1>1, <2>1, HeadlessJumps
<1> HIDE DEF AbstractStep
<1>4. CASE StepForward
  BY <1>2, <1>3, <1>4 DEF StepForward, IsPaused
<1>5. CASE StepBackward
  BY <1>1, <1>2, <1>3, <1>5 DEF StepBackward, ToTheStart, IsPaused
<1> QED
  BY <1>4, <1>5

(* A new session begins.                                                   *)
LEMMA PlayBegins ==
  ASSUME NEW begin \in Starts, NEW end \in Ends, PlayCommand(begin, end)
  PROVE  AbstractStep
<1>1. begin \in Nat /\ end \in Nat /\ begin < end
  BY HeadlessAssumption DEF PlayCommand
<1>2. session' = "Loading" /\ clock' = SetWaiting(NewClock(begin, end, Timeframe))
  BY DEF PlayCommand
<1>3. /\ clock'.start = begin /\ clock'.end = end /\ clock'.now = begin
      /\ clock'.status = "Waiting"
  BY <1>2 DEF SetWaiting, Disarmed, NewClock
<1> QED
  BY <1>1, <1>2, <1>3 DEF AbstractStep, Abstract!Next, Abstract!Begin

(* Every replay command.                                                   *)
LEMMA ReplayCommandMaps ==
  ASSUME ClockFits, ClockFits', ReplayCommand
  PROVE  AbstractStep
<1>1. CASE PauseCommand \/ ResumeCommand
  <2>1. session' = session /\ session = "Active" /\ clock' \in {Pause(clock), Play(clock)}
    BY <1>1 DEF PauseCommand, ResumeCommand
  <2>2. StandsAs(clock, clock')
    BY <2>1, StandingStill DEF ClockFits
  <2> QED
    BY <2>1, <2>2, HeadlessStartsOrStops
<1>2. CASE CycleSpeed
  <2>1. session' = session /\ clock' = SetSpeed(clock, NextSpeed(clock.speed))
    BY <1>2 DEF CycleSpeed
  <2>2. clock' = [clock EXCEPT !.speed = NextSpeed(clock.speed)]
    BY <2>1, NextSpeedType DEF SetSpeed
  <2>3. StandsAs(clock, clock') /\ clock'.status = clock.status
    BY <2>2 DEF StandsAs, SameFrame, ClockFits, Clock
  <2> QED
    BY <2>1, <2>3, HeadlessStutters
<1> HIDE DEF AbstractStep
<1> QED
  BY <1>1, <1>2, PlayBegins, StepsJump DEF ReplayCommand, ToggleCommand

(* The panes' commands.                                                    *)
LEMMA PaneCommandMaps ==
  ASSUME ClockFits, ClockFits', PaneCommand
  PROVE  AbstractStep
<1>1. session' = session /\ (clock' = clock \/ clock' = ToTheStart)
  BY DEF PaneCommand, SplitPane, ClosePane, SetPaneTicker, SetPaneTimeframe, sessionVars
<1> QED
  BY <1>1, ClockAlone, ToTheStartMaps

(* A load that succeeds readies the session that loads.                    *)
LEMMA LoadSucceededMaps ==
  ASSUME ClockFits, NEW l, LoadSucceeded(l)
  PROVE  AbstractStep
<1>1. CASE session = "Loading"
  <2>1. session' = "Active" /\ clock' = ResumeFromWaiting(clock)
    BY <1>1 DEF LoadSucceeded
  <2>2. StandsAs(clock, clock')
    BY <2>1, StandingStill DEF ClockFits
  <2>3. (clock'.status = "Playing") \in BOOLEAN
    OBVIOUS
  <2> QED
    BY <1>1, <2>1, <2>2, <2>3
    DEF AbstractStep, Abstract!Next, Abstract!Ready, Abstract!range, StandsAs, SameFrame
<1>2. CASE session # "Loading"
  BY <1>2, ClockAlone DEF LoadSucceeded, sessionVars
<1> QED
  BY <1>1, <1>2

(* A tick advances, stops or stands.                                       *)
LEMMA TickOfLoopMaps ==
  ASSUME ClockFits, TickOfLoop
  PROVE  AbstractStep
<1>1. PICK elapsed \in 1 .. MaxLag : TickBranch(elapsed)
  BY DEF TickOfLoop
<1>2. /\ session' = session /\ session = "Active" /\ clock.status = "Playing"
      /\ clock' \in {Tick(clock, elapsed), SetWaiting(clock)}
  BY <1>1 DEF TickBranch, IsPlaying
<1>3. elapsed \in Nat /\ clock \in Clock /\ ClockOK(clock)
  BY HeadlessAssumption DEF ClockFits
<1>4. CASE clock' = SetWaiting(clock)
  BY <1>2, <1>3, <1>4, StandingStill, HeadlessStartsOrStops
<1>5. CASE clock' = Tick(clock, elapsed)
  <2>1. SameFrame(clock, clock') /\ clock'.step = clock.step
    BY <1>2, <1>3, <1>5, TickAdvances
  <2>2. CASE clock'.now = clock.now
    BY <1>2, <2>1, <2>2, HeadlessStartsOrStops DEF StandsAs
  <2>3. CASE /\ clock.now < clock'.now /\ clock'.now <= clock'.end
             /\ (clock'.status = "Playing") <=> (clock'.now < clock'.end)
    BY <1>2, <2>1, <2>3
    DEF AbstractStep, Abstract!Next, Abstract!Advance, Abstract!range, SameFrame
  <2> QED
    BY <1>2, <1>3, <1>5, <2>2, <2>3, TickAdvances
<1> QED
  BY <1>2, <1>4, <1>5

(* Every step of the engine is one of Playback's, or a stutter.            *)
LEMMA HeadlessStepMaps ==
  ASSUME ClockFits, ClockFits', [Next]_hvars
  PROVE  AbstractStep
<1> HIDE DEF AbstractStep
<1>1. CASE ReplayCommand \/ PaneCommand
  BY <1>1, ReplayCommandMaps, PaneCommandMaps
<1>2. CASE OrderCommand
  BY <1>2, ClockAlone DEF OrderCommand, PlaceOrderCommand, sessionVars
<1>3. CASE UNCHANGED headlessVars
  BY <1>3, ClockAlone DEF headlessVars, sessionVars
<1>4. CASE LoadBranch
  <2>1. ASSUME NEW l, LoadFailed(l) PROVE AbstractStep
    BY <2>1, HeadlessGivesUp DEF LoadFailed
  <2> QED
    BY <1>4, <2>1, LoadSucceededMaps DEF LoadBranch
<1>5. CASE TickOfLoop
  BY <1>5, TickOfLoopMaps
<1>6. CASE Crash
  BY <1>6, HeadlessGivesUp DEF Crash
<1> QED
  BY <1>1, <1>2, <1>3, <1>4, <1>5, <1>6 DEF Next, Serve, FinishCreate, OutcomeTask, hvars

(* The engine keeps the GUI controller's promise: what its clock and its   *)
(* session do is a Playback (headless.rs over replay/mod.rs, ReplayState). *)
THEOREM HeadlessImplementsPlayback == Spec => ImplementsPlayback
<1>1. Init => Abstract!Init
  BY DEF Init, NoClock, NewClock, Abstract!Init
<1>2. HeadlessInv /\ HeadlessInv' /\ [Next]_hvars => [Abstract!Next]_(Abstract!pvars)
  BY HeadlessStepMaps DEF AbstractStep, HeadlessInv
<1> QED
  BY <1>1, <1>2, HeadlessInit, HeadlessStep, PTL DEF Spec, ImplementsPlayback, Abstract!Spec

-----------------------------------------------------------------------------
(* 5. The book is of the moment that the clock shows.                      *)

(* A step of a paused clock does not take it back: a clock that is not at  *)
(* the end of its range is on a step.                                      *)
LEMMA SeekForward ==
  ASSUME NEW c \in Clock, ClockOK(c), NEW t \in Nat, c.now < t, t <= c.end
  PROVE  /\ c.now <= Seek(c, t).now /\ Seek(c, t).now <= t
         /\ t < Seek(c, t).now + c.step /\ Seek(c, t).step = c.step
<1> DEFINE n == Seek(c, t).now
<1>1. /\ c.now \in Nat /\ c.start \in Nat /\ c.end \in Nat /\ c.step \in Nat \ {0}
      /\ c.start <= c.now
  BY DEF Clock, ClockOK, InRange
<1>2. t < n + c.step /\ Seek(c, t).step = c.step
  BY SeekReaches
<1>3. n = c.start \/ n <= t
  BY SeekUpTo
<1>4. n \in Nat /\ c.start <= n
  <2>1. Seek(c, t) \in Clock /\ ClockOK(Seek(c, t)) /\ Seek(c, t).start = c.start
    BY SeekOK, SeekUpTo
  <2> QED
    BY <2>1 DEF Clock, ClockOK, InRange
<1>5. n <= t
  BY <1>1, <1>3
<1>6. c.now <= n
  <2>1. CASE n = c.end
    BY <1>1, <2>1 DEF ClockOK, InRange
  <2>2. CASE n # c.end
    <3>1. PICK q \in 0 .. (c.now - c.start) : c.now = c.start + q * c.step
      <4>1. OnStep(c)
        BY <1>1 DEF ClockOK, OnBarBoundary
      <4> QED
        BY <4>1 DEF OnStep
    <3>2. PICK r \in 0 .. (n - c.start) : n = c.start + r * c.step
      <4>1. ClockOK(Seek(c, t)) /\ Seek(c, t).start = c.start /\ Seek(c, t).end = c.end
            /\ Seek(c, t).step = c.step
        BY SeekOK, SeekUpTo, SeekReaches
      <4>2. OnStep(Seek(c, t))
        BY <2>2, <4>1 DEF ClockOK, OnBarBoundary
      <4> QED
        BY <4>1, <4>2 DEF OnStep
    <3> HIDE DEF n
    <3>3. q \in Nat /\ r \in Nat /\ q * c.step \in Nat /\ r * c.step \in Nat
      BY <1>1, AtMostProduct
    <3>4. SUFFICES ASSUME n < c.now
                   PROVE  FALSE
      BY <1>1, <1>4
    <3>5. r * c.step <= q * c.step /\ q * c.step < r * c.step + c.step
      BY <1>1, <1>2, <1>4, <3>1, <3>2, <3>3, <3>4
    <3>6. r * c.step = q * c.step
      BY <1>1, <3>3, <3>5, SameBoundary
    <3> QED
      BY <3>1, <3>2, <3>4, <3>6, <1>1
  <2> QED
    BY <2>1, <2>2
<1> QED
  BY <1>2, <1>5, <1>6

(* A fill of the step is of the moment it leads to.                        *)
FillsTimely ==
  \A f \in fills' \ fills :
    /\ clock'.now <= f.time /\ f.time < clock'.now + clock'.step
    /\ \E b \in StoredBars : b < clock'.now + clock'.step /\ CloseOf[b] = f.price

(* Who goes back clears the book.                                          *)
BackIsClear ==
  (session' # "Idle" /\ clock'.now < clock.now /\ ~TimeframeRestart)
    => book'.orders = <<>> /\ book'.positions = <<>> /\ book'.cash = InitialCash

(* A step forward.                                                         *)
LEMMA StepForwardTimely ==
  ASSUME HeadlessInv, StepForward
  PROVE  FillsTimely /\ clock.now <= clock'.now
<1> DEFINE next == clock.now + PaneStep
<1>1. /\ clock \in Clock /\ ClockOK(clock) /\ next \in Nat /\ clock.now < next
      /\ clock.now \in Nat /\ clock.end \in Nat /\ clock.now <= clock.end
  BY ClockTimes, PaneStepType DEF HeadlessInv
<1>2. CASE clock' = Seek(Pause(clock), clock.end) /\ UNCHANGED <<book, narrativeVars>>
  <2>1. Pause(clock).start = clock.start /\ Pause(clock).end = clock.end /\ Pause(clock) \in Clock
    BY <1>1, PauseFacts, PauseOK
  <2>2. Seek(Pause(clock), clock.end).now = clock.end
    BY <1>1, <2>1 DEF Seek, Clamp, Clock, ClockOK, InRange
  <2>3. fills' = fills
    BY <1>2 DEF narrativeVars
  <2> QED
    BY <1>1, <1>2, <2>2, <2>3 DEF FillsTimely
<1>3. CASE next <= clock.end /\ clock' = Seek(clock, next) /\ FillAt(next)
  <2> HIDE DEF next
  <2>1. /\ clock.now <= clock'.now /\ clock'.now <= next
        /\ next < clock'.now + clock.step /\ clock'.step = clock.step
    BY <1>1, <1>3, SeekForward
  <2>2. clock' \in Clock
    BY <1>1, <1>3, SeekOK
  <2>3. clock'.now \in Nat /\ clock'.step \in Nat
    BY <2>2 DEF Clock
  <2>4. ASSUME NEW f \in fills' \ fills
        PROVE  /\ clock'.now <= f.time /\ f.time < clock'.now + clock'.step
               /\ \E b \in StoredBars : b < clock'.now + clock'.step /\ CloseOf[b] = f.price
    <3>1. f.time = next /\ \E b \in BarsUpTo(next) : CloseOf[b] = f.price
      BY <1>1, <1>3, FillAtFits DEF HeadlessInv, OrdersTyped
    <3>2. PICK b \in BarsUpTo(next) : CloseOf[b] = f.price
      BY <3>1
    <3>3. b \in StoredBars /\ b < next + 1 /\ b \in Nat
      BY HeadlessAssumption DEF BarsUpTo, BarsBefore, StoredBars
    <3>4. b < clock'.now + clock'.step
      BY <1>1, <2>1, <2>3, <3>3
    <3> QED
      BY <2>1, <3>1, <3>2, <3>3, <3>4
  <2> QED
    BY <2>1, <2>4 DEF FillsTimely
<1> QED
  BY <1>2, <1>3 DEF StepForward

(* A step that fills nothing and leaves the clock where it was, or takes   *)
(* it on.                                                                  *)
LEMMA NothingToClear ==
  ASSUME fills' = fills, clock.now \in Nat, clock'.now \in Nat, clock.now <= clock'.now
  PROVE  FillsTimely /\ BackIsClear
BY DEF FillsTimely, BackIsClear

(* The commands, but for a step forward.                                   *)
LEMMA ReplayCommandTimely ==
  ASSUME HeadlessInv, HeadlessInv', ReplayCommand
  PROVE  FillsTimely /\ BackIsClear
<1>1. clock \in Clock /\ clock.now \in Nat /\ clock'.now \in Nat
  BY DEF HeadlessInv, ClockFits, Clock
<1>2. CASE book' = EmptyBook /\ fills' = fills
  BY <1>2 DEF FillsTimely, BackIsClear, EmptyBook
<1>3. ASSUME NEW begin \in Starts, NEW end \in Ends, PlayCommand(begin, end)
      PROVE  FillsTimely /\ BackIsClear
  BY <1>2, <1>3 DEF PlayCommand, BookAfterPlay, narrativeVars
<1>4. CASE StepBackward
  BY <1>2, <1>4 DEF StepBackward, narrativeVars
<1>5. CASE PauseCommand \/ ResumeCommand
  <2>1. fills' = fills /\ clock' \in {Pause(clock), Play(clock)}
    BY <1>5 DEF PauseCommand, ResumeCommand, narrativeVars
  <2>2. clock'.now = clock.now
    BY <1>1, <2>1, StandingStill DEF StandsAs
  <2> QED
    BY <1>1, <2>1, <2>2, NothingToClear
<1>6. CASE CycleSpeed
  <2>1. fills' = fills /\ clock' = SetSpeed(clock, NextSpeed(clock.speed))
    BY <1>6 DEF CycleSpeed, narrativeVars
  <2>2. clock' = [clock EXCEPT !.speed = NextSpeed(clock.speed)]
    BY <2>1, NextSpeedType DEF SetSpeed
  <2>3. clock'.now = clock.now
    BY <1>1, <2>2 DEF Clock
  <2> QED
    BY <1>1, <2>1, <2>3, NothingToClear
<1>7. CASE StepForward
  BY <1>1, <1>7, StepForwardTimely DEF BackIsClear
<1> HIDE DEF FillsTimely, BackIsClear
<1> QED
  BY <1>3, <1>4, <1>5, <1>6, <1>7 DEF ReplayCommand, ToggleCommand

(* The panes' commands.                                                    *)
LEMMA PaneCommandTimely ==
  ASSUME HeadlessInv, PaneCommand
  PROVE  FillsTimely /\ BackIsClear
<1>1. PICK id \in 1 .. MaxPanes :
        \/ SplitPane(id)
        \/ ClosePane(id)
        \/ SetPaneTicker(id)
        \/ \E timeframe \in Timeframes : SetPaneTimeframe(id, timeframe)
  BY DEF PaneCommand
<1>2. CASE SplitPane(id) \/ ClosePane(id)
  <2>1. fills' = fills /\ clock' = clock /\ clock.now \in Nat
    BY <1>2, ClockTimes DEF SplitPane, ClosePane, sessionVars, narrativeVars, HeadlessInv
  <2> QED
    BY <2>1, NothingToClear
<1>3. CASE SetPaneTicker(id)
  <2>1. fills' = fills /\ book' = EmptyBook
    BY <1>3 DEF SetPaneTicker, narrativeVars
  <2> QED
    BY <2>1 DEF FillsTimely, BackIsClear, EmptyBook
<1>4. CASE \E timeframe \in Timeframes : SetPaneTimeframe(id, timeframe)
  <2>1. fills' = fills /\ TimeframeRestart
    BY <1>4 DEF SetPaneTimeframe, narrativeVars, TimeframeRestart
  <2> QED
    BY <2>1 DEF FillsTimely, BackIsClear
<1> QED
  BY <1>1, <1>2, <1>3, <1>4

(* Every step keeps the book of the moment.                                *)
LEMMA StepIsTimely ==
  ASSUME HeadlessInv, HeadlessInv', [Next]_hvars
  PROVE  FillsTimely /\ BackIsClear
<1>1. /\ clock \in Clock /\ ClockOK(clock) /\ clock.now \in Nat
      /\ clock'.now \in Nat
  BY DEF HeadlessInv, ClockFits, Clock
<1>2. CASE fills' = fills /\ clock' = clock
  BY <1>1, <1>2, NothingToClear
<1>3. CASE fills' = fills /\ session' = "Idle"
  BY <1>3 DEF FillsTimely, BackIsClear
<1>4. CASE ReplayCommand \/ PaneCommand
  BY <1>4, ReplayCommandTimely, PaneCommandTimely
<1>5. CASE OrderCommand
  <2>1. fills' = fills /\ clock' = clock
    BY <1>5 DEF OrderCommand, PlaceOrderCommand, sessionVars, narrativeVars
  <2> QED
    BY <1>2, <2>1
<1>6. CASE (NarrativeCommand /\ UNCHANGED headlessVars) \/ FinishCreate \/ OutcomeTask
  <2>1. fills' = fills
    BY <1>6 DEF NarrativeCommand, WriteSnapshot, SetPublic, FinishCreate, InsertRow, InsertFails,
       OutcomeTask, UpdateOutcome, UpdateFails
  <2>2. clock' = clock
    BY <1>6 DEF FinishCreate, OutcomeTask, headlessVars, sessionVars
  <2> QED
    BY <1>2, <2>1, <2>2
<1>7. CASE LoadBranch
  <2>1. ASSUME NEW l, LoadFailed(l) PROVE FillsTimely /\ BackIsClear
    BY <1>3, <2>1 DEF LoadFailed, narrativeVars
  <2>2. ASSUME NEW l, LoadSucceeded(l) PROVE FillsTimely /\ BackIsClear
    <3>1. fills' = fills /\ clock' \in {clock, ResumeFromWaiting(clock)}
      BY <2>2 DEF LoadSucceeded, sessionVars, narrativeVars
    <3>2. clock'.now = clock.now
      BY <1>1, <3>1, StandingStill DEF StandsAs
    <3> QED
      BY <1>1, <3>1, <3>2, NothingToClear
  <2> HIDE DEF FillsTimely, BackIsClear
  <2> QED
    BY <1>7, <2>1, <2>2 DEF LoadBranch
<1>8. CASE TickOfLoop
  <2>1. PICK elapsed \in 1 .. MaxLag : TickBranch(elapsed)
    BY <1>8 DEF TickOfLoop
  <2>2. elapsed \in Nat
    BY HeadlessAssumption
  <2>3. fills' = fills /\ clock' \in {Tick(clock, elapsed), SetWaiting(clock)}
    BY <2>1 DEF TickBranch, narrativeVars
  <2>4. clock.now <= clock'.now
    BY <1>1, <2>2, <2>3, TickMoves, StandingStill DEF StandsAs
  <2> QED
    BY <1>1, <2>3, <2>4, NothingToClear
<1>9. CASE Crash
  BY <1>3, <1>9 DEF Crash, NarrativesCrash
<1>10. CASE UNCHANGED hvars
  BY <1>2, <1>10 DEF hvars, headlessVars, sessionVars, narrativeVars
<1> HIDE DEF FillsTimely, BackIsClear
<1> QED
  BY <1>4, <1>5, <1>6, <1>7, <1>8, <1>9, <1>10 DEF Next, Serve

(* A step fills at the close of a bar that has opened by the clock it      *)
(* leads to and dates the fill less than a step from it, whatever mix of   *)
(* panes asked for it, and whoever goes back in time leaves no trades      *)
(* behind (headless.rs step_forward, play, step_backward, set_pane_ticker).*)
THEOREM HeadlessBookIsOfTheMoment == Spec => TheBookIsOfTheMoment
<1>1. HeadlessInv /\ HeadlessInv' /\ [Next]_hvars => [FillsTimely]_hvars /\ [BackIsClear]_hvars
  BY StepIsTimely
<1>2. Spec => [][FillsTimely]_hvars /\ [][BackIsClear]_hvars
  BY <1>1, HeadlessInit, HeadlessStep, PTL DEF Spec
<1> QED
  BY <1>2 DEF TheBookIsOfTheMoment, FillsAreOfTheMoment, GoingBackClearsTheBook, FillsTimely,
     BackIsClear
=============================================================================
