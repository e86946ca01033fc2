---------------------------- MODULE LiveDataProofs ----------------------------
(***************************************************************************)
(* Proofs about live market data, for any streams, views, holidays and     *)
(* tickers, and any number of requests, frames and trades: the bars of a   *)
(* chart, the trades of a stream, the tickers table with its statistics,   *)
(* the auto-play of the start, the limit on requests and the order book of *)
(* a venue; and, of all of them side by side, the types.                   *)
(***************************************************************************)
EXTENDS MCLiveData,
        SequenceTheorems, FiniteSetTheorems, WellFoundedInduction, TLAPS

-----------------------------------------------------------------------------
(* The bars of a chart.                                                    *)

(* A chart is a record of a timeframe, a mode and its bars.                *)
ChartIsRecord ==
  chart = [timeframe |-> chart.timeframe, replay |-> chart.replay, bars |-> chart.bars]

(* Bars of a stream put over others.                                       *)
LEMMA OverBars ==
  ASSUME NEW s, NEW T, NEW old, NEW tf, s.timeframe = tf,
         \A t \in DOMAIN old : old[t].timeframe = tf
  PROVE  \A t \in DOMAIN Over(BarsOf(s, T), old) : Over(BarsOf(s, T), old)[t].timeframe = tf
BY DEF Over, BarsOf

(* An empty chart has no bar of any timeframe.                             *)
LEMMA EmptyCharts ==
  ASSUME NEW tf, NEW replay, chart' = EmptyChart(tf, replay)
  PROVE  ChartIsRecord' /\ BarsHaveTheTimeframe'
BY DEF EmptyChart, BarsOf, ChartIsRecord, BarsHaveTheTimeframe

(* Every step keeps the bars of a chart to its timeframe.                  *)
LEMMA BarsStep ==
  ASSUME ChartIsRecord, BarsHaveTheTimeframe, [FetchNext]_fetchVars
  PROVE  ChartIsRecord' /\ BarsHaveTheTimeframe'
<1>1. CASE UNCHANGED <<chart, pane>>
  BY <1>1 DEF ChartIsRecord, BarsHaveTheTimeframe
<1>2. CASE \/ ToggleMode \/ ResetForSeek
           \/ \E s \in Streams : ChangeTimeframe(s) \/ SwitchTicker(s)
  BY <1>2, EmptyCharts DEF ToggleMode, ResetForSeek, ChangeTimeframe, SwitchTicker, Fresh
<1>3. ASSUME NEW f \in fetches, FirstBars(f)
      PROVE  ChartIsRecord' /\ BarsHaveTheTimeframe'
  <2>1. chart' = [timeframe |-> f.stream.timeframe, replay |-> FALSE, bars |-> FetchedBars(f)]
    BY <1>3 DEF FirstBars
  <2> QED
    BY <2>1 DEF FetchedBars, BarsOf, ChartIsRecord, BarsHaveTheTimeframe
<1>4. ASSUME NEW s, NEW T, UNCHANGED pane, s.timeframe = chart.timeframe \/ s = pane,
             chart' = [chart EXCEPT !.bars = Over(BarsOf(s, T), @)]
      PROVE  ChartIsRecord' /\ BarsHaveTheTimeframe'
  <2>1. chart' = [timeframe |-> chart.timeframe, replay |-> chart.replay,
                  bars |-> Over(BarsOf(s, T), chart.bars)]
    BY <1>4 DEF ChartIsRecord
  <2>2. /\ ChartIsRecord' /\ chart'.timeframe = chart.timeframe
        /\ chart'.bars = Over(BarsOf(s, T), chart.bars)
    BY <2>1 DEF ChartIsRecord
  <2> QED
    BY <1>4, <2>2, OverBars DEF BarsHaveTheTimeframe
<1>5. ASSUME NEW f \in fetches, HistBars(f)
      PROVE  ChartIsRecord' /\ BarsHaveTheTimeframe'
  BY <1>4, <1>5 DEF HistBars, OtherBasis, FetchedBars
<1>6. CASE KlineReceived
  BY <1>4, <1>6 DEF KlineReceived
<1> QED
  BY <1>1, <1>2, <1>3, <1>5, <1>6
     DEF FetchNext, FetchHands, FetchWorks, SomeFetchFails, Pan, FetchMissingData, CoolDown,
         Answer, StaleBars, FetchFails, TimePasses, fetchVars

(* A chart that shows its pane's timeframe has bars of no other, whatever  *)
(* answers to earlier requests come in, in whatever order.                 *)
THEOREM ChartsKeepTheTimeframe == FetchSpec => []BarsHaveTheTimeframe
<1>1. FetchInit => ChartIsRecord /\ BarsHaveTheTimeframe
  BY DEF FetchInit, EmptyChart, BarsOf, ChartIsRecord, BarsHaveTheTimeframe
<1> QED
  BY <1>1, BarsStep, PTL DEF FetchSpec

-----------------------------------------------------------------------------
(* The trades of a stream.                                                 *)

(* The trades of s are in the order of their numbers.                      *)
Ascending(s) == \A i, j \in 1 .. Len(s) : i < j => s[i] < s[j]
(* No trade of s is newer than n.                                          *)
Upto(s, n) == \A i \in 1 .. Len(s) : s[i] <= n
(* The trades of s come before those of u.                                 *)
AllBefore(s, u) == \A i \in 1 .. Len(s), j \in 1 .. Len(u) : s[i] < u[j]

(* The types of the trades, frames and buffers.                            *)
TradeTypes ==
  /\ traded \in [Tickers -> Nat]
  /\ frames \in Seq([ticker : Tickers, trades : Seq(Nat)])
  /\ buffers \in [Tickers -> Seq(Nat)]
  /\ handed \in [Tickers -> Seq(Nat)] /\ read \in [Tickers -> Seq(Nat)]

(* What was read is what was handed on and what is still buffered.         *)
HandedOnce == \A t \in Tickers : handed[t] \o buffers[t] = read[t]

(* Trades are read in the order the venue made them.                       *)
ReadInOrder == \A t \in Tickers : Ascending(read[t]) /\ Upto(read[t], traded[t])

(* What was read is older than what is in the frames not read yet, an      *)
(* earlier frame is older than a later one, and nothing is newer than the  *)
(* venue's last trade.                                                     *)
FramesInOrder ==
  \A k \in 1 .. Len(frames) :
    /\ Ascending(frames[k].trades)
    /\ Upto(frames[k].trades, traded[frames[k].ticker])
    /\ AllBefore(read[frames[k].ticker], frames[k].trades)
    /\ \A l \in 1 .. Len(frames) :
         k < l /\ frames[k].ticker = frames[l].ticker
           => AllBefore(frames[k].trades, frames[l].trades)

(* The inductive invariant of the trades.                                  *)
TradeInv == TradeTypes /\ HandedOnce /\ ReadInOrder /\ FramesInOrder

(* What is in order stays in order when something later is added to it.    *)
LEMMA AscendingConcat ==
  ASSUME NEW s \in Seq(Nat), NEW u \in Seq(Nat), Ascending(s), Ascending(u), AllBefore(s, u)
  PROVE  Ascending(s \o u)
<1>1. /\ s \o u \in Seq(Nat) /\ Len(s \o u) = Len(s) + Len(u)
      /\ \A i \in 1 .. Len(s) + Len(u) :
           (s \o u)[i] = IF i <= Len(s) THEN s[i] ELSE u[i - Len(s)]
  BY ConcatProperties
<1> SUFFICES ASSUME NEW i \in 1 .. Len(s) + Len(u), NEW j \in 1 .. Len(s) + Len(u), i < j
             PROVE  (s \o u)[i] < (s \o u)[j]
  BY <1>1 DEF Ascending
<1>2. CASE j <= Len(s)
  BY <1>1, <1>2 DEF Ascending
<1>3. CASE i <= Len(s) /\ Len(s) < j
  <2>1. j - Len(s) \in 1 .. Len(u)
    BY <1>3
  <2> QED
    BY <1>1, <1>3, <2>1 DEF AllBefore
<1>4. CASE Len(s) < i
  <2>1. i - Len(s) \in 1 .. Len(u) /\ j - Len(s) \in 1 .. Len(u) /\ i - Len(s) < j - Len(s)
    BY <1>4
  <2>2. (s \o u)[i] = u[i - Len(s)] /\ (s \o u)[j] = u[j - Len(s)]
    BY <1>1, <1>4
  <2>3. u[i - Len(s)] < u[j - Len(s)]
    BY <2>1 DEF Ascending
  <2> QED
    BY <2>2, <2>3
<1> QED
  BY <1>2, <1>3, <1>4

(* A bound of both parts bounds the whole.                                 *)
LEMMA UptoConcat ==
  ASSUME NEW s \in Seq(Nat), NEW u \in Seq(Nat), NEW n \in Nat, Upto(s, n), Upto(u, n)
  PROVE  Upto(s \o u, n)
BY ConcatProperties DEF Upto

(* What comes before both parts comes before the whole.                    *)
LEMMA BeforeConcat ==
  ASSUME NEW s \in Seq(Nat), NEW u \in Seq(Nat), NEW v \in Seq(Nat),
         AllBefore(s, v), AllBefore(u, v)
  PROVE  AllBefore(s \o u, v)
<1>1. /\ Len(s \o u) = Len(s) + Len(u)
      /\ \A i \in 1 .. Len(s) + Len(u) :
           (s \o u)[i] = IF i <= Len(s) THEN s[i] ELSE u[i - Len(s)]
  BY ConcatProperties
<1> SUFFICES ASSUME NEW i \in 1 .. Len(s) + Len(u), NEW j \in 1 .. Len(v)
             PROVE  (s \o u)[i] < v[j]
  BY <1>1 DEF AllBefore
<1>2. CASE i <= Len(s)
  BY <1>1, <1>2 DEF AllBefore
<1>3. CASE Len(s) < i
  <2>1. i - Len(s) \in 1 .. Len(u)
    BY <1>3
  <2>2. (s \o u)[i] = u[i - Len(s)]
    BY <1>1, <1>3
  <2>3. u[i - Len(s)] < v[j]
    BY <2>1 DEF AllBefore
  <2> QED
    BY <2>2, <2>3
<1> QED
  BY <1>2, <1>3

(* Handing on the buffer: three sequences put together either way.         *)
LEMMA ConcatThree ==
  ASSUME NEW s \in Seq(Nat), NEW u \in Seq(Nat), NEW v \in Seq(Nat)
  PROVE  s \o (u \o v) = (s \o u) \o v
<1>1. (s \o u) \o v = s \o (u \o v)
  BY ConcatAssociative, SMT
<1> QED
  BY <1>1

(* The part of an ascending sequence that comes first ascends.             *)
LEMMA FirstPart ==
  ASSUME NEW s \in Seq(Nat), NEW u \in Seq(Nat), NEW n \in Nat,
         Ascending(s \o u), Upto(s \o u, n)
  PROVE  Ascending(s) /\ Upto(s, n)
<1>1. /\ Len(s \o u) = Len(s) + Len(u) /\ Len(s) \in Nat /\ Len(u) \in Nat
      /\ \A i \in 1 .. Len(s) + Len(u) :
           (s \o u)[i] = IF i <= Len(s) THEN s[i] ELSE u[i - Len(s)]
  BY ConcatProperties
<1>2. \A i \in 1 .. Len(s) : i \in 1 .. Len(s \o u) /\ (s \o u)[i] = s[i]
  BY <1>1
<1> QED
  BY <1>2 DEF Ascending, Upto

(* What was put aside is handed on, or kept.                               *)
LEMMA FlushHandsOn ==
  ASSUME TradeTypes, NEW b \in [Tickers -> Seq(Nat)], Flush(b)
  PROVE  /\ buffers' \in [Tickers -> Seq(Nat)] /\ handed' \in [Tickers -> Seq(Nat)]
         /\ \A t \in Tickers : handed'[t] \o buffers'[t] = handed[t] \o b[t]
<1>1. \A t \in Tickers : handed'[t] = handed[t] \o b[t] /\ buffers'[t] = <<>>
  BY DEF Flush, HandOn, NoTrades
<1>2. \A t \in Tickers : handed[t] \o b[t] \in Seq(Nat)
  BY ConcatProperties DEF TradeTypes
<1>3. \A t \in Tickers : (handed[t] \o b[t]) \o <<>> = handed[t] \o b[t]
  BY <1>2, ConcatEmptySeq
<1> QED
  BY <1>1, <1>2, <1>3 DEF Flush, HandOn, NoTrades

(* What the frames of a typed state are.                                   *)
LEMMA FramesTyped ==
  ASSUME TradeTypes
  PROVE  \A k \in 1 .. Len(frames) : frames[k].ticker \in Tickers /\ frames[k].trades \in Seq(Nat)
<1> SUFFICES ASSUME NEW k \in 1 .. Len(frames)
             PROVE  frames[k].ticker \in Tickers /\ frames[k].trades \in Seq(Nat)
  OBVIOUS
<1>1. frames[k] \in [ticker : Tickers, trades : Seq(Nat)]
  BY ElementOfSeq DEF TradeTypes
<1> QED
  BY <1>1

(* The venue makes trades and sends them.                                  *)
LEMMA VenueTradesStep ==
  ASSUME TradeInv, NEW t \in Tickers, NEW n \in 0 .. 2, VenueTrades(t, n)
  PROVE  TradeInv'
<1> DEFINE new == [i \in 1 .. n |-> traded[t] + i]
           f   == [ticker |-> t, trades |-> new]
<1>1. n \in Nat /\ traded[t] \in Nat /\ frames \in Seq([ticker : Tickers, trades : Seq(Nat)])
  BY DEF TradeInv, TradeTypes
<1>2. /\ new \in Seq(Nat) /\ Len(new) = n /\ \A i \in 1 .. Len(new) : new[i] = traded[t] + i
  BY <1>1
<1>3. /\ traded' = [traded EXCEPT ![t] = @ + n] /\ frames' = Append(frames, f)
      /\ UNCHANGED <<buffers, handed, read>>
  BY DEF VenueTrades
<1>4. f.ticker = t /\ f.trades = new /\ f \in [ticker : Tickers, trades : Seq(Nat)]
  BY <1>2
<1>5. Ascending(new) /\ Upto(new, traded[t] + n)
  BY <1>1, <1>2 DEF Ascending, Upto
<1>6. \A s \in Seq(Nat) : Upto(s, traded[t]) => AllBefore(s, new)
  <2> SUFFICES ASSUME NEW s \in Seq(Nat), Upto(s, traded[t]),
                      NEW i \in 1 .. Len(s), NEW j \in 1 .. Len(new)
               PROVE  s[i] < new[j]
    BY DEF AllBefore
  <2>1. s[i] \in Nat /\ s[i] <= traded[t] /\ new[j] = traded[t] + j /\ j \in Nat \ {0}
    BY <1>2 DEF Upto
  <2> QED
    BY <1>1, <2>1
<1> HIDE DEF new, f
<1>7. TradeTypes'
  BY <1>1, <1>3, <1>4 DEF TradeInv, TradeTypes
<1>8. \A u \in Tickers : traded'[u] \in Nat /\ traded[u] \in Nat /\ traded[u] <= traded'[u]
  BY <1>1, <1>3 DEF TradeInv, TradeTypes
<1>9. \A u \in Tickers, s \in Seq(Nat) : Upto(s, traded[u]) => Upto(s, traded'[u])
  <2> SUFFICES ASSUME NEW u \in Tickers, NEW s \in Seq(Nat), Upto(s, traded[u]),
                      NEW i \in 1 .. Len(s)
               PROVE  s[i] <= traded'[u]
    BY DEF Upto
  <2>1. s[i] \in Nat /\ s[i] <= traded[u]
    BY DEF Upto
  <2> QED
    BY <1>8, <2>1
<1>10. HandedOnce' /\ ReadInOrder'
  BY <1>3, <1>9 DEF TradeInv, TradeTypes, HandedOnce, ReadInOrder
<1>11. /\ Len(frames') = Len(frames) + 1 /\ Len(frames) \in Nat /\ frames'[Len(frames) + 1] = f
       /\ \A k \in 1 .. Len(frames) : frames'[k] = frames[k]
  BY <1>1, <1>3, <1>4
<1>12. \A k \in 1 .. Len(frames) :
         /\ frames[k].ticker \in Tickers /\ frames[k].trades \in Seq(Nat)
         /\ Ascending(frames[k].trades) /\ Upto(frames[k].trades, traded[frames[k].ticker])
         /\ AllBefore(read[frames[k].ticker], frames[k].trades)
  BY FramesTyped DEF TradeInv, FramesInOrder
<1>13. ASSUME NEW k \in 1 .. Len(frames')
       PROVE  /\ Ascending(frames'[k].trades)
              /\ Upto(frames'[k].trades, traded'[frames'[k].ticker])
              /\ AllBefore(read'[frames'[k].ticker], frames'[k].trades)
  <2>1. CASE k = Len(frames) + 1
    <3>1. traded'[t] = traded[t] + n /\ read'[t] = read[t] /\ read[t] \in Seq(Nat)
      BY <1>1, <1>3 DEF TradeInv, TradeTypes
    <3>2. Upto(read[t], traded[t])
      BY DEF TradeInv, ReadInOrder
    <3> QED
      BY <1>4, <1>5, <1>6, <1>11, <2>1, <3>1, <3>2
  <2>2. CASE k \in 1 .. Len(frames)
    BY <1>3, <1>9, <1>11, <1>12, <2>2
  <2> QED
    BY <1>11, <2>1, <2>2
<1>14. ASSUME NEW k \in 1 .. Len(frames'), NEW l \in 1 .. Len(frames'), k < l,
              frames'[k].ticker = frames'[l].ticker
       PROVE  AllBefore(frames'[k].trades, frames'[l].trades)
  <2>1. k \in 1 .. Len(frames) /\ frames'[k] = frames[k]
    BY <1>11, <1>14
  <2>2. CASE l = Len(frames) + 1
    <3>1. frames[k].ticker = t /\ frames'[l].trades = new
      BY <1>4, <1>11, <1>14, <2>1, <2>2
    <3> QED
      BY <1>6, <1>12, <2>1, <3>1
  <2>3. CASE l \in 1 .. Len(frames)
    BY <1>11, <1>14, <2>1, <2>3 DEF TradeInv, FramesInOrder
  <2> QED
    BY <1>11, <2>2, <2>3
<1> QED
  BY <1>7, <1>10, <1>13, <1>14 DEF TradeInv, FramesInOrder

(* A frame leaves: those behind it stay in order.                          *)
LEMMA TailInOrder ==
  ASSUME TradeInv, frames # <<>>, frames' = Tail(frames), UNCHANGED traded
  PROVE  /\ frames' \in Seq([ticker : Tickers, trades : Seq(Nat)])
         /\ Len(frames') \in Nat
         /\ \A k \in 1 .. Len(frames') :
              k + 1 \in 1 .. Len(frames) /\ 1 < k + 1 /\ frames'[k] = frames[k + 1]
         /\ Head(frames) = frames[1] /\ 1 \in 1 .. Len(frames)
BY DEF TradeInv, TradeTypes

(* A frame is read.                                                        *)
LEMMA FrameReadStep ==
  ASSUME TradeInv, FrameOfTrades
  PROVE  TradeInv'
<1> DEFINE f == Head(frames)
           b == [buffers EXCEPT ![f.ticker] = @ \o f.trades]
<1>1. /\ frames # <<>> /\ frames' = Tail(frames) /\ UNCHANGED traded
      /\ read' = [read EXCEPT ![f.ticker] = @ \o f.trades]
      /\ Flush(b) \/ (buffers' = b /\ UNCHANGED handed)
  BY DEF FrameOfTrades
<1>2. /\ frames' \in Seq([ticker : Tickers, trades : Seq(Nat)])
      /\ \A k \in 1 .. Len(frames') :
           k + 1 \in 1 .. Len(frames) /\ 1 < k + 1 /\ frames'[k] = frames[k + 1]
      /\ f = frames[1] /\ 1 \in 1 .. Len(frames) /\ Len(frames') \in Nat
  BY <1>1, TailInOrder
<1>3. /\ \A k \in 1 .. Len(frames) : frames[k].ticker \in Tickers /\ frames[k].trades \in Seq(Nat)
      /\ f.ticker \in Tickers /\ f.trades \in Seq(Nat)
  BY <1>2, FramesTyped DEF TradeInv
<1>4. /\ Ascending(f.trades) /\ Upto(f.trades, traded[f.ticker])
      /\ AllBefore(read[f.ticker], f.trades)
      /\ \A l \in 1 .. Len(frames) :
           1 < l /\ frames[l].ticker = f.ticker => AllBefore(f.trades, frames[l].trades)
  BY <1>2 DEF TradeInv, FramesInOrder
<1> HIDE DEF f
<1>5. /\ \A t \in Tickers : /\ read[t] \in Seq(Nat) /\ buffers[t] \in Seq(Nat)
                            /\ handed[t] \in Seq(Nat) /\ traded[t] \in Nat
      /\ \A t \in Tickers : /\ read'[t] = IF t = f.ticker THEN read[t] \o f.trades ELSE read[t]
                            /\ b[t] = IF t = f.ticker THEN buffers[t] \o f.trades ELSE buffers[t]
  BY <1>1, <1>3 DEF TradeInv, TradeTypes
<1>6. \A t \in Tickers : read'[t] \in Seq(Nat) /\ b[t] \in Seq(Nat)
  <2> TAKE t \in Tickers
  <2>1. read[t] \o f.trades \in Seq(Nat)
    BY <1>3, <1>5, ConcatProperties
  <2>2. buffers[t] \o f.trades \in Seq(Nat)
    BY <1>3, <1>5, ConcatProperties
  <2>3. read'[t] \in Seq(Nat)
    BY <1>5, <2>1
  <2>4. b[t] \in Seq(Nat)
    BY <1>5, <2>2
  <2> QED
    BY <2>3, <2>4
<1>7. b \in [Tickers -> Seq(Nat)] /\ read' \in [Tickers -> Seq(Nat)]
  BY <1>1, <1>3, <1>6 DEF TradeInv, TradeTypes
<1>8. \A t \in Tickers : handed[t] \o b[t] = read'[t]
  <2> TAKE t \in Tickers
  <2>1. handed[t] \o buffers[t] = read[t]
    BY DEF TradeInv, HandedOnce
  <2>2. handed[t] \o (buffers[t] \o f.trades) = (handed[t] \o buffers[t]) \o f.trades
    <3>1. handed[t] \in Seq(Nat) /\ buffers[t] \in Seq(Nat) /\ f.trades \in Seq(Nat)
      BY <1>3, <1>5
    <3> QED
      BY <3>1, ConcatThree
  <2> QED
    BY <1>5, <2>1, <2>2
<1> HIDE DEF b
<1>9. TradeTypes' /\ HandedOnce'
  <2>1. CASE Flush(b)
    <3>1. /\ buffers' \in [Tickers -> Seq(Nat)] /\ handed' \in [Tickers -> Seq(Nat)]
          /\ \A t \in Tickers : handed'[t] \o buffers'[t] = handed[t] \o b[t]
      BY <1>7, <2>1, FlushHandsOn DEF TradeInv
    <3> QED
      BY <1>1, <1>2, <1>7, <1>8, <3>1 DEF TradeInv, TradeTypes, HandedOnce
  <2>2. CASE buffers' = b /\ UNCHANGED handed
    BY <1>1, <1>2, <1>7, <1>8, <2>2 DEF TradeInv, TradeTypes, HandedOnce
  <2> QED
    BY <1>1, <2>1, <2>2
<1>10. ReadInOrder'
  <2> SUFFICES ASSUME NEW t \in Tickers
               PROVE  Ascending(read'[t]) /\ Upto(read'[t], traded'[t])
    BY DEF ReadInOrder
  <2>1. Ascending(read[t]) /\ Upto(read[t], traded[t]) /\ traded'[t] = traded[t]
    BY <1>1 DEF TradeInv, ReadInOrder
  <2>2. CASE t = f.ticker
    <3>1. Ascending(read[t] \o f.trades)
      BY <1>3, <1>4, <1>5, <2>1, <2>2, AscendingConcat
    <3>2. Upto(read[t] \o f.trades, traded[t])
      BY <1>3, <1>4, <1>5, <2>1, <2>2, UptoConcat
    <3> QED
      BY <1>5, <2>1, <2>2, <3>1, <3>2
  <2>3. CASE t # f.ticker
    BY <1>5, <2>1, <2>3
  <2> QED
    BY <2>2, <2>3
<1>11. ASSUME NEW k \in 1 .. Len(frames')
       PROVE  /\ Ascending(frames'[k].trades)
              /\ Upto(frames'[k].trades, traded'[frames'[k].ticker])
              /\ AllBefore(read'[frames'[k].ticker], frames'[k].trades)
  <2> DEFINE g == frames[k + 1]
  <2>1. /\ frames'[k] = g /\ k + 1 \in 1 .. Len(frames) /\ 1 < k + 1
        /\ g.ticker \in Tickers /\ g.trades \in Seq(Nat)
    BY <1>2, <1>3
  <2>2. /\ Ascending(g.trades) /\ Upto(g.trades, traded[g.ticker])
        /\ AllBefore(read[g.ticker], g.trades)
    BY <2>1 DEF TradeInv, FramesInOrder
  <2>3. g.ticker = f.ticker => AllBefore(f.trades, g.trades)
    BY <1>4, <2>1
  <2> HIDE DEF g
  <2>4. AllBefore(read'[g.ticker], g.trades)
    <3>1. CASE g.ticker = f.ticker
      <4>1. AllBefore(read[g.ticker] \o f.trades, g.trades)
        BY <1>3, <1>5, <2>1, <2>2, <2>3, <3>1, BeforeConcat
      <4> QED
        BY <1>5, <2>1, <3>1, <4>1
    <3>2. CASE g.ticker # f.ticker
      BY <1>5, <2>1, <2>2, <3>2
    <3> QED
      BY <3>1, <3>2
  <2> QED
    BY <1>1, <2>1, <2>2, <2>4
<1>12. ASSUME NEW k \in 1 .. Len(frames'), NEW l \in 1 .. Len(frames'), k < l,
              frames'[k].ticker = frames'[l].ticker
       PROVE  AllBefore(frames'[k].trades, frames'[l].trades)
  <2>1. k + 1 \in 1 .. Len(frames) /\ frames'[k] = frames[k + 1]
    BY <1>2
  <2>2. l + 1 \in 1 .. Len(frames) /\ frames'[l] = frames[l + 1]
    BY <1>2
  <2>3. k + 1 < l + 1
    <3>1. k \in Nat /\ l \in Nat
      BY <1>2
    <3> QED
      BY <1>12, <3>1
  <2>4. frames[k + 1].ticker = frames[l + 1].ticker
    BY <1>12, <2>1, <2>2
  <2>5. AllBefore(frames[k + 1].trades, frames[l + 1].trades)
    BY <2>1, <2>2, <2>3, <2>4 DEF TradeInv, FramesInOrder
  <2> QED
    BY <2>1, <2>2, <2>5
<1> QED
  BY <1>9, <1>10, <1>11, <1>12 DEF TradeInv, FramesInOrder

(* No frame, and nothing read that was not read before.                    *)
LEMMA NoFrames ==
  ASSUME TradeTypes', HandedOnce', ReadInOrder', frames' = <<>>
  PROVE  TradeInv'
BY DEF TradeInv, FramesInOrder

(* Every step keeps the invariant of the trades.                           *)
LEMMA TradeStep ==
  ASSUME TradeInv, [TradeNext]_tradeVars
  PROVE  TradeInv'
<1>1. CASE UNCHANGED <<traded, frames, buffers, handed, read>>
  BY <1>1 DEF TradeInv, TradeTypes, HandedOnce, ReadInOrder, FramesInOrder
<1>2. ASSUME NEW t \in Tickers, UnheardTrade(t)
      PROVE  TradeInv'
  <2>1. /\ traded' = [traded EXCEPT ![t] = @ + 1] /\ UNCHANGED <<frames, buffers, handed, read>>
    BY <1>2 DEF UnheardTrade
  <2>2. \A u \in Tickers : traded'[u] \in Nat /\ traded[u] \in Nat /\ traded[u] <= traded'[u]
    BY <2>1 DEF TradeInv, TradeTypes
  <2>3. \A u \in Tickers, s \in Seq(Nat) : Upto(s, traded[u]) => Upto(s, traded'[u])
    <3> SUFFICES ASSUME NEW u \in Tickers, NEW s \in Seq(Nat), Upto(s, traded[u]),
                        NEW i \in 1 .. Len(s)
                 PROVE  s[i] <= traded'[u]
      BY DEF Upto
    <3>1. s[i] \in Nat /\ s[i] <= traded[u]
      BY DEF Upto
    <3> QED
      BY <2>2, <3>1
  <2>4. TradeTypes' /\ HandedOnce' /\ ReadInOrder'
    BY <2>1, <2>3 DEF TradeInv, TradeTypes, HandedOnce, ReadInOrder
  <2>5. FramesInOrder'
    BY <2>1, <2>3, FramesTyped DEF TradeInv, FramesInOrder
  <2> QED
    BY <2>4, <2>5 DEF TradeInv
<1>3. CASE UnreadableTrades
  <2>1. /\ frames # <<>> /\ frames' = Tail(frames) /\ UNCHANGED <<traded, read>>
        /\ Flush(buffers) \/ UNCHANGED <<buffers, handed>>
    BY <1>3 DEF UnreadableTrades
  <2>2. /\ frames' \in Seq([ticker : Tickers, trades : Seq(Nat)]) /\ Len(frames') \in Nat
        /\ \A k \in 1 .. Len(frames') : k + 1 \in 1 .. Len(frames) /\ frames'[k] = frames[k + 1]
    BY <2>1, TailInOrder
  <2>3. TradeTypes' /\ HandedOnce'
    BY <2>1, <2>2, FlushHandsOn DEF TradeInv, TradeTypes, HandedOnce
  <2>4. ReadInOrder'
    BY <2>1 DEF TradeInv, ReadInOrder
  <2>5. ASSUME NEW k \in 1 .. Len(frames')
        PROVE  /\ Ascending(frames'[k].trades)
               /\ Upto(frames'[k].trades, traded'[frames'[k].ticker])
               /\ AllBefore(read'[frames'[k].ticker], frames'[k].trades)
    BY <2>1, <2>2 DEF TradeInv, FramesInOrder
  <2>6. ASSUME NEW k \in 1 .. Len(frames'), NEW l \in 1 .. Len(frames'), k < l,
                frames'[k].ticker = frames'[l].ticker
        PROVE  AllBefore(frames'[k].trades, frames'[l].trades)
    <3>1. /\ k + 1 \in 1 .. Len(frames) /\ l + 1 \in 1 .. Len(frames) /\ k + 1 < l + 1
          /\ frames'[k] = frames[k + 1] /\ frames'[l] = frames[l + 1]
      BY <2>2, <2>6
    <3> QED
      BY <2>6, <3>1 DEF TradeInv, FramesInOrder
  <2> QED
    BY <2>3, <2>4, <2>5, <2>6 DEF TradeInv, FramesInOrder
<1>4. CASE StreamCloses
  <2>1. frames' = <<>> /\ Flush(buffers) /\ UNCHANGED <<traded, read>>
    BY <1>4 DEF StreamCloses
  <2>2. TradeTypes' /\ HandedOnce'
    <3>1. /\ buffers \in [Tickers -> Seq(Nat)] /\ TradeTypes
          /\ \A t \in Tickers : handed[t] \o buffers[t] = read[t]
      BY DEF TradeInv, TradeTypes, HandedOnce
    <3>2. /\ buffers' \in [Tickers -> Seq(Nat)] /\ handed' \in [Tickers -> Seq(Nat)]
          /\ \A t \in Tickers : handed'[t] \o buffers'[t] = handed[t] \o buffers[t]
      BY <2>1, <3>1, FlushHandsOn
    <3>3. frames' \in Seq([ticker : Tickers, trades : Seq(Nat)])
      BY <2>1
    <3>4. TradeTypes'
      BY <2>1, <3>2, <3>3 DEF TradeInv, TradeTypes
    <3>5. HandedOnce'
      BY <2>1, <3>1, <3>2 DEF HandedOnce
    <3> QED
      BY <3>4, <3>5
  <2>3. ReadInOrder'
    BY <2>1 DEF TradeInv, ReadInOrder
  <2> QED
    BY <2>1, <2>2, <2>3, NoFrames
<1>5. CASE PingFails
  <2>1. TradeTypes' /\ HandedOnce' /\ ReadInOrder'
    BY <1>5 DEF PingFails, TradeInv, TradeTypes, HandedOnce, ReadInOrder
  <2> QED
    BY <1>5, <2>1, NoFrames DEF PingFails
<1>6. CASE Resubscribe
  <2>1. /\ frames' = <<>> /\ buffers' = NoTrades /\ read' = handed
        /\ UNCHANGED <<traded, handed>>
    BY <1>6 DEF Resubscribe
  <2>2. TradeTypes' /\ HandedOnce'
    BY <2>1 DEF TradeInv, TradeTypes, HandedOnce, NoTrades
  <2>3. ASSUME NEW t \in Tickers
        PROVE  Ascending(read'[t]) /\ Upto(read'[t], traded'[t])
    <3>1. /\ handed[t] \in Seq(Nat) /\ buffers[t] \in Seq(Nat) /\ traded[t] \in Nat
          /\ Ascending(read[t]) /\ Upto(read[t], traded[t]) /\ handed[t] \o buffers[t] = read[t]
      BY DEF TradeInv, TradeTypes, ReadInOrder, HandedOnce
    <3>2. Ascending(handed[t]) /\ Upto(handed[t], traded[t])
      <4>1. Ascending(handed[t] \o buffers[t]) /\ Upto(handed[t] \o buffers[t], traded[t])
        BY <3>1
      <4> HIDE DEF Ascending, Upto
      <4> QED
        BY <3>1, <4>1, FirstPart
    <3> QED
      BY <2>1, <3>2
  <2> QED
    BY <2>1, <2>2, <2>3, NoFrames DEF ReadInOrder
<1> QED
  BY <1>1, <1>2, <1>3, <1>4, <1>5, <1>6, VenueTradesStep, FrameReadStep
     DEF TradeNext, IntervalPasses, Reconnect, tradeVars

(* Whatever was read from a trade stream is handed on once and in the      *)
(* order it was traded in, over flushes, closed connections, failed pings  *)
(* and new subscriptions, for any number of tickers, frames and trades.    *)
THEOREM TradesAreHandedOnInOrder == TradeSpec => []TradesOnceInOrder
<1>1. TradeInit => TradeInv
  BY DEF TradeInit, NoTrades, TradeInv, TradeTypes, HandedOnce, ReadInOrder, FramesInOrder,
         Ascending, Upto
<1>2. TradeInv => TradesOnceInOrder
  <2> SUFFICES ASSUME TradeInv, NEW t \in Tickers
               PROVE  /\ handed[t] \o buffers[t] = read[t]
                      /\ \A i, j \in DOMAIN read[t] : i < j => read[t][i] < read[t][j]
    BY DEF TradesOnceInOrder
  <2>1. /\ read[t] \in Seq(Nat) /\ Ascending(read[t]) /\ handed[t] \o buffers[t] = read[t]
    BY DEF TradeInv, TradeTypes, ReadInOrder, HandedOnce
  <2>2. DOMAIN read[t] = 1 .. Len(read[t])
    BY <2>1
  <2> QED
    BY <2>1, <2>2 DEF Ascending
<1> QED
  BY <1>1, <1>2, TradeStep, PTL DEF TradeSpec

-----------------------------------------------------------------------------
(* The statistics of the tickers table.                                    *)

(* What is remembered of an exchange's statistics: a request that must not *)
(* wait is one of an exchange that was never asked.                        *)
StatsOk(s) ==
  /\ s = [wait |-> s.wait, inFlight |-> s.inFlight, force |-> s.force, age |-> s.age]
  /\ s.age = [e \in DOMAIN s.age |-> s.age[e]]
  /\ \A e \in DOMAIN s.age : s.age[e] \in 0 .. MinInterval
  /\ s.force \cap DOMAIN s.age = {}

(* An exchange is asked only after the interval.                           *)
NotTooSoon(s, t) ==
  \A e \in t.inFlight \ s.inFlight : EverStarted(s, e) => s.age[e] = MinInterval

(* Starting the requests that are due asks nobody too soon.                *)
LEMMA ScheduledStats ==
  ASSUME NEW s, StatsOk(s), NEW E
  PROVE  StatsOk(Scheduled(s, E)) /\ NotTooSoon(s, Scheduled(s, E))
<1> DEFINE start == Due(s, E)
           t     == Scheduled(s, E)
<1> USE TableAssumption
<1>1. t = [wait |-> s.wait, inFlight |-> s.inFlight \cup start, force |-> s.force \ start,
           age |-> [e \in DOMAIN s.age \cup start |-> IF e \in start THEN 0 ELSE s.age[e]]]
  BY DEF Scheduled, StatsOk
<1>2. \A e \in start : EverStarted(s, e) => s.age[e] = MinInterval
  <2> SUFFICES ASSUME NEW e \in start, e \in DOMAIN s.age
               PROVE  s.age[e] = MinInterval
    BY DEF EverStarted
  <2>1. e \notin s.force /\ s.age[e] \in 0 .. MinInterval
    BY DEF StatsOk
  <2> QED
    BY <2>1 DEF Due, InCooldown, EverStarted
<1> HIDE DEF t, start
<1>3. StatsOk(t)
  BY <1>1 DEF StatsOk
<1>4. NotTooSoon(s, t)
  BY <1>1, <1>2 DEF NotTooSoon
<1> QED
  BY <1>3, <1>4 DEF t

(* Nor does switching an exchange on or off, or its answer.                *)
LEMMA TouchedStats ==
  ASSUME NEW s, StatsOk(s), NEW e
  PROVE  /\ StatsOk(Enabled(s, e)) /\ NotTooSoon(s, Enabled(s, e))
         /\ StatsOk(Disabled(s, e)) /\ NotTooSoon(s, Disabled(s, e))
         /\ StatsOk(Completed(s, e)) /\ NotTooSoon(s, Completed(s, e))
<1>1. Enabled(s, e) =
        [wait |-> Delay, inFlight |-> s.inFlight,
         force |-> IF FirstTime(s, e) THEN s.force \cup {e} ELSE s.force, age |-> s.age]
  BY DEF Enabled, StatsOk
<1>2. Disabled(s, e) =
        [wait |-> s.wait, inFlight |-> s.inFlight, force |-> s.force \ {e}, age |-> s.age]
  BY DEF Disabled, StatsOk
<1>3. Completed(s, e) =
        [wait |-> s.wait, inFlight |-> s.inFlight \ {e}, force |-> s.force, age |-> s.age]
  BY DEF Completed, StatsOk
<1> QED
  BY <1>1, <1>2, <1>3 DEF StatsOk, NotTooSoon, FirstTime, EverStarted

(* Time makes every exchange older, up to the interval.                    *)
LEMMA OlderStats ==
  ASSUME StatsOk(stats), Moment
  PROVE  StatsOk(stats') /\ NotTooSoon(stats, stats')
<1> USE TableAssumption
<1> DEFINE age == [e \in DOMAIN stats.age |->
                     IF stats.age[e] < MinInterval THEN stats.age[e] + 1 ELSE stats.age[e]]
<1>1. stats' = [wait |-> IF stats.wait > 0 THEN stats.wait - 1 ELSE stats.wait,
                inFlight |-> stats.inFlight, force |-> stats.force, age |-> age]
  BY DEF Moment, StatsOk
<1>2. \A e \in DOMAIN age : age[e] \in 0 .. MinInterval
  BY DEF StatsOk
<1>3. DOMAIN age = DOMAIN stats.age /\ age = [e \in DOMAIN age |-> age[e]]
  OBVIOUS
<1> HIDE DEF age
<1> QED
  BY <1>1, <1>2, <1>3 DEF StatsOk, NotTooSoon

(* No step asks an exchange too soon.                                      *)
LEMMA StatsStep ==
  ASSUME StatsOk(stats), [TableNext]_tableVars
  PROVE  StatsOk(stats') /\ NotTooSoon(stats, stats')
<1>1. CASE UNCHANGED stats
  BY <1>1 DEF NotTooSoon
<1>2. ASSUME NEW a \in answers, NEW T, UpdateMetadata(a, T)
      PROVE  StatsOk(stats') /\ NotTooSoon(stats, stats')
  BY <1>1, <1>2, ScheduledStats DEF UpdateMetadata
<1>3. ASSUME NEW e, \/ stats' = Enabled(stats, e)
                    \/ stats' = Disabled(stats, e)
                    \/ stats' = Completed(stats, e)
      PROVE  StatsOk(stats') /\ NotTooSoon(stats, stats')
  BY <1>3, TouchedStats
<1>4. CASE FetchStats
  BY <1>4, ScheduledStats DEF FetchStats, FetchSelected
<1>5. CASE DebounceTick
  <2> DEFINE s == [stats EXCEPT !.wait = NoDelay]
  <2>1. s = [wait |-> NoDelay, inFlight |-> stats.inFlight, force |-> stats.force,
             age |-> stats.age]
    BY DEF StatsOk
  <2>2. StatsOk(s) /\ s.inFlight = stats.inFlight /\ s.age = stats.age
    BY <2>1 DEF StatsOk
  <2>3. PICK E : stats' = Scheduled(s, E)
    BY <1>5 DEF DebounceTick, FetchSelected
  <2> HIDE DEF s
  <2> QED
    BY <2>2, <2>3, ScheduledStats DEF NotTooSoon, EverStarted
<1>6. CASE Moment
  BY <1>6, OlderStats
<1>7. CASE \E a \in answers : MetadataFetchFailed(a)
  BY <1>3, <1>7 DEF MetadataFetchFailed
<1>8. CASE \E e \in Exchanges : ToggleExchangeFilter(e) \/ AnswerComes(e)
  BY <1>3, <1>8 DEF ToggleExchangeFilter, AnswerComes, UpdateStats, StatsFetchFailed
<1>9. CASE \/ UNCHANGED tableVars
           \/ \E option \in {"Asc", "Desc"} : ChangeSortOption(option)
           \/ \E t \in Starred : FavoriteTicker(t)
  BY <1>1, <1>9 DEF tableVars, ChangeSortOption, FavoriteTicker
<1> QED
  BY <1>2, <1>4, <1>5, <1>6, <1>7, <1>8, <1>9 DEF TableNext

(* No exchange is asked for its statistics twice within the interval,      *)
(* whatever the timer, the metadata and the user's selection do: for any   *)
(* exchanges, tickers and interval.                                        *)
THEOREM StatisticsAreSpared == TableSpec => StatsAreSpared
<1>1. TableInit => StatsOk(stats)
  BY DEF TableInit, StatsOk
<1>2. StatsOk(stats) /\ [TableNext]_tableVars => StatsOk(stats)'
  BY StatsStep DEF StatsOk
<1>3. StatsOk(stats) /\ [TableNext]_tableVars
        => [\A e \in stats'.inFlight \ stats.inFlight :
              EverStarted(stats, e) => stats.age[e] = MinInterval]_tableVars
  BY StatsStep DEF NotTooSoon
<1> QED
  BY <1>1, <1>2, <1>3, PTL DEF TableSpec, StatsAreSpared

-----------------------------------------------------------------------------
(* The rows of the tickers table.                                          *)

(* One row for each of the tickers T.                                      *)
HasRows(s, T) ==
  /\ s \in Seq(Row)
  /\ \A i, j \in DOMAIN s : s[i].ticker = s[j].ticker => i = j
  /\ {s[i].ticker : i \in DOMAIN s} = T

(* The stars are those of favs.                                            *)
Stars(s, favs) == \A i \in DOMAIN s : s[i].favorited <=> s[i].ticker \in favs

(* A sequence of as many different elements as a finite set has names all  *)
(* of them.                                                                *)
LEMMA NamesAll ==
  ASSUME NEW S, IsFiniteSet(S), NEW f \in [1 .. Cardinality(S) -> S],
         \A i, j \in DOMAIN f : f[i] = f[j] => i = j
  PROVE  f \in Seq(S) /\ \A x \in S : \E i \in DOMAIN f : f[i] = x
<1> DEFINE n == Cardinality(S)
<1>1. n \in Nat
  BY FS_CardinalityType
<1>2. IsFiniteSet(1 .. n) /\ Cardinality(1 .. n) = n
  BY <1>1, FS_Interval
<1>3. f \in Injection(1 .. n, S)
  BY DEF Injection, IsInjective
<1>4. f \in Surjection(1 .. n, S)
  BY <1>2, <1>3, FS_Injection
<1> QED
  BY <1>1, <1>4 DEF Surjection

(* A finite set can be laid out as a sequence.                             *)
LEMMA LaidOut ==
  ASSUME NEW S, IsFiniteSet(S)
  PROVE  /\ SetToSeq(S) \in Seq(S)
         /\ \A i, j \in DOMAIN SetToSeq(S) : SetToSeq(S)[i] = SetToSeq(S)[j] => i = j
         /\ \A x \in S : \E i \in DOMAIN SetToSeq(S) : SetToSeq(S)[i] = x
<1>1. \E f \in [1 .. Cardinality(S) -> S] : IsInjective(f)
  BY FS_CardinalityType DEF ExistsBijection, Bijection, Injection
<1>2. SetToSeq(S) \in [1 .. Cardinality(S) -> S] /\ IsInjective(SetToSeq(S))
  BY <1>1 DEF SetToSeq
<1> QED
  BY <1>2, NamesAll DEF IsInjective

(* The elements of a sequence are finitely many.                           *)
LEMMA FiniteRange ==
  ASSUME NEW S, NEW s \in Seq(S)
  PROVE  IsFiniteSet(Range(s))
<1>1. Len(s) \in Nat /\ s \in [1 .. Len(s) -> Range(s)]
  BY DEF Range
<1>2. s \in Surjection(1 .. Len(s), Range(s))
  BY <1>1 DEF Surjection, Range
<1> QED
  BY <1>1, <1>2, FS_Interval, FS_Surjection

(* Rows in another order are the same rows.                                *)
LEMMA ReorderedRows ==
  ASSUME NEW T, NEW favs, NEW s, HasRows(s, T), Stars(s, favs),
         NEW r \in SetToSeqs(Range(s))
  PROVE  HasRows(r, T) /\ Stars(r, favs)
<1> DEFINE S == Range(s)
<1>1. s \in Seq(Row) /\ IsFiniteSet(S)
  BY FiniteRange DEF HasRows
<1>2. /\ r \in [1 .. Cardinality(S) -> S]
      /\ \A i, j \in DOMAIN r : r[i] = r[j] => i = j
  BY DEF SetToSeqs
<1>3. r \in Seq(S) /\ \A x \in S : \E i \in DOMAIN r : r[i] = x
  BY <1>1, <1>2, NamesAll
<1>4. \A i \in DOMAIN r : \E k \in DOMAIN s : r[i] = s[k]
  BY <1>2 DEF Range
<1>5. \A k \in DOMAIN s : \E i \in DOMAIN r : r[i] = s[k]
  BY <1>3 DEF Range
<1>6. S \subseteq Row
  BY <1>1 DEF Range
<1>7. r \in Seq(Row)
  BY <1>3, <1>6
<1> HIDE DEF S
<1>8. \A i, j \in DOMAIN r : r[i].ticker = r[j].ticker => i = j
  BY <1>2, <1>4 DEF HasRows
<1>9. {r[i].ticker : i \in DOMAIN r} = T
  BY <1>4, <1>5 DEF HasRows
<1> QED
  BY <1>4, <1>7, <1>8, <1>9 DEF HasRows, Stars

(* The index finds each row.                                               *)
LEMMA IndexFinds ==
  ASSUME NEW T, NEW s, HasRows(s, T)
  PROVE  /\ DOMAIN IndexOf(s) = T
         /\ \A i \in DOMAIN s : IndexOf(s)[s[i].ticker] = i
BY DEF HasRows, IndexOf

(* A new row is a row.                                                     *)
LEMMA NewRows ==
  ASSUME NEW t \in Symbols
  PROVE  /\ NewRow(t, 0) \in Row /\ NewRow(t, 0).ticker = t
         /\ NewRow(t, 0).favorited <=> t \in favorites
<1>1. (t \in favorites) \in BOOLEAN
  OBVIOUS
<1>2. NewRow(t, 0) \in Row
  BY <1>1 DEF NewRow, Row
<1>3. NewRow(t, 0).ticker = t
  BY DEF NewRow
<1>4. NewRow(t, 0).favorited = (t \in favorites)
  BY Zenon DEF NewRow
<1> QED
  BY <1>2, <1>3, <1>4

(* Rows are added for tickers that have none.                              *)
LEMMA AddedRows ==
  ASSUME NEW T, NEW s, HasRows(s, T), Stars(s, favorites),
         NEW U, U \subseteq Symbols, IsFiniteSet(U)
  PROVE  /\ HasRows(WithRows(s, U), T \cup U) /\ Stars(WithRows(s, U), favorites)
         /\ WithRows(s, U) = s => U \subseteq T
<1> DEFINE fresh == U \ T
           new   == {NewRow(t, 0) : t \in fresh}
           q     == SetToSeq(new)
           g     == [t \in fresh |-> NewRow(t, 0)]
<1>1. IsFiniteSet(fresh)
  BY FS_Difference
<1>2. g \in Surjection(fresh, new)
  BY DEF Surjection
<1>3. IsFiniteSet(new)
  BY <1>1, <1>2, FS_Surjection
<1>4. new \subseteq Row
  BY NewRows
<1>5. /\ q \in Seq(new)
      /\ \A i, j \in DOMAIN q : q[i] = q[j] => i = j
      /\ \A x \in new : \E i \in DOMAIN q : q[i] = x
  BY <1>3, LaidOut
<1>6. WithRows(s, U) = s \o q
  BY DEF WithRows, HasRows
<1>7. \A i \in DOMAIN q : q[i].ticker \in fresh /\ q[i] = NewRow(q[i].ticker, 0)
  BY <1>5 DEF NewRow
<1>8. \A t \in fresh : \E i \in DOMAIN q : q[i].ticker = t
  <2>1. \A t \in fresh : NewRow(t, 0) \in new /\ NewRow(t, 0).ticker = t
    BY NewRows
  <2> HIDE DEF q, new
  <2> QED
    BY <1>5, <2>1
<1> HIDE DEF q, new, g
<1>9. \A i \in DOMAIN q : q[i].favorited <=> q[i].ticker \in favorites
  BY <1>7, NewRows
<1>10. q \in Seq(Row) /\ s \in Seq(Row)
  BY <1>4, <1>5 DEF HasRows
<1>11. \A i, j \in DOMAIN q : q[i].ticker = q[j].ticker => i = j
  BY <1>5, <1>7
<1> DEFINE r == s \o q
<1>12. /\ r \in Seq(Row) /\ Len(r) = Len(s) + Len(q)
       /\ \A i \in 1 .. Len(s) : r[i] = s[i]
       /\ \A i \in 1 .. Len(q) : r[Len(s) + i] = q[i]
       /\ DOMAIN s = 1 .. Len(s) /\ DOMAIN q = 1 .. Len(q) /\ DOMAIN r = 1 .. Len(r)
       /\ Len(s) \in Nat /\ Len(q) \in Nat
  BY <1>10, ConcatProperties
<1> HIDE DEF r
<1>13. \A i \in DOMAIN r : \/ i \in DOMAIN s /\ r[i] = s[i]
                           \/ /\ i - Len(s) \in DOMAIN q /\ r[i] = q[i - Len(s)]
                              /\ i \notin DOMAIN s
  <2> SUFFICES ASSUME NEW i \in DOMAIN r, i \notin DOMAIN s
               PROVE  i - Len(s) \in DOMAIN q /\ r[i] = q[i - Len(s)]
    BY <1>12
  <2>1. i - Len(s) \in 1 .. Len(q) /\ Len(s) + (i - Len(s)) = i
    BY <1>12
  <2> QED
    BY <1>12, <2>1
<1>14. \A i \in DOMAIN s : i \in DOMAIN r /\ r[i] = s[i]
  BY <1>12
<1>15. \A i \in DOMAIN q : Len(s) + i \in DOMAIN r /\ r[Len(s) + i] = q[i]
  BY <1>12
<1>16. \A i \in DOMAIN s : s[i].ticker \in T
  BY DEF HasRows
<1>17. \A i, j \in DOMAIN r : r[i].ticker = r[j].ticker => i = j
  <2> SUFFICES ASSUME NEW i \in DOMAIN r, NEW j \in DOMAIN r, r[i].ticker = r[j].ticker
               PROVE  i = j
    OBVIOUS
  <2>1. CASE i \in DOMAIN s /\ j \in DOMAIN s
    BY <2>1, <1>14 DEF HasRows
  <2>2. CASE i \notin DOMAIN s /\ j \notin DOMAIN s
    <3>1. i - Len(s) = j - Len(s)
      BY <2>2, <1>11, <1>13
    <3> QED
      BY <3>1, <1>12
  <2>3. CASE i \in DOMAIN s /\ j \notin DOMAIN s
    BY <2>3, <1>7, <1>13, <1>14, <1>16
  <2>4. CASE i \notin DOMAIN s /\ j \in DOMAIN s
    BY <2>4, <1>7, <1>13, <1>14, <1>16
  <2> QED
    BY <2>1, <2>2, <2>3, <2>4
<1>18. {r[i].ticker : i \in DOMAIN r} = T \cup U
  <2>1. \A i \in DOMAIN r : r[i].ticker \in T \cup U
    BY <1>7, <1>13, <1>16
  <2>2. \A t \in T : \E i \in DOMAIN r : r[i].ticker = t
    <3>1. \A t \in T : \E i \in DOMAIN s : s[i].ticker = t
      BY DEF HasRows
    <3> QED
      BY <3>1, <1>14
  <2>3. \A t \in fresh : \E i \in DOMAIN r : r[i].ticker = t
    BY <1>8, <1>15
  <2> QED
    BY <2>1, <2>2, <2>3
<1>19. Stars(r, favorites)
  BY <1>9, <1>13 DEF Stars
<1>20. r = s => U \subseteq T
  BY <1>18 DEF HasRows
<1>21. HasRows(r, T \cup U)
  BY <1>12, <1>17, <1>18 DEF HasRows
<1>22. r = WithRows(s, U)
  BY <1>6 DEF r
<1> QED
  BY <1>19, <1>20, <1>21, <1>22

(* The index finds each row of s.                                          *)
Indexes(index, s, T) == DOMAIN index = T /\ \A i \in DOMAIN s : index[s[i].ticker] = i

(* The rows are those of the tickers, with their stars, and are found.     *)
RowsAreRight(s, index, info, favs) ==
  HasRows(s, DOMAIN info) /\ Stars(s, favs) /\ Indexes(index, s, DOMAIN info)

(* The tickers and the exchanges are known ones.                           *)
TableTypes ==
  /\ DOMAIN tickersInfo \subseteq Symbols /\ sortOption \in {"Asc", "Desc"}
  /\ \A a \in answers : a.exchange \in Exchanges

(* The rows are in order when no exchange's statistics are awaited.        *)
InOrder == stats.inFlight = {} => InSortedOrder(rows, sortOption)

(* The inductive invariant of the table.                                   *)
TableInv ==
  /\ TableTypes /\ StatsOk(stats)
  /\ RowsAreRight(rows, rowIndex, tickersInfo, favorites)
  /\ InOrder

(* Sorting leaves the same rows, in order, and an index that finds them.   *)
LEMMA SortedRows ==
  ASSUME NEW s, NEW info, NEW favs, NEW option,
         HasRows(s, DOMAIN info), Stars(s, favs), Sorted(s, option)
  PROVE  RowsAreRight(rows', rowIndex', info, favs) /\ InSortedOrder(rows', option)
<1>1. PICK r \in SetToSeqs(Range(s)) : InSortedOrder(r, option) /\ rows' = r
  BY DEF Sorted
<1>2. HasRows(rows', DOMAIN info) /\ Stars(rows', favs)
  BY <1>1, ReorderedRows
<1>3. rowIndex' = IndexOf(rows')
  BY DEF Sorted, RebuildIndex
<1>4. Indexes(rowIndex', rows', DOMAIN info)
  BY <1>2, <1>3, IndexFinds DEF Indexes
<1> QED
  BY <1>1, <1>2, <1>4 DEF RowsAreRight

(* A function from 1 .. n whose values are in S is a sequence over S.      *)
LEMMA ListedRows ==
  ASSUME NEW S, NEW n \in Nat, NEW s, s = [i \in 1 .. n |-> s[i]], \A i \in 1 .. n : s[i] \in S
  PROVE  s \in Seq(S)
OBVIOUS

(* The answer of an exchange puts values in rows, whose tickers and stars  *)
(* stay.                                                                   *)
LEMMA RowsGetValues ==
  ASSUME NEW s, s \in Seq(Row), DOMAIN s = DOMAIN rows, TableInv,
         \A i \in DOMAIN rows : s[i].ticker = rows[i].ticker
                               /\ (s[i].favorited <=> rows[i].favorited),
         NEW left, SortWhenAllCame(s, left)
  PROVE  /\ RowsAreRight(rows', rowIndex', tickersInfo, favorites)
         /\ left = {} => InSortedOrder(rows', sortOption)
<1> DEFINE T == DOMAIN tickersInfo
<1>a. HasRows(rows, T) /\ Stars(rows, favorites)
  BY DEF TableInv, RowsAreRight
<1> HIDE DEF T
<1>b. HasRows(s, T)
  BY <1>a DEF HasRows
<1>c. Stars(s, favorites)
  BY <1>a DEF Stars
<1>1. HasRows(s, DOMAIN tickersInfo) /\ Stars(s, favorites)
  BY <1>b, <1>c DEF T
<1>2. CASE left = {}
  BY <1>1, <1>2, SortedRows DEF SortWhenAllCame
<1>3. CASE left # {}
  <2>1. rows' = s /\ rowIndex' = rowIndex
    BY <1>3 DEF SortWhenAllCame, InPlace
  <2>2. Indexes(rowIndex, s, DOMAIN tickersInfo)
    BY DEF TableInv, RowsAreRight, Indexes
  <2> QED
    BY <1>1, <1>3, <2>1, <2>2 DEF RowsAreRight
<1> QED
  BY <1>2, <1>3

(* The tickers of an exchange are finitely many.                           *)
LEMMA ListingIs ==
  ASSUME NEW e \in Exchanges
  PROVE  Listing[e] \subseteq Symbols /\ IsFiniteSet(Listing[e])
BY TableAssumption DEF Symbols

(* Tickers of an exchange arrive.                                          *)
LEMMA MetadataRows ==
  ASSUME TableInv, NEW a \in answers, NEW U, U \subseteq Symbols, IsFiniteSet(U),
         UpdateMetadata(a, U)
  PROVE  TableTypes' /\ RowsAreRight(rows, rowIndex, tickersInfo, favorites)' /\ InOrder'
<1> DEFINE s == WithRows(rows, U)
<1>1. a.exchange \in Exchanges
  BY DEF TableInv, TableTypes
<1>2. /\ HasRows(rows, DOMAIN tickersInfo) /\ Stars(rows, favorites)
      /\ Indexes(rowIndex, rows, DOMAIN tickersInfo)
  BY DEF TableInv, RowsAreRight
<1>3. /\ HasRows(s, DOMAIN tickersInfo \cup U) /\ Stars(s, favorites)
      /\ s = rows => U \subseteq DOMAIN tickersInfo
  BY <1>1, <1>2, AddedRows
<1>4. /\ DOMAIN tickersInfo' = DOMAIN tickersInfo \cup U
      /\ favorites' = favorites /\ sortOption' = sortOption /\ answers' = answers \ {a}
      /\ IF s = rows THEN UNCHANGED <<rows, rowIndex>> ELSE Sorted(s, sortOption)
      /\ stats'.inFlight = {} => stats.inFlight = {}
  BY DEF UpdateMetadata, sortVars, Scheduled
<1> HIDE DEF s
<1>5. TableTypes'
  BY <1>1, <1>4 DEF TableInv, TableTypes
<1>6. CASE s = rows
  <2>1. DOMAIN tickersInfo' = DOMAIN tickersInfo /\ rows' = rows /\ rowIndex' = rowIndex
    BY <1>3, <1>4, <1>6
  <2> QED
    BY <1>2, <1>4, <1>5, <2>1 DEF TableInv, RowsAreRight, InOrder
<1>7. CASE s # rows
  <2>1. /\ RowsAreRight(rows', rowIndex', tickersInfo', favorites)
        /\ InSortedOrder(rows', sortOption)
    BY <1>3, <1>4, <1>7, SortedRows
  <2> QED
    BY <1>4, <1>5, <2>1 DEF InOrder
<1> QED
  BY <1>6, <1>7

(* An exchange's statistics arrive, or do not.                             *)
LEMMA AnsweredRows ==
  ASSUME TableInv, NEW e \in Exchanges, AnswerComes(e)
  PROVE  TableTypes' /\ RowsAreRight(rows, rowIndex, tickersInfo, favorites)' /\ InOrder'
<1> USE TableAssumption
<1>1. UNCHANGED <<tickersInfo, favorites, sortOption, answers>>
  BY DEF AnswerComes, UpdateStats, StatsFetchFailed, sortVars
<1>2. TableTypes'
  BY <1>1 DEF TableInv, TableTypes
<1>3. rows \in Seq(Row)
  BY DEF TableInv, RowsAreRight, HasRows
<1> DEFINE IsAnswered(s) ==
             /\ DOMAIN s = DOMAIN rows
             /\ \A i \in DOMAIN rows : s[i].ticker = rows[i].ticker
                                       /\ (s[i].favorited <=> rows[i].favorited)
             /\ SortWhenAllCame(s, stats'.inFlight)
<1>4. \E s \in Seq(Row) : IsAnswered(s)
  <2>1. CASE StatsFetchFailed(e)
    BY <1>3, <2>1 DEF StatsFetchFailed
  <2>2. ASSUME NEW value \in [Listing[e] -> Values], UpdateStats(e, value)
        PROVE  \E s \in Seq(Row) : IsAnswered(s)
    <3> DEFINE mine == Listing[e] \cap DOMAIN tickersInfo
               s    == [i \in DOMAIN rows |->
                          IF rows[i].ticker \in mine
                          THEN [rows[i] EXCEPT !.value = value[rows[i].ticker]] ELSE rows[i]]
    <3>1. \A i \in DOMAIN rows :
            s[i] \in Row /\ s[i].ticker = rows[i].ticker
            /\ s[i].favorited = rows[i].favorited
      <4> SUFFICES ASSUME NEW i \in DOMAIN rows
                   PROVE  s[i] \in Row /\ s[i].ticker = rows[i].ticker
                          /\ s[i].favorited = rows[i].favorited
        OBVIOUS
      <4>1. rows[i] \in Row
        BY <1>3
      <4>2. CASE rows[i].ticker \in mine
        <5>1. value[rows[i].ticker] \in Values
          BY <4>2
        <5>2. s[i] = [rows[i] EXCEPT !.value = value[rows[i].ticker]]
          BY <4>2
        <5> HIDE DEF s, mine
        <5> QED
          BY <4>1, <5>1, <5>2 DEF Row
      <4>3. CASE rows[i].ticker \notin mine
        BY <4>1, <4>3
      <4> QED
        BY <4>2, <4>3
    <3>2. SortWhenAllCame(s, stats'.inFlight)
      BY <2>2 DEF UpdateStats
    <3>3. DOMAIN s = DOMAIN rows
      OBVIOUS
    <3> HIDE DEF s
    <3>4. s \in Seq(Row)
      <4>1. DOMAIN s = 1 .. Len(rows) /\ Len(rows) \in Nat
        BY <1>3, <3>3
      <4>2. s = [i \in 1 .. Len(rows) |-> s[i]]
        BY <4>1 DEF s
      <4> QED
        BY <3>1, <4>1, <4>2, <3>3, ListedRows
    <3> QED
      BY <3>1, <3>2, <3>3, <3>4
  <2> QED
    BY <2>1, <2>2 DEF AnswerComes
<1>5. PICK s \in Seq(Row) : IsAnswered(s)
  BY <1>4
<1>6. /\ RowsAreRight(rows', rowIndex', tickersInfo, favorites)
      /\ stats'.inFlight = {} => InSortedOrder(rows', sortOption)
  BY <1>5, RowsGetValues
<1> QED
  BY <1>1, <1>2, <1>6 DEF InOrder

(* A star is set or taken away.                                            *)
LEMMA StarredRows ==
  ASSUME TableInv, NEW t, FavoriteTicker(t)
  PROVE  TableTypes' /\ RowsAreRight(rows, rowIndex, tickersInfo, favorites)' /\ InOrder'
<1> DEFINE i == rowIndex[t]
           T == DOMAIN tickersInfo
<1>1. HasRows(rows, T) /\ Stars(rows, favorites) /\ Indexes(rowIndex, rows, T)
  BY DEF TableInv, RowsAreRight
<1>2. t \in T
  BY <1>1 DEF FavoriteTicker, Indexes
<1>3. i \in DOMAIN rows /\ rows[i].ticker = t
  BY <1>1, <1>2 DEF HasRows, Indexes
<1>4. /\ rows' = [rows EXCEPT ![i].favorited = ~@]
      /\ favorites' = IF rows'[i].favorited THEN favorites \cup {t} ELSE favorites \ {t}
      /\ UNCHANGED <<tickersInfo, rowIndex, sortOption, answers, stats>>
  BY DEF FavoriteTicker
<1>5. rows \in Seq(Row)
  BY <1>1 DEF HasRows
<1> HIDE DEF i, T
<1>6. /\ rows' \in Seq(Row) /\ DOMAIN rows' = DOMAIN rows
      /\ \A k \in DOMAIN rows : k # i => rows'[k] = rows[k]
      /\ rows'[i] = [rows[i] EXCEPT !.favorited = ~rows[i].favorited]
  <2>1. rows[i] \in Row
    BY <1>3, <1>5
  <2>2. [rows[i] EXCEPT !.favorited = ~rows[i].favorited] \in Row
    BY <2>1 DEF Row
  <2> QED
    BY <1>3, <1>4, <1>5, <2>2
<1>7. /\ rows'[i].ticker = t /\ rows'[i].value = rows[i].value
      /\ rows'[i].favorited <=> ~rows[i].favorited
  <2>1. PICK row \in Row : row = rows[i]
    BY <1>3, <1>5
  <2>2. rows'[i] = [ticker |-> row.ticker, value |-> row.value, favorited |-> ~row.favorited]
    BY <1>6, <2>1 DEF Row
  <2>3. rows'[i].ticker = row.ticker /\ rows'[i].value = row.value
    BY <2>2
  <2>4. rows'[i].favorited = ~row.favorited
    BY <2>2
  <2> QED
    BY <1>3, <2>1, <2>3, <2>4
<1>8. \A k \in DOMAIN rows : rows'[k].ticker = rows[k].ticker /\ rows'[k].value = rows[k].value
  BY <1>3, <1>6, <1>7
<1>9. HasRows(rows', T) /\ Indexes(rowIndex, rows', T)
  BY <1>1, <1>6, <1>8 DEF HasRows, Indexes
<1>10. Stars(rows', favorites')
  <2> SUFFICES ASSUME NEW k \in DOMAIN rows
               PROVE  rows'[k].favorited <=> rows'[k].ticker \in favorites'
    BY <1>6 DEF Stars
  <2>1. CASE k = i
    BY <2>1, <1>4, <1>7
  <2>2. CASE k # i
    <3>1. rows[k].ticker # t /\ rows'[k] = rows[k]
      BY <2>2, <1>1, <1>3, <1>6 DEF HasRows
    <3>2. rows[k].favorited <=> rows[k].ticker \in favorites
      BY <1>1 DEF Stars
    <3>3. \A x : x # t => (x \in favorites' <=> x \in favorites)
      BY <1>4
    <3> QED
      BY <3>1, <3>2, <3>3
  <2> QED
    BY <2>1, <2>2
<1>11. InSortedOrder(rows, sortOption) => InSortedOrder(rows', sortOption)
  BY <1>6, <1>8 DEF InSortedOrder, Before
<1>12. TableTypes' /\ InOrder'
  BY <1>4, <1>11 DEF TableInv, TableTypes, InOrder
<1> QED
  BY <1>4, <1>9, <1>10, <1>12 DEF RowsAreRight, T

(* Nothing but an answer ends a request for statistics.                    *)
LEMMA InFlightStays ==
  ASSUME StatsOk(stats), NEW e, NEW E
  PROVE  /\ Enabled(stats, e).inFlight = stats.inFlight
         /\ Disabled(stats, e).inFlight = stats.inFlight
         /\ stats.inFlight \subseteq Scheduled(stats, E).inFlight
         /\ stats.inFlight \subseteq Scheduled([stats EXCEPT !.wait = NoDelay], E).inFlight
<1>1. Enabled(stats, e).inFlight = stats.inFlight
  BY DEF Enabled
<1>2. Disabled(stats, e).inFlight = stats.inFlight
  BY DEF Disabled, StatsOk
<1>3. \A s : s.inFlight \subseteq Scheduled(s, E).inFlight
  BY DEF Scheduled
<1>4. [stats EXCEPT !.wait = NoDelay].inFlight = stats.inFlight
  BY DEF StatsOk
<1> QED
  BY <1>1, <1>2, <1>3, <1>4

(* Every step keeps the rows right, and in order.                          *)
LEMMA TableStep ==
  ASSUME TableInv, [TableNext]_tableVars
  PROVE  TableTypes' /\ RowsAreRight(rows, rowIndex, tickersInfo, favorites)' /\ InOrder'
<1> DEFINE Goal == TableTypes' /\ RowsAreRight(rows, rowIndex, tickersInfo, favorites)' /\ InOrder'
<1>1. ASSUME UNCHANGED <<tickersInfo, rows, rowIndex, sortVars>>,
             answers' \subseteq answers, stats'.inFlight = {} => stats.inFlight = {}
      PROVE  Goal
  BY <1>1 DEF sortVars, TableInv, TableTypes, InOrder
<1> HIDE DEF Goal
<1>2. CASE UNCHANGED tableVars
  BY <1>1, <1>2 DEF Goal, tableVars, sortVars
<1>3. CASE \E a \in answers : UpdateMetadata(a, Listing[a.exchange])
  <2>1. \A a \in answers : a.exchange \in Exchanges
    BY DEF TableInv, TableTypes
  <2> QED
    BY <1>3, <2>1, ListingIs, MetadataRows DEF Goal
<1>4. CASE \E a \in answers : MetadataFetchFailed(a)
  BY <1>1, <1>4, InFlightStays DEF Goal, MetadataFetchFailed, TableInv
<1>5. CASE \E e \in Exchanges : ToggleExchangeFilter(e)
  BY <1>1, <1>5, InFlightStays DEF Goal, ToggleExchangeFilter, TableInv
<1>6. CASE \E e \in Exchanges : AnswerComes(e)
  BY <1>6, AnsweredRows DEF Goal
<1>7. CASE FetchStats \/ DebounceTick
  <2>1. PICK E : \/ stats' = Scheduled(stats, E)
                 \/ stats' = Scheduled([stats EXCEPT !.wait = NoDelay], E)
    BY <1>7 DEF FetchStats, DebounceTick, FetchSelected
  <2>2. stats.inFlight \subseteq stats'.inFlight
    BY <2>1, InFlightStays DEF TableInv
  <2>3. UNCHANGED <<tickersInfo, rows, rowIndex, sortVars, answers>>
    BY <1>7 DEF FetchStats, DebounceTick
  <2> QED
    BY <1>1, <2>2, <2>3 DEF Goal
<1>8. CASE Moment
  <2>1. stats'.inFlight = stats.inFlight
    BY <1>8 DEF Moment, TableInv, StatsOk
  <2> QED
    BY <1>1, <1>8, <2>1 DEF Goal, Moment
<1>9. ASSUME NEW option \in {"Asc", "Desc"}, ChangeSortOption(option)
      PROVE  Goal
  <2>1. HasRows(rows, DOMAIN tickersInfo) /\ Stars(rows, favorites)
    BY DEF TableInv, RowsAreRight
  <2>2. Sorted(rows, sortOption') /\ UNCHANGED <<tickersInfo, favorites, answers, stats>>
    BY <1>9 DEF ChangeSortOption
  <2>3. /\ RowsAreRight(rows', rowIndex', tickersInfo, favorites)
        /\ InSortedOrder(rows', sortOption')
    BY <2>1, <2>2, SortedRows
  <2>4. sortOption' \in {"Asc", "Desc"}
    <3>1. \E o \in {"Asc", "Desc"} : o # option
      OBVIOUS
    <3> QED
      BY <1>9, <3>1 DEF ChangeSortOption
  <2> QED
    BY <2>2, <2>3, <2>4 DEF Goal, TableInv, TableTypes, InOrder
<1>10. CASE \E t \in Starred : FavoriteTicker(t)
  BY <1>10, StarredRows DEF Goal
<1> QED
  BY <1>2, <1>3, <1>4, <1>5, <1>6, <1>7, <1>8, <1>9, <1>10 DEF TableNext, Goal

(* The invariant holds initially.                                          *)
LEMMA TableStart ==
  ASSUME TableInit
  PROVE  TableInv
<1>1. rows = <<>> /\ DOMAIN rows = {} /\ rows \in Seq(Row)
  BY DEF TableInit
<1>2. DOMAIN tickersInfo = {} /\ DOMAIN rowIndex = {} /\ sortOption = "Desc"
  BY DEF TableInit
<1>3. RowsAreRight(rows, rowIndex, tickersInfo, favorites)
  BY <1>1, <1>2 DEF RowsAreRight, HasRows, Stars, Indexes
<1>4. InOrder
  BY <1>1 DEF InOrder, InSortedOrder
<1>5. \A a \in answers : a.exchange \in Exchanges
  BY DEF TableInit
<1>6. StatsOk(stats)
  BY DEF TableInit, StatsOk
<1> QED
  BY <1>2, <1>3, <1>4, <1>5, <1>6 DEF TableInv, TableTypes

(* The table keeps one row for each ticker it knows, found by the index,   *)
(* with the star that is saved, and in order whenever nothing is awaited:  *)
(* for any exchanges, listings and values, whichever of the rows of equal  *)
(* value the unstable sort puts first.                                     *)
THEOREM TableStaysSound == TableSpec => []TableIsSound
<1>1. TableInit => TableInv
  BY TableStart
<1>2. TableInv /\ [TableNext]_tableVars => TableInv'
  <2> SUFFICES ASSUME TableInv, [TableNext]_tableVars
               PROVE  TableInv'
    OBVIOUS
  <2>1. StatsOk(stats')
    BY StatsStep DEF TableInv
  <2>2. StatsOk(stats)'
    BY <2>1 DEF StatsOk
  <2> QED
    BY <2>2, TableStep DEF TableInv
<1>3. TableInv => TableIsSound
  BY DEF TableInv, RowsAreRight, HasRows, Stars, Indexes, InOrder, TableIsSound
<1> QED
  BY <1>1, <1>2, <1>3, PTL DEF TableSpec

-----------------------------------------------------------------------------
(* Auto-play.                                                              *)

(* While auto-play is to come, the program is in Replay, nothing plays,    *)
(* and neither the user nor a missing session was there before it.         *)
AutoPlayIsDue == autoPlay => inReplay /\ ~playing /\ ~spent

(* Every step keeps auto-play from being stale.                            *)
LEMMA AutoPlayStep ==
  ASSUME AutoPlayIsDue, [StartupNext]_<<tableVars, startVars>>
  PROVE  /\ AutoPlayIsDue'
         /\ playSent' /\ ~playSent => inReplay /\ ~playing /\ ~spent
<1> USE DEF AutoPlayIsDue
<1>1. CASE UNCHANGED replayVars
  BY <1>1 DEF replayVars
<1>2. CASE NoSession
  BY <1>2 DEF NoSession
<1>3. CASE \E m \in resolving : ResolveStreams(m)
  BY <1>3 DEF ResolveStreams, NothingToPlay
<1>4. CASE \E valid \in BOOLEAN : UserPlay(valid) \/ SentPlay(valid)
  BY <1>4 DEF UserPlay, SentPlay, HandlePlay
<1>5. CASE SwitchMode
  BY <1>5 DEF SwitchMode, LeavesReplay
<1>6. CASE SessionRestored \/ LoginSubmit \/ LoginCompleted \/ LoginFailed \/ Tick
  BY <1>1, <1>6 DEF SessionRestored, LoginSubmit, LoginCompleted, LoginFailed, Tick
<1>7. CASE \/ \E a \in answers : MetadataArrives(a) \/ MetadataFails(a)
           \/ \E p \in SavedPanes : RetryInterval(p)
           \/ \E p \in DOMAIN waiting : ClosePane(p) \/ \E t \in Symbols : TickerSelected(p, t)
  BY <1>1, <1>7 DEF MetadataArrives, MetadataFails, RetryInterval, ClosePane, TickerSelected,
                    startVars, replayVars
<1>8. CASE UNCHANGED <<tableVars, startVars>>
  BY <1>1, <1>8 DEF startVars, replayVars
<1> QED
  BY <1>2, <1>3, <1>4, <1>5, <1>6, <1>7, <1>8 DEF StartupNext

(* Auto-play comes once at most, in Replay, and never after the user has   *)
(* played or been to Live: for any panes, tickers and logins, and however  *)
(* often a pane's streams are sent round.                                  *)
THEOREM AutoPlayIsNotStale == StartupSpec => AutoPlayIsNeverStale
<1>1. StartupInit => AutoPlayIsDue
  BY DEF StartupInit, AutoPlayIsDue
<1>2. AutoPlayIsDue /\ [StartupNext]_<<tableVars, startVars>> => AutoPlayIsDue'
  BY AutoPlayStep
<1>3. AutoPlayIsDue /\ [StartupNext]_<<tableVars, startVars>>
        => [playSent' /\ ~playSent => inReplay /\ ~playing /\ ~spent]_startVars
  BY AutoPlayStep
<1> QED
  BY <1>1, <1>2, <1>3, PTL DEF StartupSpec, AutoPlayIsNeverStale

-----------------------------------------------------------------------------
(* The rate limit.                                                         *)

(* What the limiter's records hold, and who holds its lock.                *)
LimiterTypes ==
  /\ clock \in Nat
  /\ bucket \in [tokens : 0 .. Limit, refilled : Nat, used : Nat, updated : 0 .. clock]
  /\ task \in [Tasks -> [phase : {"idle", "waiting", "sent"}, weight : 0 .. Limit,
                         until : Nat, header : Nat]]
  /\ counted \in Nat /\ unheard \in 0 .. counted

(* The lock of the limiter is held from the wait to the answer.            *)
OneAtATime == \A t, u \in Tasks : t # u => task[t].phase = "idle" \/ task[u].phase = "idle"

(* What the venue counted this period and the bucket may know of.          *)
Heard(n) == n # 0 => bucket.used > 0 /\ InThisPeriod(bucket.updated) /\ n <= bucket.used

(* A task that waits is alone, and sends in a period in which nothing has  *)
(* been heard of.                                                          *)
WaitsItOut(t) ==
  task[t].phase = "waiting" =>
    /\ task[t].weight > 0
    /\ counted = unheard \/ clock \div Period < task[t].until \div Period

(* The request of t that is under way was counted in this period.          *)
SentThisPeriod(t) == task[t].phase = "sent" /\ InThisPeriod(task[t].until)

(* While a request is under way, all but it may have been heard of.        *)
InFlightIsKnown(t) ==
  task[t].phase = "sent" =>
    /\ task[t].weight > 0 /\ task[t].header > 0 /\ task[t].until <= clock
    /\ SentThisPeriod(t) => /\ task[t].header = counted
                            /\ task[t].weight <= counted - unheard
                            /\ Heard(counted - unheard - task[t].weight)
    /\ ~SentThisPeriod(t) => counted = unheard

(* The inductive invariant of the limiter.                                 *)
LimiterInv ==
  /\ LimiterTypes /\ OneAtATime
  /\ \A t \in Tasks : WaitsItOut(t) /\ InFlightIsKnown(t)
  /\ (\A t \in Tasks : ~SentThisPeriod(t)) => Heard(counted - unheard)
  /\ LimitIsKept

(* Division with remainder, and what follows for periods and times.        *)
LEMMA Division ==
  ASSUME NEW a \in Nat, NEW b \in Nat \ {0}
  PROVE  /\ a % b \in 0 .. (b - 1)
         /\ a \div b \in Nat
         /\ a = b * (a \div b) + (a % b)
BY Z3

(* Multiples of the period are at least a period apart.                    *)
LEMMA Quotients ==
  ASSUME NEW p \in Nat, NEW q \in Nat, NEW b \in Nat \ {0}, q <= p - 1
  PROVE  b * q + b <= b * p
<1>1. b * p - b * q = b * (p - q)
  BY Z3
<1>2. \A n \in Nat : b * n \in Nat /\ (n >= 1 => b <= b * n)
  BY Z3
<1>3. p - q \in Nat /\ p - q >= 1
  OBVIOUS
<1>4. b <= b * (p - q)
  BY <1>2, <1>3
<1>5. b * p \in Nat /\ b * q \in Nat
  BY <1>2
<1> QED
  BY <1>1, <1>4, <1>5

(* Periods and times.                                                      *)
LEMMA SamePeriod ==
  ASSUME NEW a \in Nat, NEW b \in Nat, a <= b
  PROVE  /\ a \div Period \in Nat /\ b \div Period \in Nat
         /\ a \div Period <= b \div Period
         /\ a \div Period = b \div Period => b - a < Period
<1> DEFINE p == a \div Period
           q == b \div Period
           r == a % Period
           s == b % Period
<1>0. Period \in Nat \ {0}
  BY RateLimiterAssumption
<1>1. /\ p \in Nat /\ q \in Nat /\ r \in 0 .. Period - 1 /\ s \in 0 .. Period - 1
      /\ a = Period * p + r /\ b = Period * q + s
  BY <1>0, Division
<1>2. Period * p \in Nat /\ Period * q \in Nat
  BY <1>0, <1>1, Z3
<1>3. q <= p - 1 => Period * q + Period <= Period * p
  BY <1>0, <1>1, Quotients
<1> HIDE DEF p, q, r, s
<1>4. p <= q
  BY <1>0, <1>1, <1>2, <1>3
<1>5. p = q => b - a < Period
  BY <1>0, <1>1, <1>2
<1> QED
  BY <1>1, <1>4, <1>5 DEF p, q

(* Quotient and remainder are determined by what they add up to.           *)
LEMMA QuotientIs ==
  ASSUME NEW a \in Nat, NEW q \in Nat, NEW b \in Nat \ {0}, NEW r \in 0 .. b - 1, a = b * q + r
  PROVE  a \div b = q /\ a % b = r
<1> DEFINE p == a \div b
           s == a % b
<1>1. p \in Nat /\ s \in 0 .. b - 1 /\ a = b * p + s
  BY Division
<1>2. b * p \in Nat /\ b * q \in Nat
  BY <1>1, Z3
<1>3. (q <= p - 1 => b * q + b <= b * p) /\ (p <= q - 1 => b * p + b <= b * q)
  BY <1>1, Quotients
<1> HIDE DEF p, s
<1>4. p = q
  BY <1>1, <1>2, <1>3
<1>5. s = r
  BY <1>1, <1>2, <1>4
<1> QED
  BY <1>4, <1>5 DEF p, s

(* The second that passes stays in the period or begins the next.          *)
LEMMA NextSecond ==
  ASSUME NEW a \in Nat
  PROVE  IF (a + 1) % Period = 0 THEN a \div Period < (a + 1) \div Period
                                 ELSE a \div Period = (a + 1) \div Period
<1> DEFINE p == a \div Period
           r == a % Period
<1>0. Period \in Nat \ {0}
  BY RateLimiterAssumption
<1>1. p \in Nat /\ r \in 0 .. Period - 1 /\ a = Period * p + r
  BY <1>0, Division
<1>2. Period * p \in Nat /\ Period * (p + 1) = Period * p + Period
  BY <1>0, <1>1, Z3
<1> HIDE DEF p, r
<1>3. CASE r = Period - 1
  <2>1. a + 1 = Period * (p + 1) + 0 /\ p + 1 \in Nat /\ 0 \in 0 .. Period - 1 /\ a + 1 \in Nat
    BY <1>0, <1>1, <1>2, <1>3
  <2>2. (a + 1) \div Period = p + 1 /\ (a + 1) % Period = 0
    BY <1>0, <2>1, QuotientIs
  <2> QED
    BY <1>1, <2>2 DEF p
<1>4. CASE r # Period - 1
  <2>1. PICK n \in 0 .. Period - 1 : a + 1 = Period * p + n /\ n # 0
    BY <1>0, <1>1, <1>2, <1>4
  <2>2. a + 1 \in Nat /\ (a + 1) \div Period = p /\ (a + 1) % Period = n
    BY <1>0, <1>1, <2>1, QuotientIs
  <2> QED
    BY <2>1, <2>2 DEF p
<1> QED
  BY <1>3, <1>4

(* A wait for the next period ends in a later period.                      *)
LEMMA NextPeriodStarts ==
  ASSUME clock \in Nat
  PROVE  NextPeriod \in Nat /\ clock \div Period < NextPeriod \div Period
<1> DEFINE p == clock \div Period
           r == clock % Period
<1>0. Period \in Nat \ {0}
  BY RateLimiterAssumption
<1>1. p \in Nat /\ r \in 0 .. Period - 1 /\ clock = Period * p + r
  BY <1>0, Division
<1>2. Period * p \in Nat /\ Period * (p + 1) = Period * p + Period
  BY <1>0, <1>1, Z3
<1>3. NextPeriod = clock - r + Period
  BY DEF NextPeriod
<1> HIDE DEF p, r
<1>4. NextPeriod = Period * (p + 1) + 0 /\ NextPeriod \in Nat /\ p + 1 \in Nat /\ 0 \in 0 .. Period - 1
  BY <1>0, <1>1, <1>2, <1>3
<1>5. NextPeriod \div Period = p + 1
  BY <1>0, <1>4, QuotientIs
<1> QED
  BY <1>1, <1>4, <1>5 DEF p

(* A request that is sent, by a task that had the lock, when nothing of    *)
(* this period has been heard of or there is room for it.                  *)
LEMMA SentKeeps ==
  ASSUME LimiterInv, LimiterTypes', NEW t \in Tasks, NEW w \in 1 .. Limit, Sent(t, w),
         \A u \in Tasks : u # t => task[u].phase = "idle",
         task[t].phase # "sent",
         bucket'.used = bucket.used, bucket'.updated = bucket.updated,
         counted = unheard \/ bucket.used + w <= Limit
  PROVE  LimiterInv'
<1> DEFINE n == counted - unheard
<1>1. /\ counted \in Nat /\ unheard \in Nat /\ unheard <= counted /\ clock \in Nat
      /\ bucket.used \in Nat /\ bucket.updated \in Nat /\ Limit \in Nat
      /\ counted' = counted + w /\ unheard' = unheard /\ clock' = clock
  BY RateLimiterAssumption DEF LimiterInv, LimiterTypes, Sent
<1>2. /\ task' = [task EXCEPT ![t] = [phase |-> "sent", weight |-> w, until |-> clock,
                                     header |-> counted']]
      /\ task \in [Tasks -> [phase : {"idle", "waiting", "sent"}, weight : 0 .. Limit,
                             until : Nat, header : Nat]]
  BY DEF Sent, LimiterInv, LimiterTypes
<1>3. \A u \in Tasks : u # t => task'[u].phase = "idle"
  BY <1>2
<1>4. /\ task'[t].phase = "sent" /\ task'[t].weight = w /\ task'[t].until = clock
      /\ task'[t].header = counted'
  BY <1>2
<1>5. \A u \in Tasks : ~SentThisPeriod(u)
  BY DEF SentThisPeriod
<1>6. Heard(n)
  BY <1>5 DEF LimiterInv
<1>7. n # 0 => /\ bucket'.used > 0 /\ bucket'.updated \div Period = clock' \div Period
               /\ n <= bucket'.used
  BY <1>1, <1>6 DEF Heard, InThisPeriod
<1>8. OneAtATime'
  BY <1>3 DEF OneAtATime
<1>9. \A u \in Tasks : WaitsItOut(u)'
  BY <1>3, <1>4 DEF WaitsItOut
<1>10. SentThisPeriod(t)'
  BY <1>1, <1>4 DEF SentThisPeriod, InThisPeriod
<1>11. (counted - unheard - task[t].weight)' = n
  BY <1>1, <1>4
<1>12. \A u \in Tasks : InFlightIsKnown(u)'
  <2>1. InFlightIsKnown(t)'
    <3>1. Heard(counted - unheard - task[t].weight)'
      BY <1>7, <1>11 DEF Heard, InThisPeriod
    <3> QED
      BY <1>1, <1>4, <1>10, <3>1 DEF InFlightIsKnown
  <2> QED
    BY <1>3, <2>1 DEF InFlightIsKnown
<1>13. LimitIsKept'
  <2>1. n = 0 \/ bucket.used + w <= Limit
    BY <1>1
  <2>2. n <= bucket.used \/ n = 0
    BY <1>6 DEF Heard
  <2> QED
    BY <1>1, <2>1, <2>2 DEF LimitIsKept
<1> QED
  BY <1>8, <1>9, <1>10, <1>12, <1>13 DEF LimiterInv

(* A request that has to wait, for the next period or until its window     *)
(* has passed.                                                             *)
LEMMA WaitsKeeps ==
  ASSUME LimiterInv, LimiterTypes', LockFree, NEW t \in Tasks, NEW w \in 1 .. Limit, NEW until,
         Waits(t, w, until),
         bucket'.used = bucket.used, bucket'.updated = bucket.updated,
         counted = unheard \/ clock \div Period < until \div Period
  PROVE  LimiterInv'
<1>1. clock' = clock /\ counted' = counted /\ unheard' = unheard
  BY DEF Waits
<1>2. /\ task' = [task EXCEPT ![t] = [Idle EXCEPT !.phase = "waiting", !.weight = w, !.until = until]]
      /\ task \in [Tasks -> [phase : {"idle", "waiting", "sent"}, weight : 0 .. Limit,
                             until : Nat, header : Nat]]
  BY DEF Waits, LimiterInv, LimiterTypes
<1>3. \A u \in Tasks : u # t => task'[u].phase = "idle"
  BY <1>2 DEF LockFree
<1>4. task'[t].phase = "waiting" /\ task'[t].weight = w /\ task'[t].until = until
  BY <1>2 DEF Idle
<1>5. \A u \in Tasks : ~SentThisPeriod(u)
  BY DEF SentThisPeriod, LockFree
<1>6. Heard(counted - unheard)'
  BY <1>1, <1>5 DEF LimiterInv, Heard, InThisPeriod
<1>7. OneAtATime'
  BY <1>3 DEF OneAtATime
<1>8. \A u \in Tasks : WaitsItOut(u)'
  BY <1>1, <1>3, <1>4 DEF WaitsItOut
<1>9. \A u \in Tasks : InFlightIsKnown(u)'
  BY <1>3, <1>4 DEF InFlightIsKnown
<1>10. LimitIsKept'
  BY <1>1 DEF LimiterInv, LimitIsKept
<1> QED
  BY <1>6, <1>7, <1>8, <1>9, <1>10 DEF LimiterInv

(* The tasks that are known to the type.                                   *)
LEMMA TaskFacts ==
  ASSUME LimiterTypes, NEW t \in Tasks
  PROVE  /\ task[t].phase \in {"idle", "waiting", "sent"} /\ task[t].weight \in 0 .. Limit
         /\ task[t].until \in Nat /\ task[t].header \in Nat
         /\ clock \in Nat /\ counted \in Nat /\ unheard \in Nat /\ unheard <= counted
         /\ bucket.used \in Nat /\ bucket.updated \in Nat /\ bucket.updated <= clock
BY DEF LimiterTypes

(* Every action keeps the records to their types.                          *)
LEMMA SentTyped ==
  ASSUME LimiterTypes, NEW t \in Tasks, NEW w \in 1 .. Limit, Sent(t, w),
         bucket' \in [tokens : 0 .. Limit, refilled : Nat, used : Nat, updated : 0 .. clock]
  PROVE  LimiterTypes'
<1>1. clock' = clock /\ unheard' = unheard /\ counted' = counted + w
  BY DEF Sent
<1>2. clock \in Nat /\ counted' \in Nat /\ unheard' \in 0 .. counted'
  BY <1>1 DEF LimiterTypes
<1>3. Limit \in Nat /\ w \in 0 .. Limit
  BY RateLimiterAssumption
<1>4. task' \in [Tasks -> [phase : {"idle", "waiting", "sent"}, weight : 0 .. Limit,
                          until : Nat, header : Nat]]
  BY <1>2, <1>3 DEF Sent, LimiterTypes
<1> QED
  BY <1>1, <1>2, <1>4 DEF LimiterTypes

(* A task that waits is of its type.                                       *)
LEMMA WaitsTyped ==
  ASSUME LimiterTypes, NEW t \in Tasks, NEW w \in 1 .. Limit, NEW until \in Nat, Waits(t, w, until),
         bucket' \in [tokens : 0 .. Limit, refilled : Nat, used : Nat, updated : 0 .. clock]
  PROVE  LimiterTypes'
<1>1. clock' = clock /\ unheard' = unheard /\ counted' = counted
  BY DEF Waits
<1>2. Limit \in Nat /\ w \in 0 .. Limit
  BY RateLimiterAssumption
<1>3. task' \in [Tasks -> [phase : {"idle", "waiting", "sent"}, weight : 0 .. Limit,
                          until : Nat, header : Nat]]
  BY <1>2 DEF Waits, Idle, LimiterTypes
<1> QED
  BY <1>1, <1>3 DEF LimiterTypes

(* The window after a look at it.                                          *)
LEMMA RefilledType ==
  ASSUME LimiterTypes
  PROVE  /\ Refilled \in [tokens : 0 .. Limit, refilled : Nat, used : Nat, updated : 0 .. clock]
         /\ Refilled.used = bucket.used /\ Refilled.updated = bucket.updated
<1> DEFINE full == [bucket EXCEPT !.tokens = Limit, !.refilled = clock]
           Buckets == [tokens : 0 .. Limit, refilled : Nat, used : Nat, updated : 0 .. clock]
<1>1. bucket \in Buckets /\ Limit \in 0 .. Limit /\ clock \in Nat
  BY RateLimiterAssumption DEF LimiterTypes
<1>2. full \in Buckets /\ full.used = bucket.used /\ full.updated = bucket.updated
  BY <1>1
<1>3. Refilled \in {bucket, full}
  BY DEF Refilled
<1> QED
  BY <1>1, <1>2, <1>3

(* Without word of its usage in this period, nothing of it is known.       *)
LEMMA UnknownIsUnheard ==
  ASSUME LimiterInv, LockFree, ~KnowsUsage
  PROVE  counted = unheard
<1>1. Heard(counted - unheard)
  BY DEF LimiterInv, LockFree, SentThisPeriod
<1>2. /\ clock \in Nat /\ bucket.updated \in Nat /\ bucket.updated <= clock
      /\ counted \in Nat /\ unheard \in Nat /\ Period \in Nat
  BY RateLimiterAssumption DEF LimiterInv, LimiterTypes
<1>3. InThisPeriod(bucket.updated) => clock - bucket.updated < Period
  BY <1>2, SamePeriod DEF InThisPeriod
<1> QED
  BY <1>1, <1>2, <1>3 DEF Heard, KnowsUsage

(* A request, by the header or by the window, is sent or waits.            *)
LEMMA RequestKeeps ==
  ASSUME LimiterInv, NEW t \in Tasks, NEW w \in Weights,
         RequestByHeader(t, w) \/ RequestByWindow(t, w)
  PROVE  LimiterInv'
<1>1. LimiterTypes /\ LockFree /\ w \in 1 .. Limit /\ Period \in Nat
  BY RateLimiterAssumption DEF LimiterInv, RequestByHeader, RequestByWindow
<1>2. /\ \A u \in Tasks : u # t => task[u].phase = "idle"
      /\ task[t].phase # "sent"
  BY <1>1 DEF LockFree
<1>3. CASE RequestByHeader(t, w)
  <2>1. /\ bucket' = bucket
        /\ bucket \in [tokens : 0 .. Limit, refilled : Nat, used : Nat, updated : 0 .. clock]
    BY <1>1, <1>3 DEF RequestByHeader, LimiterTypes
  <2>2. CASE Fits(w) /\ Sent(t, w)
    BY <1>1, <1>2, <2>1, <2>2, SentTyped, SentKeeps DEF Fits
  <2>3. CASE Waits(t, w, NextPeriod)
    <3>1. NextPeriod \in Nat /\ clock \div Period < NextPeriod \div Period
      BY <1>1, NextPeriodStarts DEF LimiterTypes
    <3>2. LimiterTypes'
      BY <1>1, <2>1, <2>3, <3>1, WaitsTyped
    <3> QED
      BY <1>1, <2>1, <2>3, <3>1, <3>2, WaitsKeeps
  <2> QED
    BY <1>3, <2>2, <2>3 DEF RequestByHeader
<1>4. CASE RequestByWindow(t, w)
  <2>1. counted = unheard
    BY <1>4, UnknownIsUnheard DEF RequestByWindow
  <2> DEFINE look == Refilled
  <2>2. /\ look \in [tokens : 0 .. Limit, refilled : Nat, used : Nat, updated : 0 .. clock]
        /\ look.used = bucket.used /\ look.updated = bucket.updated
    BY <1>1, RefilledType
  <2>3. IF look.tokens >= w
         THEN bucket' = [look EXCEPT !.tokens = @ - w] /\ Sent(t, w)
         ELSE bucket' = look /\ Waits(t, w, look.refilled + Period)
    BY <1>4 DEF RequestByWindow
  <2> HIDE DEF look
  <2>4. CASE look.tokens >= w
    <3>3. look.tokens \in 0 .. Limit /\ Limit \in Nat
      BY <2>2, RateLimiterAssumption
    <3>1. look.tokens - w \in 0 .. Limit
      BY <1>1, <2>4, <3>3
    <3>2. /\ bucket' \in [tokens : 0 .. Limit, refilled : Nat, used : Nat, updated : 0 .. clock]
          /\ bucket'.used = bucket.used /\ bucket'.updated = bucket.updated
      BY <2>2, <2>3, <2>4, <3>1
    <3> QED
      BY <1>1, <1>2, <2>1, <2>3, <2>4, <3>2, SentTyped, SentKeeps
  <2>5. CASE ~(look.tokens >= w)
    <3>1. look.refilled + Period \in Nat
      BY <1>1, <2>2
    <3>2. LimiterTypes'
      BY <1>1, <2>2, <2>3, <2>5, <3>1, WaitsTyped
    <3> QED
      BY <1>1, <2>1, <2>2, <2>3, <2>5, <3>2, WaitsKeeps
  <2> QED
    BY <2>4, <2>5
<1> QED
  BY <1>3, <1>4

(* A wait is over: the period it waited for has come.                      *)
LEMMA WaitIsOverKeeps ==
  ASSUME LimiterInv, NEW t \in Tasks, WaitIsOver(t)
  PROVE  LimiterInv'
<1> DEFINE w == task[t].weight
<1>1. LimiterTypes /\ task[t].phase = "waiting" /\ bucket' = bucket /\ Sent(t, w)
  BY DEF LimiterInv, WaitIsOver
<1>2. w \in 1 .. Limit /\ (counted = unheard \/ clock \div Period < task[t].until \div Period)
  BY <1>1, TaskFacts DEF LimiterInv, WaitsItOut
<1>3. task[t].until <= clock /\ task[t].until \in Nat /\ clock \in Nat
  BY <1>1, TaskFacts DEF WaitIsOver
<1>4. task[t].until \div Period <= clock \div Period
      /\ task[t].until \div Period \in Nat /\ clock \div Period \in Nat
  BY <1>3, SamePeriod
<1>5. counted = unheard
  BY <1>2, <1>4
<1>6. \A u \in Tasks : u # t => task[u].phase = "idle"
  BY <1>1 DEF LimiterInv, OneAtATime
<1> HIDE DEF w
<1>7. LimiterTypes'
  BY <1>1, <1>2, SentTyped DEF LimiterTypes
<1> QED
  BY <1>1, <1>2, <1>5, <1>6, <1>7, SentKeeps

(* An answer's header becomes the usage the bucket knows of.               *)
LEMMA AnsweredKeeps ==
  ASSUME LimiterInv, NEW t \in Tasks, Answered(t)
  PROVE  LimiterInv'
<1>1. /\ LimiterTypes /\ task[t].phase = "sent" /\ clock' = clock /\ counted' = counted /\ unheard' = unheard
      /\ bucket' = [bucket EXCEPT !.used = task[t].header, !.updated = clock]
      /\ task' = [task EXCEPT ![t] = Idle]
  BY DEF LimiterInv, Answered
<1>2. /\ \A u \in Tasks : u # t => task[u].phase = "idle"
      /\ InFlightIsKnown(t)
  BY <1>1 DEF LimiterInv, OneAtATime
<1>3. \A u \in Tasks : task'[u].phase = "idle"
  BY <1>1, <1>2 DEF LimiterTypes, Idle
<1>4. LimiterTypes'
  <2>1. Limit \in Nat
    BY RateLimiterAssumption
  <2>2. Idle \in [phase : {"idle", "waiting", "sent"}, weight : 0 .. Limit, until : Nat, header : Nat]
    BY <2>1 DEF Idle
  <2>3. task' \in [Tasks -> [phase : {"idle", "waiting", "sent"}, weight : 0 .. Limit,
                            until : Nat, header : Nat]]
    BY <1>1, <2>2 DEF LimiterTypes
  <2>4. bucket' \in [tokens : 0 .. Limit, refilled : Nat, used : Nat, updated : 0 .. clock]
    <3>1. task[t].header \in Nat /\ clock \in 0 .. clock
      BY <1>1, TaskFacts
    <3>2. bucket \in [tokens : 0 .. Limit, refilled : Nat, used : Nat, updated : 0 .. clock]
      BY <1>1 DEF LimiterTypes
    <3> QED
      BY <1>1, <3>1, <3>2
  <2> QED
    BY <1>1, <2>3, <2>4 DEF LimiterTypes
<1>5. bucket'.used = task[t].header /\ bucket'.updated = clock
  BY <1>1 DEF LimiterTypes
<1>6. Heard(counted - unheard)'
  <2>1. /\ counted \in Nat /\ unheard \in Nat /\ unheard <= counted
        /\ task[t].header \in Nat /\ task[t].header > 0
    BY <1>1, <1>2, TaskFacts DEF InFlightIsKnown
  <2>2. CASE SentThisPeriod(t)
    <3>1. task[t].header = counted
      BY <1>1, <1>2, <2>2 DEF InFlightIsKnown
    <3> QED
      BY <1>1, <1>5, <2>1, <3>1 DEF Heard, InThisPeriod
  <2>3. CASE ~SentThisPeriod(t)
    <3>1. counted = unheard
      BY <1>1, <1>2, <2>3 DEF InFlightIsKnown
    <3> QED
      BY <1>1, <2>1, <3>1 DEF Heard
  <2> QED
    BY <2>2, <2>3
<1>7. OneAtATime' /\ \A u \in Tasks : WaitsItOut(u)' /\ InFlightIsKnown(u)'
  BY <1>3 DEF OneAtATime, WaitsItOut, InFlightIsKnown
<1>8. LimitIsKept'
  BY <1>1 DEF LimiterInv, LimitIsKept
<1> QED
  BY <1>4, <1>6, <1>7, <1>8 DEF LimiterInv

(* A request of this period that fails is one the bucket never hears of.   *)
LEMMA RequestFailsKeeps ==
  ASSUME LimiterInv, NEW t \in Tasks, RequestFails(t)
  PROVE  LimiterInv'
<1>1. /\ LimiterTypes /\ task[t].phase = "sent" /\ clock' = clock /\ counted' = counted /\ bucket' = bucket
      /\ task' = [task EXCEPT ![t] = Idle]
      /\ unheard' = IF SentThisPeriod(t) THEN unheard + task[t].weight ELSE unheard
  BY DEF LimiterInv, RequestFails, SentThisPeriod
<1>2. /\ \A u \in Tasks : u # t => task[u].phase = "idle"
      /\ InFlightIsKnown(t)
  BY <1>1 DEF LimiterInv, OneAtATime
<1>3. \A u \in Tasks : task'[u].phase = "idle"
  BY <1>1, <1>2 DEF LimiterTypes, Idle
<1>4. /\ counted \in Nat /\ unheard \in Nat /\ unheard <= counted /\ task[t].weight \in Nat
      /\ Limit \in Nat
  BY <1>1, TaskFacts, RateLimiterAssumption
<1>5. SentThisPeriod(t) => task[t].weight <= counted - unheard /\ Heard(counted - unheard - task[t].weight)
  BY <1>1, <1>2 DEF InFlightIsKnown
<1>6. /\ unheard' \in 0 .. counted' /\ unheard <= unheard'
      /\ SentThisPeriod(t) => counted - unheard - task[t].weight = counted' - unheard'
  BY <1>1, <1>4, <1>5
<1>7. LimiterTypes'
  <2>1. Limit \in Nat
    BY RateLimiterAssumption
  <2>2. Idle \in [phase : {"idle", "waiting", "sent"}, weight : 0 .. Limit, until : Nat, header : Nat]
    BY <2>1 DEF Idle
  <2>3. task' \in [Tasks -> [phase : {"idle", "waiting", "sent"}, weight : 0 .. Limit,
                            until : Nat, header : Nat]]
    BY <1>1, <2>2 DEF LimiterTypes
  <2> QED
    BY <1>1, <1>6, <2>3 DEF LimiterTypes
<1>8. Heard(counted - unheard)'
  <2>1. CASE SentThisPeriod(t)
    BY <1>1, <1>5, <1>6, <2>1 DEF Heard, InThisPeriod
  <2>2. CASE ~SentThisPeriod(t)
    <3>1. counted = unheard
      BY <1>1, <1>2, <2>2 DEF InFlightIsKnown
    <3> QED
      BY <1>1, <1>4, <2>2, <3>1 DEF Heard
  <2> QED
    BY <2>1, <2>2
<1>9. OneAtATime' /\ \A u \in Tasks : WaitsItOut(u)' /\ InFlightIsKnown(u)'
  BY <1>3 DEF OneAtATime, WaitsItOut, InFlightIsKnown
<1>10. LimitIsKept'
  BY <1>1, <1>4, <1>6 DEF LimiterInv, LimitIsKept
<1> QED
  BY <1>7, <1>8, <1>9, <1>10 DEF LimiterInv

(* A second passes within the period, or begins the next one, for which    *)
(* the venue has counted nothing.                                          *)
LEMMA SecondKeeps ==
  ASSUME LimiterInv, SecondPasses
  PROVE  LimiterInv'
<1>1. /\ LimiterTypes /\ clock' = clock + 1 /\ bucket' = bucket /\ task' = task
  BY DEF LimiterInv, SecondPasses
<1>2. clock \in Nat /\ clock' \in Nat /\ bucket.updated \in Nat /\ Limit \in Nat
  BY <1>1, RateLimiterAssumption DEF LimiterTypes
<1>3. OneAtATime'
  BY <1>1 DEF LimiterInv, OneAtATime
<1>4. CASE clock' % Period = 0
  <2>1. counted' = 0 /\ unheard' = 0
    BY <1>4 DEF SecondPasses
  <2>2. LimiterTypes'
    BY <1>1, <1>2, <2>1 DEF LimiterTypes
  <2>3. clock \div Period < clock' \div Period
    BY <1>1, <1>2, <1>4, NextSecond
  <2>4. ASSUME NEW t \in Tasks PROVE WaitsItOut(t)' /\ InFlightIsKnown(t)'
    <3>1. WaitsItOut(t)'
      BY <1>1, <2>1 DEF LimiterInv, WaitsItOut
    <3>2. CASE task[t].phase = "sent"
      <4>1. /\ task[t].until \in Nat /\ task[t].until <= clock
            /\ task[t].weight > 0 /\ task[t].header > 0
        BY <1>1, <3>2, TaskFacts DEF LimiterInv, InFlightIsKnown
      <4>2. /\ task[t].until \div Period <= clock \div Period
            /\ task[t].until \div Period \in Nat /\ clock \div Period \in Nat
            /\ clock' \div Period \in Nat
        BY <1>2, <4>1, SamePeriod
      <4>3. ~SentThisPeriod(t)'
        BY <1>1, <2>3, <4>2 DEF SentThisPeriod, InThisPeriod
      <4>4. task[t].until <= clock'
        BY <1>1, <1>2, <4>1
      <4> QED
        BY <1>1, <2>1, <3>1, <4>1, <4>3, <4>4 DEF InFlightIsKnown
    <3>3. CASE task[t].phase # "sent"
      BY <1>1, <3>1, <3>3 DEF InFlightIsKnown
    <3> QED
      BY <3>2, <3>3
  <2>5. Heard(counted - unheard)' /\ LimitIsKept'
    BY <1>2, <2>1 DEF Heard, LimitIsKept
  <2> QED
    BY <1>3, <2>2, <2>4, <2>5 DEF LimiterInv
<1>5. CASE clock' % Period # 0
  <2>1. counted' = counted /\ unheard' = unheard
    BY <1>5 DEF SecondPasses
  <2>2. LimiterTypes'
    <3>1. bucket' \in [tokens : 0 .. Limit, refilled : Nat, used : Nat, updated : 0 .. clock']
      BY <1>1, <1>2 DEF LimiterTypes
    <3> QED
      BY <1>1, <1>2, <2>1, <3>1 DEF LimiterTypes
  <2>3. clock' \div Period = clock \div Period
    BY <1>1, <1>2, <1>5, NextSecond
  <2>4. ASSUME NEW t \in Tasks PROVE WaitsItOut(t)' /\ InFlightIsKnown(t)' /\ (SentThisPeriod(t)' <=> SentThisPeriod(t))
    <3>1. WaitsItOut(t)'
      BY <1>1, <2>1, <2>3 DEF LimiterInv, WaitsItOut
    <3>2. SentThisPeriod(t)' <=> SentThisPeriod(t)
      BY <1>1, <2>3 DEF SentThisPeriod, InThisPeriod
    <3>3. CASE task[t].phase = "sent"
      <4>1. /\ task[t].until \in Nat /\ task[t].until <= clock /\ InFlightIsKnown(t)
        BY <1>1, <3>3, TaskFacts DEF LimiterInv, InFlightIsKnown
      <4>2. task[t].until <= clock'
        BY <1>1, <1>2, <4>1
      <4>3. Heard(counted - unheard - task[t].weight) => Heard(counted - unheard - task[t].weight)'
        BY <1>1, <2>1, <2>3 DEF Heard, InThisPeriod
      <4> QED
        BY <1>1, <2>1, <3>1, <3>2, <3>3, <4>1, <4>2, <4>3 DEF InFlightIsKnown
    <3>4. CASE task[t].phase # "sent"
      BY <1>1, <3>1, <3>2, <3>4 DEF InFlightIsKnown
    <3> QED
      BY <3>3, <3>4
  <2>5. Heard(counted - unheard) => Heard(counted - unheard)'
    BY <1>1, <2>1, <2>3 DEF Heard, InThisPeriod
  <2>6. LimitIsKept'
    BY <2>1 DEF LimiterInv, LimitIsKept
  <2> QED
    BY <1>3, <2>2, <2>4, <2>5, <2>6 DEF LimiterInv
<1> QED
  BY <1>4, <1>5

(* The invariant holds at the start, and every step preserves it.          *)
LEMMA LimiterStarts == LimiterInit => LimiterInv
<1> SUFFICES ASSUME LimiterInit PROVE LimiterInv
  OBVIOUS
<1>1. /\ clock \in Nat /\ counted = 0 /\ unheard = 0 /\ Limit \in Nat
      /\ bucket = [tokens |-> Limit, refilled |-> clock, used |-> 0, updated |-> clock]
      /\ task = [t \in Tasks |-> Idle]
  BY RateLimiterAssumption DEF LimiterInit
<1>2. LimiterTypes
  BY <1>1 DEF LimiterTypes, Idle
<1>3. \A t \in Tasks : task[t].phase = "idle"
  BY <1>1 DEF Idle
<1> QED
  BY <1>1, <1>2, <1>3
  DEF LimiterInv, OneAtATime, WaitsItOut, InFlightIsKnown, Heard, LimitIsKept

(* Every step preserves the limiter's invariant.                           *)
LEMMA LimiterStep == LimiterInv /\ [LimiterNext]_limiterVars => LimiterInv'
<1>1. ASSUME LimiterInv, UNCHANGED limiterVars PROVE LimiterInv'
  BY <1>1 DEF LimiterInv, limiterVars, LimiterTypes, OneAtATime, WaitsItOut, InFlightIsKnown,
              SentThisPeriod, Heard, InThisPeriod, LimitIsKept
<1> QED
  BY <1>1, RequestKeeps, WaitIsOverKeeps, AnsweredKeeps, RequestFailsKeeps, SecondKeeps DEF LimiterNext

(* RateLimiter: what Binance counts in a period stays within the limit,    *)
(* but for the requests whose answers were lost (limiter.rs): over waits   *)
(* that end in the next period, answers that come in it, headers of an     *)
(* earlier period, and the fallback's generous first second.               *)
THEOREM BinanceLimitIsKept == LimiterSpec => []LimitIsKept
<1>1. LimiterInv => LimitIsKept
  BY DEF LimiterInv
<1> QED
  BY <1>1, LimiterStarts, LimiterStep, PTL DEF LimiterSpec

-----------------------------------------------------------------------------
(* The order book of a venue.                                              *)

(* A frame in the queue.                                                   *)
Queued == [type : FrameTypes, first : Nat, final : Nat]

(* The types of the frames and of the local book.                          *)
DepthTypes ==
  /\ venue \in Kinds /\ link \in {"Disconnected", "Fetching", "Connected"}
  /\ head \in 1 .. MaxUpdates /\ sent \in 0 .. head
  /\ queue \in Seq(Queued)
  /\ cache = [id |-> cache.id, book |-> cache.book] /\ cache.id \in 0 .. MaxUpdates
  /\ cache.book = [l \in Levels |-> cache.book[l]]
  /\ prev \in Nat /\ floor \in Nat /\ trust \in Nat

(* The frames that are queued cover the venue's updates without a gap.     *)
FramesFollow ==
  \A i \in 1 .. Len(queue) :
    /\ 1 <= queue[i].first /\ queue[i].first <= queue[i].final /\ queue[i].final <= sent
    /\ i < Len(queue) => queue[i + 1].first = queue[i].final + 1
    /\ i = Len(queue) => queue[i].final = sent

(* Which frames a venue sends, and when.                                   *)
FramesOfTheVenue ==
  /\ link = "Disconnected" => queue = <<>>
  /\ link = "Fetching" => venue = "diff"
  /\ \A i \in 1 .. Len(queue) :
       /\ queue[i].type = "ack" => i = 1 /\ venue = "ack" /\ trust = Never
       /\ queue[i].type = "book" => venue \in {"push", "full"}
       /\ queue[i].type = "diff" => venue # "full"

(* The last update before those that are queued.                           *)
Reached == IF queue = <<>> THEN sent ELSE queue[1].first - 1

(* Each level is as of update p, or still as of the snapshot's, n.         *)
Mixed(b, p, n) ==
  \A l \in Levels : b[l] = LastSet(l, p) \/ (p < n /\ b[l] = LastSet(l, n))

(* The book that is to become the venue's, and how far it has got.         *)
BookIsOnTheWay ==
  link = "Connected" /\ trust # Never =>
    /\ venue = "diff" => Mixed(cache.book, cache.id, trust)
    /\ venue \in {"push", "ack"} => Mixed(cache.book, Reached, trust)
    /\ venue = "ack" =>
         /\ floor = TimeOf(trust)
         /\ (Reached < trust /\ cache.book = VenueBook(trust)) \/ floor <= TimeOf(Reached)

(* Binance's prev_id is the update the book is as of, once a frame has     *)
(* been applied to the snapshot.                                           *)
PrevIsTheBook ==
  link = "Connected" /\ venue = "diff" =>
    IF prev = 0 THEN trust = cache.id /\ trust # Never ELSE prev = cache.id

(* The inductive invariant of the order book.                              *)
DepthInv ==
  DepthTypes /\ FramesFollow /\ FramesOfTheVenue /\ BookIsOnTheWay /\ PrevIsTheBook
  /\ BooksAreTheVenues

(* A level that no update sets stays as it was.                            *)
LEMMA LevelStays ==
  ASSUME NEW l, NEW m \in Nat, NEW n \in Nat, m <= n, \A i \in m + 1 .. n : LevelOf[i] # l
  PROVE  LastSet(l, m) = LastSet(l, n)
<1>1. {i \in 1 .. m : LevelOf[i] = l} = {i \in 1 .. n : LevelOf[i] = l}
  OBVIOUS
<1> QED
  BY <1>1 DEF LastSet

(* A frame that joins the book takes it to the frame's last update.        *)
LEMMA DiffMixes ==
  ASSUME NEW c, NEW p \in Nat, NEW n \in Nat, Mixed(c.book, p, n),
         NEW f, f.first \in Nat, f.final \in Nat, f.first <= p + 1, p <= f.final
  PROVE  Mixed(Diff(c, f).book, f.final, n)
<1> DEFINE q == f.final
<1>1. Diff(c, f).book = [l \in Levels |-> IF l \in Touched(f) THEN VenueBook(q)[l] ELSE c.book[l]]
  BY DEF Diff
<1> SUFFICES ASSUME NEW l \in Levels
             PROVE  \/ Diff(c, f).book[l] = LastSet(l, q)
                    \/ q < n /\ Diff(c, f).book[l] = LastSet(l, n)
  BY DEF Mixed
<1>2. CASE l \in Touched(f)
  BY <1>1, <1>2 DEF VenueBook
<1>3. CASE l \notin Touched(f)
  <2>1. Diff(c, f).book[l] = c.book[l]
    BY <1>1, <1>3
  <2>2. \A i \in p + 1 .. q : LevelOf[i] # l
    BY <1>3 DEF Touched
  <2>3. CASE c.book[l] = LastSet(l, p)
    BY <2>1, <2>2, <2>3, LevelStays
  <2>4. CASE p < n /\ c.book[l] = LastSet(l, n) /\ n <= q
    BY <2>1, <2>2, <2>4, LevelStays
  <2>5. CASE p < n /\ c.book[l] = LastSet(l, n) /\ q < n
    BY <2>1, <2>5
  <2> QED
    BY <2>3, <2>4, <2>5 DEF Mixed
<1> QED
  BY <1>2, <1>3

(* A snapshot is the venue's book, and mixed with a frame it is on the way.*)
LEMMA SnapshotMixes ==
  ASSUME NEW n \in Nat
  PROVE  /\ Snapshot(n).id = n /\ Snapshot(n).book = VenueBook(n)
         /\ \A p \in Nat : p <= n => Mixed(Snapshot(n).book, p, n)
BY DEF Snapshot, VenueBook, Mixed

(* A book that has got as far as its snapshot is the venue's.              *)
LEMMA MixedIsTheVenues ==
  ASSUME NEW b, b = [l \in Levels |-> b[l]], NEW p \in Nat, NEW n \in Nat, Mixed(b, p, n), n <= p
  PROVE  b = VenueBook(p)
BY DEF Mixed, VenueBook

(* The local book stays one.                                               *)
LEMMA BooksTyped ==
  ASSUME DepthTypes
  PROVE  /\ \A n \in 0 .. MaxUpdates :
              /\ Snapshot(n) = [id |-> Snapshot(n).id, book |-> Snapshot(n).book]
              /\ Snapshot(n).id \in 0 .. MaxUpdates
              /\ Snapshot(n).book = [l \in Levels |-> Snapshot(n).book[l]]
         /\ \A c, f : f.final \in 0 .. MaxUpdates =>
              /\ Diff(c, f) = [id |-> Diff(c, f).id, book |-> Diff(c, f).book]
              /\ Diff(c, f).id = f.final
              /\ Diff(c, f).book = [l \in Levels |-> Diff(c, f).book[l]]
BY DEF Snapshot, Diff, VenueBook

(* The frame that is read.                                                 *)
LEMMA FrameIs ==
  ASSUME DepthInv, NEW f, Read(f)
  PROVE  /\ 1 \in 1 .. Len(queue) /\ f = queue[1] /\ f.type \in FrameTypes
         /\ f.first \in Nat /\ f.final \in Nat /\ 1 <= f.first /\ f.first <= f.final
         /\ f.final \in 1 .. MaxUpdates /\ f.first = Reached + 1
         /\ Reached \in Nat /\ queue # <<>> /\ link = "Connected"
<1>1. /\ queue \in Seq(Queued) /\ queue # <<>> /\ f = Head(queue) /\ link = "Connected"
      /\ head \in 1 .. MaxUpdates /\ sent \in 0 .. head
  BY DEF Read, DepthInv, DepthTypes
<1>2. 1 \in 1 .. Len(queue) /\ f = queue[1] /\ f \in Queued
  BY <1>1
<1>3. 1 <= f.first /\ f.first <= f.final /\ f.final <= sent
  BY <1>2 DEF DepthInv, FramesFollow
<1>4. f.type \in FrameTypes /\ f.first \in Nat /\ f.final \in Nat
  BY <1>2 DEF Queued
<1>5. MaxUpdates \in Nat
  BY DepthFeedAssumption
<1> QED
  BY <1>1, <1>2, <1>3, <1>4, <1>5 DEF Reached

(* Reading a frame moves on to the next.                                   *)
LEMMA NextFrame ==
  ASSUME DepthInv, NEW f, Read(f), Consumed, sent' = sent, venue' = venue
  PROVE  /\ queue' \in Seq(Queued) /\ FramesFollow' /\ Reached' = f.final
         /\ \A i \in 1 .. Len(queue') : queue'[i].type # "ack"
         /\ \A i \in 1 .. Len(queue') :
              /\ queue'[i].type = "book" => venue \in {"push", "full"}
              /\ queue'[i].type = "diff" => venue # "full"
<1>1. queue \in Seq(Queued) /\ queue # <<>> /\ f = queue[1]
  BY FrameIs DEF DepthInv, DepthTypes
<1>2. /\ queue' \in Seq(Queued) /\ Len(queue') = Len(queue) - 1
      /\ Len(queue) \in Nat /\ Len(queue) >= 1
      /\ \A i \in 1 .. Len(queue') : queue'[i] = queue[i + 1] /\ i + 1 \in 1 .. Len(queue)
  BY <1>1 DEF Consumed
<1>3. FramesFollow'
  <2> SUFFICES ASSUME NEW i \in 1 .. Len(queue')
               PROVE  /\ 1 <= queue'[i].first /\ queue'[i].first <= queue'[i].final
                      /\ queue'[i].final <= sent
                      /\ i < Len(queue') => queue'[i + 1].first = queue'[i].final + 1
                      /\ i = Len(queue') => queue'[i].final = sent
    BY DEF FramesFollow
  <2>1. i + 1 \in 1 .. Len(queue) /\ queue'[i] = queue[i + 1] /\ i \in Nat
    BY <1>2
  <2>2. i < Len(queue') => i + 1 \in 1 .. Len(queue') /\ i + 1 < Len(queue)
    BY <1>2, <2>1
  <2>3. i < Len(queue') => queue'[i + 1] = queue[i + 1 + 1]
    BY <1>2, <2>2
  <2>4. i = Len(queue') => i + 1 = Len(queue)
    BY <1>2, <2>1
  <2> QED
    BY <2>1, <2>2, <2>3, <2>4 DEF DepthInv, FramesFollow
<1>4. CASE Len(queue) = 1
  <2>1. queue' = <<>> /\ queue[1].final = sent
    BY <1>2, <1>4 DEF DepthInv, FramesFollow
  <2>2. Reached' = f.final
    BY <1>1, <2>1 DEF Reached
  <2>3. 1 .. Len(queue') = {}
    BY <2>1
  <2> QED
    BY <1>2, <1>3, <2>2, <2>3
<1>5. CASE Len(queue) # 1
  <2>1. queue' # <<>> /\ queue'[1] = queue[2] /\ queue[2].first = queue[1].final + 1
    BY <1>2, <1>5 DEF DepthInv, FramesFollow
  <2>2. Reached' = f.final
    BY <1>1, <2>1, FrameIs DEF Reached
  <2>3. \A i \in 1 .. Len(queue') : i + 1 # 1
    BY <1>2
  <2> QED
    BY <1>2, <1>3, <2>2, <2>3 DEF DepthInv, FramesOfTheVenue
<1> QED
  BY <1>4, <1>5

(* A frame goes to the end of the queue.                                   *)
LEMMA FrameSent ==
  ASSUME DepthInv, VenueSends
  PROVE  DepthInv'
<1> DEFINE g == [type |-> FrameType, first |-> sent + 1, final |-> head]
<1>0. /\ UNCHANGED <<venue, head, link, cache, prev, floor, shown, trust>>
      /\ sent' = head /\ sent < head /\ link # "Disconnected" /\ queue' = Append(queue, g)
  BY DEF VenueSends
<1>1. /\ queue \in Seq(Queued) /\ head \in 1 .. MaxUpdates /\ sent \in 0 .. head
      /\ MaxUpdates \in Nat
  BY DepthFeedAssumption DEF DepthInv, DepthTypes
<1>2. g \in Queued
  BY <1>1 DEF Queued, FrameType, FrameTypes
<1>3. /\ g.first = sent + 1 /\ g.final = head
      /\ \/ g.type = "diff" /\ venue # "full"
         \/ g.type = "book" /\ venue = "full"
  BY DEF FrameType
<1> HIDE DEF g
<1>4. /\ queue' \in Seq(Queued) /\ Len(queue') = Len(queue) + 1 /\ Len(queue) \in Nat
      /\ \A i \in 1 .. Len(queue) : queue'[i] = queue[i]
      /\ queue'[Len(queue) + 1] = g
  BY <1>0, <1>1, <1>2
<1>5. \A i \in 1 .. Len(queue) :
        /\ 1 <= queue[i].first /\ queue[i].first <= queue[i].final /\ queue[i].final <= sent
        /\ i < Len(queue) => queue[i + 1].first = queue[i].final + 1
        /\ i = Len(queue) => queue[i].final = sent
        /\ queue[i].first \in Nat /\ queue[i].final \in Nat
  <2>1. \A i \in 1 .. Len(queue) : queue[i] \in Queued
    BY <1>1
  <2> QED
    BY <2>1 DEF DepthInv, FramesFollow, Queued
<1>6. FramesFollow'
  <2> SUFFICES ASSUME NEW i \in 1 .. Len(queue')
               PROVE  /\ 1 <= queue'[i].first /\ queue'[i].first <= queue'[i].final
                      /\ queue'[i].final <= head
                      /\ i < Len(queue') => queue'[i + 1].first = queue'[i].final + 1
                      /\ i = Len(queue') => queue'[i].final = head
    BY <1>0 DEF FramesFollow
  <2>1. CASE i = Len(queue) + 1
    BY <1>0, <1>1, <1>3, <1>4, <2>1
  <2>2. CASE i \in 1 .. Len(queue) /\ i < Len(queue)
    BY <1>0, <1>1, <1>4, <1>5, <2>2
  <2>3. CASE i \in 1 .. Len(queue) /\ i = Len(queue)
    <3>1. queue'[i] = queue[i] /\ queue[i].final = sent /\ queue'[i + 1] = g
      BY <1>4, <1>5, <2>3
    <3> QED
      BY <1>0, <1>1, <1>3, <1>4, <1>5, <2>3, <3>1
  <2> QED
    BY <1>4, <2>1, <2>2, <2>3
<1>7. Reached' = Reached
  <2>1. CASE queue = <<>>
    <3>1. Len(queue) = 0
      BY <2>1
    <3>2. queue' # <<>> /\ queue'[1] = g
      BY <1>4, <3>1
    <3> QED
      BY <1>1, <1>3, <2>1, <3>2 DEF Reached
  <2>2. CASE queue # <<>>
    <3>1. 1 \in 1 .. Len(queue)
      BY <1>1, <2>2
    <3>2. queue' # <<>> /\ queue'[1] = queue[1]
      BY <1>4, <3>1
    <3> QED
      BY <2>2, <3>2 DEF Reached
  <2> QED
    BY <2>1, <2>2
<1>8. FramesOfTheVenue'
  <2>1. \A i \in 1 .. Len(queue') : i \in 1 .. Len(queue) \/ i = Len(queue) + 1
    BY <1>4
  <2> QED
    BY <1>0, <1>3, <1>4, <2>1 DEF DepthInv, FramesOfTheVenue
<1>9. DepthTypes'
  BY <1>0, <1>1, <1>4 DEF DepthInv, DepthTypes
<1>10. BookIsOnTheWay' /\ PrevIsTheBook' /\ BooksAreTheVenues'
  BY <1>0, <1>7 DEF DepthInv, BookIsOnTheWay, Mixed, PrevIsTheBook, BooksAreTheVenues
<1> QED
  BY <1>6, <1>8, <1>9, <1>10 DEF DepthInv

(* The venue's book changes; a connection is made, or lost.                *)
LEMMA LinkChanges ==
  ASSUME DepthInv, VenueUpdate \/ Connect \/ NoSnapshot \/ SocketDies
  PROVE  DepthInv'
<1>1. DepthTypes /\ MaxUpdates \in Nat
  BY DepthFeedAssumption DEF DepthInv
<1>2. CASE VenueUpdate
  <2>1. /\ UNCHANGED <<venue, sent, queue, link, cache, prev, floor, shown, trust>>
        /\ head' \in 1 .. MaxUpdates /\ sent \in 0 .. head'
    BY <1>1, <1>2 DEF VenueUpdate, DepthTypes
  <2>2. DepthTypes'
    BY <1>1, <2>1 DEF DepthTypes
  <2> QED
    BY <2>1, <2>2 DEF DepthInv, FramesFollow, FramesOfTheVenue, BookIsOnTheWay, Reached, Mixed,
                      PrevIsTheBook, BooksAreTheVenues
<1>3. CASE NoSnapshot \/ SocketDies
  <2>1. /\ UNCHANGED <<venue, head, sent, cache, prev, floor, shown, trust>>
        /\ queue' = <<>> /\ link' = "Disconnected"
    BY <1>3 DEF NoSnapshot, SocketDies
  <2>2. DepthTypes'
    BY <1>1, <2>1 DEF DepthTypes
  <2>3. FramesFollow' /\ FramesOfTheVenue'
    BY <2>1 DEF FramesFollow, FramesOfTheVenue
  <2> QED
    BY <2>1, <2>2, <2>3 DEF DepthInv, BookIsOnTheWay, PrevIsTheBook, BooksAreTheVenues
<1>4. CASE Connect
  <2>1. /\ UNCHANGED <<venue, head, cache, prev, floor, shown>>
        /\ sent' = head /\ queue' = Greeting /\ trust' = Never
        /\ link' = IF venue = "diff" THEN "Fetching" ELSE "Connected"
    BY <1>4 DEF Connect
  <2>2. head \in 1 .. MaxUpdates /\ venue \in Kinds
    BY <1>1 DEF DepthTypes
  <2>3. /\ queue' \in Seq(Queued)
        /\ queue' # <<>> =>
             /\ Len(queue') = 1 /\ queue'[1].first = 1 /\ queue'[1].final = head
             /\ \/ queue'[1].type = "book" /\ venue \in {"push", "full"}
                \/ queue'[1].type = "ack" /\ venue = "ack"
    <3>1. ASSUME NEW type \in FrameTypes, queue' = <<[type |-> type, first |-> 1, final |-> head]>>
          PROVE  /\ queue' \in Seq(Queued) /\ Len(queue') = 1 /\ queue'[1].type = type
                 /\ queue'[1].first = 1 /\ queue'[1].final = head
      <4>1. [type |-> type, first |-> 1, final |-> head] \in Queued
        BY <2>2 DEF Queued
      <4> QED
        BY <3>1, <4>1
    <3>2. CASE venue \in {"push", "full"}
      BY <2>1, <3>1, <3>2 DEF Greeting, FrameTypes
    <3>3. CASE venue = "ack"
      BY <2>1, <3>1, <3>3 DEF Greeting, FrameTypes
    <3>4. CASE venue = "diff"
      BY <2>1, <3>4 DEF Greeting
    <3> QED
      BY <2>2, <3>2, <3>3, <3>4 DEF Kinds
  <2>4. DepthTypes'
    BY <1>1, <2>1, <2>2, <2>3 DEF DepthTypes, Never
  <2>5. FramesFollow' /\ FramesOfTheVenue'
    <3>1. \A i \in 1 .. Len(queue') : i = 1 /\ queue' # <<>> /\ Len(queue') = 1
      <4>1. CASE queue' = <<>>
        <5>1. 1 .. Len(queue') = {}
          BY <4>1
        <5> QED
          BY <5>1
      <4>2. CASE queue' # <<>>
        <5>1. Len(queue') = 1
          BY <2>3, <4>2
        <5> QED
          BY <4>2, <5>1
      <4> QED
        BY <4>1, <4>2
    <3> QED
      BY <2>1, <2>2, <2>3, <3>1 DEF FramesFollow, FramesOfTheVenue
  <2>6. BookIsOnTheWay' /\ PrevIsTheBook'
    BY <2>1 DEF BookIsOnTheWay, PrevIsTheBook, Never
  <2> QED
    BY <2>1, <2>4, <2>5, <2>6 DEF DepthInv, BooksAreTheVenues
<1> QED
  BY <1>2, <1>3, <1>4

(* Binance's first snapshot.                                               *)
LEMMA SnapshotComes ==
  ASSUME DepthInv, FirstSnapshot
  PROVE  DepthInv'
<1>1. DepthTypes /\ MaxUpdates \in Nat
  BY DepthFeedAssumption DEF DepthInv
<1>2. PICK n \in 1 .. head : cache' = Snapshot(n) /\ trust' = n
  BY DEF FirstSnapshot
<1>3. /\ UNCHANGED <<venue, head, sent, queue, floor, shown>>
      /\ prev' = 0 /\ link' = "Connected" /\ link = "Fetching"
  BY DEF FirstSnapshot
<1>4. n \in 0 .. MaxUpdates /\ n \in Nat /\ n # Never
  BY <1>1, <1>2 DEF DepthTypes, Never
<1>5. venue = "diff"
  BY <1>3 DEF DepthInv, FramesOfTheVenue
<1>6. DepthTypes'
  <2>1. /\ cache' = [id |-> cache'.id, book |-> cache'.book] /\ cache'.id \in 0 .. MaxUpdates
        /\ cache'.book = [l \in Levels |-> cache'.book[l]]
    BY <1>1, <1>2, <1>4, BooksTyped
  <2> QED
    BY <1>1, <1>2, <1>3, <1>4, <2>1 DEF DepthTypes
<1>7. FramesFollow' /\ FramesOfTheVenue'
  BY <1>3, <1>5 DEF DepthInv, FramesFollow, FramesOfTheVenue
<1>8. cache'.id = n /\ Mixed(cache'.book, n, n)
  BY <1>2, <1>4, SnapshotMixes
<1>9. BookIsOnTheWay' /\ PrevIsTheBook'
  BY <1>2, <1>3, <1>4, <1>5, <1>8 DEF BookIsOnTheWay, PrevIsTheBook, Mixed
<1> QED
  BY <1>3, <1>6, <1>7, <1>9 DEF DepthInv, BooksAreTheVenues

(* A book that was published and has got as far as its snapshot is true.   *)
LEMMA PublishedIsTrue ==
  ASSUME NEW c, c.id \in 0 .. MaxUpdates, c.book = [l \in Levels |-> c.book[l]], Publish(c),
         trust' \in Nat, trust' # Never => Mixed(c.book, c.id, trust')
  PROVE  BooksAreTheVenues'
<1>1. MaxUpdates \in Nat
  BY DepthFeedAssumption
<1>2. shown' = [at |-> c.id, book |-> c.book, sure |-> c.id >= trust']
  BY DEF Publish
<1>3. CASE c.id >= trust'
  <2>1. trust' # Never /\ c.id \in Nat
    BY <1>1, <1>3 DEF Never
  <2>2. c.book = VenueBook(c.id)
    BY <1>3, <2>1, MixedIsTheVenues
  <2>3. shown'.book = c.book /\ shown'.at = c.id
    BY <1>2
  <2> QED
    BY <2>2, <2>3 DEF BooksAreTheVenues, VenueBook
<1>4. CASE ~(c.id >= trust')
  <2>1. shown'.sure = (c.id >= trust')
    BY <1>2, Zenon
  <2> QED
    BY <1>4, <2>1 DEF BooksAreTheVenues
<1> QED
  BY <1>3, <1>4

(* After a frame has been read: what is left to show when the adapter      *)
(* still has the connection.                                               *)
LEMMA AfterTheFrame ==
  ASSUME DepthInv, NEW f, Read(f), Consumed, UNCHANGED <<venue, head, sent, link>>,
         prev' \in Nat, floor' \in Nat, trust' \in Nat,
         cache' = [id |-> cache'.id, book |-> cache'.book], cache'.id \in 0 .. MaxUpdates,
         cache'.book = [l \in Levels |-> cache'.book[l]],
         BooksAreTheVenues', PrevIsTheBook',
         trust' # Never /\ venue = "diff" => Mixed(cache'.book, cache'.id, trust'),
         trust' # Never /\ venue \in {"push", "ack"} => Mixed(cache'.book, f.final, trust'),
         trust' # Never /\ venue = "ack" =>
           /\ floor' = TimeOf(trust')
           /\ (f.final < trust' /\ cache'.book = VenueBook(trust')) \/ floor' <= TimeOf(f.final)
  PROVE  DepthInv'
<1>1. /\ queue' \in Seq(Queued) /\ FramesFollow' /\ Reached' = f.final
      /\ \A i \in 1 .. Len(queue') : queue'[i].type # "ack"
      /\ \A i \in 1 .. Len(queue') :
           /\ queue'[i].type = "book" => venue \in {"push", "full"}
           /\ queue'[i].type = "diff" => venue # "full"
  BY NextFrame
<1>2. link = "Connected"
  BY FrameIs
<1>3. DepthTypes'
  BY <1>1 DEF DepthInv, DepthTypes
<1>4. FramesOfTheVenue'
  BY <1>1, <1>2 DEF FramesOfTheVenue
<1>5. BookIsOnTheWay'
  BY <1>1 DEF BookIsOnTheWay, Mixed, VenueBook
<1> QED
  BY <1>1, <1>3, <1>4, <1>5 DEF DepthInv

(* ... and when it drops the connection with the frame.                    *)
LEMMA AfterTheConnection ==
  ASSUME DepthInv, UNCHANGED <<venue, head, sent>>, queue' = <<>>, link' = "Disconnected",
         prev' \in Nat, floor' \in Nat, trust' \in Nat,
         cache' = [id |-> cache'.id, book |-> cache'.book], cache'.id \in 0 .. MaxUpdates,
         cache'.book = [l \in Levels |-> cache'.book[l]],
         BooksAreTheVenues'
  PROVE  DepthInv'
<1>1. DepthTypes'
  BY DEF DepthInv, DepthTypes
<1>2. FramesFollow' /\ FramesOfTheVenue'
  BY DEF FramesFollow, FramesOfTheVenue
<1>3. BookIsOnTheWay' /\ PrevIsTheBook'
  BY DEF BookIsOnTheWay, PrevIsTheBook
<1> QED
  BY <1>1, <1>2, <1>3 DEF DepthInv

(* The local book as it is.                                                *)
LEMMA CacheIs ==
  ASSUME DepthInv
  PROVE  /\ cache = [id |-> cache.id, book |-> cache.book] /\ cache.id \in 0 .. MaxUpdates
         /\ cache.book = [l \in Levels |-> cache.book[l]]
         /\ prev \in Nat /\ floor \in Nat /\ trust \in Nat /\ Never \in Nat
         /\ MaxUpdates \in Nat /\ head \in 1 .. MaxUpdates
         /\ \A n \in 0 .. MaxUpdates : n # Never
BY DepthFeedAssumption DEF DepthInv, DepthTypes, Never

(* Binance: a frame that is not newer than the book.                       *)
LEMMA OldFrame ==
  ASSUME DepthInv, NEW f, DropOld(f)
  PROVE  DepthInv'
<1>1. /\ Read(f) /\ Consumed /\ venue = "diff"
      /\ UNCHANGED <<venue, head, sent, link, cache, prev, floor, shown, trust>>
  BY DEF DropOld
<1>2. BooksAreTheVenues' /\ PrevIsTheBook'
  BY <1>1 DEF DepthInv, BooksAreTheVenues, PrevIsTheBook
<1>3. trust # Never => Mixed(cache.book, cache.id, trust)
  BY <1>1, FrameIs DEF DepthInv, BookIsOnTheWay
<1> QED
  BY <1>1, <1>2, <1>3, CacheIs, AfterTheFrame

(* Binance: a frame that joins the book, or follows the one before.        *)
LEMMA FrameApplied ==
  ASSUME DepthInv, NEW f, Apply(f)
  PROVE  DepthInv'
<1>1. /\ Read(f) /\ Consumed /\ venue = "diff" /\ ~TooOld(f) /\ ~OutOfReach(f) /\ Follows(f)
      /\ cache' = Diff(cache, f) /\ prev' = f.final /\ trust' = trust /\ Publish(cache')
      /\ UNCHANGED <<venue, head, sent, link, floor>>
  BY DEF Apply
<1>2. /\ f.first \in Nat /\ f.final \in 1 .. MaxUpdates /\ f.final \in Nat /\ link = "Connected"
      /\ cache.id \in Nat
  BY <1>1, FrameIs, CacheIs
<1>3. f.first <= cache.id + 1 /\ cache.id <= f.final
  <2>1. CASE prev = 0
    BY <1>1, <1>2, <2>1 DEF OutOfReach, TooOld
  <2>2. CASE prev # 0
    <3>1. prev = cache.id /\ prev = f.first - 1
      BY <1>1, <1>2, <2>2 DEF DepthInv, PrevIsTheBook, Follows
    <3> QED
      BY <1>1, <1>2, <3>1 DEF TooOld
  <2> QED
    BY <2>1, <2>2
<1>4. trust # Never => Mixed(cache.book, cache.id, trust)
  BY <1>1, <1>2 DEF DepthInv, BookIsOnTheWay
<1>5. trust # Never => Mixed(Diff(cache, f).book, f.final, trust)
  BY <1>2, <1>3, <1>4, CacheIs, DiffMixes
<1>6. /\ cache' = [id |-> cache'.id, book |-> cache'.book] /\ cache'.id = f.final
      /\ cache'.book = [l \in Levels |-> cache'.book[l]]
  BY <1>1, <1>2, BooksTyped DEF DepthInv
<1>7. BooksAreTheVenues'
  BY <1>1, <1>2, <1>5, <1>6, CacheIs, PublishedIsTrue
<1>8. PrevIsTheBook'
  BY <1>1, <1>2, <1>6 DEF PrevIsTheBook
<1> QED
  BY <1>1, <1>2, <1>5, <1>6, <1>7, <1>8, CacheIs, AfterTheFrame

(* Binance: a gap between two frames ends the connection.                  *)
LEMMA TrackLost ==
  ASSUME DepthInv, NEW f, LostTrack(f)
  PROVE  DepthInv'
<1>1. /\ UNCHANGED <<venue, head, sent, cache, prev, floor, shown, trust>>
      /\ link' = "Disconnected" /\ queue' = <<>>
  BY DEF LostTrack
<1>2. BooksAreTheVenues'
  BY <1>1 DEF DepthInv, BooksAreTheVenues
<1> QED
  BY <1>1, <1>2, CacheIs, AfterTheConnection

(* Binance: the snapshot is fetched again, or cannot be.                   *)
LEMMA Resynced ==
  ASSUME DepthInv, NEW f, Resync(f)
  PROVE  DepthInv'
<1>1. /\ Read(f) /\ venue = "diff" /\ prev' = f.final /\ Publish(cache')
      /\ UNCHANGED <<venue, head, sent, floor>>
  BY DEF Resync
<1>2. /\ f.first \in Nat /\ f.final \in 1 .. MaxUpdates /\ f.final \in Nat /\ link = "Connected"
      /\ f.first <= f.final
  BY <1>1, FrameIs
<1>3. PICK c : cache' = Diff(c, f)
  BY DEF Resync
<1>4. /\ cache' = [id |-> cache'.id, book |-> cache'.book] /\ cache'.id = f.final
      /\ cache'.book = [l \in Levels |-> cache'.book[l]]
  BY <1>2, <1>3, BooksTyped DEF DepthInv
<1>5. trust' \in Nat /\ (trust' # Never => Mixed(cache'.book, f.final, trust'))
  <2>1. CASE trust' = Never
    BY <2>1, CacheIs
  <2>2. CASE trust' # Never
    <3>1. PICK n \in 1 .. head : /\ cache' = Diff(Snapshot(n), f) /\ f.first <= n + 1 /\ trust' = n
      BY <2>2 DEF Resync
    <3>2. n \in Nat /\ Snapshot(n).book = VenueBook(n)
      BY <3>1, CacheIs, SnapshotMixes
    <3>3. CASE f.final < n
      <4>1. \A l \in Levels : cache'.book[l] \in {LastSet(l, f.final), LastSet(l, n)}
        BY <3>1, <3>2 DEF Diff, VenueBook
      <4> QED
        BY <3>1, <3>2, <3>3, <4>1 DEF Mixed
    <3>4. CASE n <= f.final
      BY <1>2, <3>1, <3>2, <3>4, SnapshotMixes, DiffMixes
    <3> QED
      BY <1>2, <3>2, <3>3, <3>4
  <2> QED
    BY <2>1, <2>2
<1>6. BooksAreTheVenues'
  BY <1>1, <1>2, <1>4, <1>5, PublishedIsTrue
<1>7. PrevIsTheBook'
  BY <1>1, <1>2, <1>4 DEF PrevIsTheBook
<1>8. CASE link' = link /\ Consumed
  BY <1>1, <1>2, <1>4, <1>5, <1>6, <1>7, <1>8, CacheIs, AfterTheFrame
<1>9. CASE link' = "Disconnected" /\ queue' = <<>>
  BY <1>1, <1>2, <1>4, <1>5, <1>6, <1>9, CacheIs, AfterTheConnection
<1> QED
  BY <1>8, <1>9 DEF Resync

(* A frame that is the whole book.                                         *)
LEMMA BookComes ==
  ASSUME DepthInv, NEW f, WholeBook(f)
  PROVE  DepthInv'
<1>1. /\ Read(f) /\ f.type = "book" /\ cache' = Snapshot(f.final) /\ trust' = f.final /\ Consumed
      /\ Publish(cache') \/ shown' = shown
      /\ UNCHANGED <<venue, head, sent, link, prev, floor>>
  BY DEF WholeBook
<1>2. f.final \in 1 .. MaxUpdates /\ f.final \in Nat /\ f = queue[1] /\ 1 \in 1 .. Len(queue)
  BY <1>1, FrameIs
<1>3. venue \in {"push", "full"}
  BY <1>1, <1>2 DEF DepthInv, FramesOfTheVenue
<1>4. /\ cache' = [id |-> cache'.id, book |-> cache'.book] /\ cache'.id = f.final
      /\ cache'.book = [l \in Levels |-> cache'.book[l]] /\ Mixed(cache'.book, f.final, f.final)
  BY <1>1, <1>2, BooksTyped, SnapshotMixes DEF DepthInv
<1>5. BooksAreTheVenues'
  <2>1. CASE shown' = shown
    BY <2>1 DEF DepthInv, BooksAreTheVenues
  <2>2. CASE Publish(cache')
    BY <1>1, <1>2, <1>4, <2>2, PublishedIsTrue
  <2> QED
    BY <1>1, <2>1, <2>2
<1>6. PrevIsTheBook'
  BY <1>1, <1>3 DEF PrevIsTheBook
<1> QED
  BY <1>1, <1>2, <1>3, <1>4, <1>5, <1>6, CacheIs, AfterTheFrame

(* MEXC: the subscription is confirmed.                                    *)
LEMMA SubscriptionConfirmed ==
  ASSUME DepthInv, NEW f, Confirmed(f)
  PROVE  DepthInv'
<1>1. /\ Read(f) /\ f.type = "ack" /\ Consumed /\ UNCHANGED <<venue, head, sent, link, prev, shown>>
  BY DEF Confirmed
<1>2. f.final \in 1 .. MaxUpdates /\ f.final \in Nat /\ f = queue[1] /\ 1 \in 1 .. Len(queue)
  BY <1>1, FrameIs
<1>3. venue = "ack" /\ trust = Never
  BY <1>1, <1>2 DEF DepthInv, FramesOfTheVenue
<1>4. BooksAreTheVenues' /\ PrevIsTheBook'
  BY <1>1, <1>3 DEF DepthInv, BooksAreTheVenues, PrevIsTheBook
<1>5. ASSUME NEW n \in 1 .. head, cache' = Snapshot(n), floor' = TimeOf(n),
             trust' = IF n >= f.final THEN n ELSE Never
      PROVE  DepthInv'
  <2>1. n \in 0 .. MaxUpdates /\ n \in Nat /\ TimeOf(n) \in Nat
    BY CacheIs DEF TimeOf
  <2>2. /\ cache' = [id |-> cache'.id, book |-> cache'.book] /\ cache'.id = n
        /\ cache'.book = [l \in Levels |-> cache'.book[l]]
    BY <1>5, <2>1, BooksTyped, SnapshotMixes DEF DepthInv
  <2>3. trust' # Never => f.final <= n /\ trust' = n
    BY <1>5
  <2>4. cache'.book = VenueBook(n) /\ \A p \in Nat : p <= n => Mixed(cache'.book, p, n)
    BY <1>5, <2>1, SnapshotMixes
  <2>5. f.final < n \/ ~(f.final <= n) \/ TimeOf(n) = TimeOf(f.final)
    BY <1>2, <2>1
  <2>6. trust' \in Nat /\ prev' \in Nat
    BY <1>1, <1>5, <2>1, CacheIs
  <2>7. trust' # Never => Mixed(cache'.book, f.final, trust')
    BY <1>2, <2>3, <2>4
  <2>8. trust' # Never =>
          /\ floor' = TimeOf(trust')
          /\ (f.final < trust' /\ cache'.book = VenueBook(trust')) \/ floor' <= TimeOf(f.final)
    BY <1>2, <1>5, <2>1, <2>3, <2>4, <2>5
  <2> QED
    BY <1>1, <1>2, <1>3, <1>4, <1>5, <2>1, <2>2, <2>6, <2>7, <2>8, AfterTheFrame
<1>6. CASE UNCHANGED <<cache, floor, trust>>
  BY <1>1, <1>3, <1>4, <1>6, CacheIs, AfterTheFrame
<1> QED
  BY <1>5, <1>6 DEF Confirmed

(* Times of the venue do not go back.                                      *)
LEMMA TimesAscend ==
  ASSUME NEW m \in Nat, NEW n \in Nat
  PROVE  TimeOf(m) \in Nat /\ (m <= n => TimeOf(m) <= TimeOf(n))
BY DEF TimeOf

(* Bybit, OKX and MEXC: a frame that is applied, or is older than MEXC's   *)
(* snapshot.                                                               *)
LEMMA UncheckedFrame ==
  ASSUME DepthInv, NEW f, ApplyUnchecked(f)
  PROVE  DepthInv'
<1>1. /\ Read(f) /\ Consumed /\ venue \in {"push", "ack"}
      /\ UNCHANGED <<venue, head, sent, link, prev, floor>> /\ trust' = trust
      /\ IF Outdated(f) THEN cache' = cache /\ shown' = shown
         ELSE cache' = Diff(cache, f) /\ Publish(cache')
  BY DEF ApplyUnchecked
<1>2. /\ f.first \in Nat /\ f.final \in 1 .. MaxUpdates /\ f.final \in Nat /\ link = "Connected"
      /\ f.first = Reached + 1 /\ Reached \in Nat /\ f.first <= f.final
  BY <1>1, FrameIs
<1>3. PrevIsTheBook'
  BY <1>1 DEF PrevIsTheBook
<1>4. trust # Never =>
        /\ Mixed(cache.book, Reached, trust)
        /\ venue = "ack" =>
             /\ floor = TimeOf(trust)
             /\ (Reached < trust /\ cache.book = VenueBook(trust)) \/ floor <= TimeOf(Reached)
  BY <1>1, <1>2 DEF DepthInv, BookIsOnTheWay
<1>5. TimeOf(Reached) \in Nat /\ TimeOf(f.final) \in Nat /\ TimeOf(Reached) <= TimeOf(f.final)
  BY <1>2, TimesAscend
<1>6. trust \in Nat /\ TimeOf(trust) \in Nat /\ floor \in Nat
      /\ (trust <= f.final => TimeOf(trust) <= TimeOf(f.final))
  BY <1>2, CacheIs, TimesAscend
<1>7. CASE Outdated(f)
  <2>1. venue = "ack" /\ TimeOf(f.final) < floor
    BY <1>7 DEF Outdated
  <2>2. trust # Never => f.final < trust /\ cache.book = VenueBook(trust)
    BY <1>2, <1>4, <1>5, <1>6, <2>1
  <2>3. trust # Never => Mixed(cache.book, f.final, trust)
    BY <2>2 DEF Mixed, VenueBook
  <2>4. BooksAreTheVenues'
    BY <1>1, <1>7 DEF DepthInv, BooksAreTheVenues
  <2> QED
    BY <1>1, <1>3, <1>4, <1>7, <2>1, <2>2, <2>3, <2>4, CacheIs, AfterTheFrame
<1>8. CASE ~Outdated(f)
  <2>1. cache' = Diff(cache, f) /\ Publish(cache')
    BY <1>1, <1>8
  <2>2. trust # Never => Mixed(cache'.book, f.final, trust)
    BY <1>2, <1>4, <1>6, <2>1, DiffMixes
  <2>3. /\ cache' = [id |-> cache'.id, book |-> cache'.book] /\ cache'.id = f.final
        /\ cache'.book = [l \in Levels |-> cache'.book[l]]
    BY <1>2, <2>1, BooksTyped DEF DepthInv
  <2>4. BooksAreTheVenues'
    BY <1>1, <1>2, <1>6, <2>1, <2>2, <2>3, PublishedIsTrue
  <2>5. venue = "ack" => floor <= TimeOf(f.final)
    BY <1>5, <1>6, <1>8 DEF Outdated
  <2> QED
    BY <1>1, <1>2, <1>3, <1>4, <2>2, <2>3, <2>4, <2>5, CacheIs, AfterTheFrame
<1> QED
  BY <1>7, <1>8

(* A frame that does not parse.                                            *)
LEMMA FrameLost ==
  ASSUME DepthInv, NEW f, Unreadable(f)
  PROVE  DepthInv'
<1>1. /\ Read(f) /\ Consumed /\ UNCHANGED <<venue, head, sent, link, cache, prev, floor, shown>>
      /\ trust' = IF venue = "diff" THEN trust ELSE Never
  BY DEF Unreadable
<1>2. BooksAreTheVenues' /\ PrevIsTheBook'
  BY <1>1 DEF DepthInv, BooksAreTheVenues, PrevIsTheBook
<1>3. trust' # Never /\ venue = "diff" => Mixed(cache.book, cache.id, trust')
  BY <1>1, FrameIs DEF DepthInv, BookIsOnTheWay
<1> QED
  BY <1>1, <1>2, <1>3, CacheIs, AfterTheFrame

(* The first state, and every step.                                        *)
LEMMA DepthStarts ==
  ASSUME DepthInit
  PROVE  DepthInv
<1>1. MaxUpdates \in Nat \ {0} /\ Venues \subseteq Kinds
  BY DepthFeedAssumption
<1>2. DepthTypes
  BY <1>1 DEF DepthInit, DepthTypes, Never
<1> QED
  BY <1>2 DEF DepthInit, DepthInv, FramesFollow, FramesOfTheVenue, BookIsOnTheWay, PrevIsTheBook,
              BooksAreTheVenues

(* Every step keeps the order book of a venue.                             *)
LEMMA DepthStep ==
  ASSUME DepthInv, [DepthNext]_depthVars
  PROVE  DepthInv'
<1>1. CASE UNCHANGED depthVars
  BY <1>1 DEF depthVars, DepthInv, DepthTypes, FramesFollow, FramesOfTheVenue, BookIsOnTheWay,
              Reached, Mixed, PrevIsTheBook, BooksAreTheVenues
<1>2. CASE VenueUpdate \/ Connect \/ NoSnapshot \/ SocketDies
  BY <1>2, LinkChanges
<1>3. CASE VenueSends
  BY <1>3, FrameSent
<1>4. CASE FirstSnapshot
  BY <1>4, SnapshotComes
<1>5. ASSUME NEW f, FrameRead(f)
      PROVE  DepthInv'
  BY <1>5, OldFrame, FrameApplied, TrackLost, Resynced, BookComes, SubscriptionConfirmed,
     UncheckedFrame, FrameLost DEF FrameRead
<1> QED
  BY <1>1, <1>2, <1>3, <1>4, <1>5 DEF DepthNext

(* The book that is shown as sure is the venue's book as of the update it  *)
(* is dated with, at each of the four kinds of venues, for any number of   *)
(* updates, levels, connections, snapshots and lost frames.                *)
THEOREM BooksStayTheVenues == DepthSpec => []BooksAreTheVenues
<1>1. DepthInit => DepthInv
  BY DepthStarts
<1>2. DepthInv /\ [DepthNext]_depthVars => DepthInv'
  BY DepthStep
<1>3. DepthInv => BooksAreTheVenues
  BY DEF DepthInv
<1> QED
  BY <1>1, <1>2, <1>3, PTL DEF DepthSpec

-----------------------------------------------------------------------------
(* The types of the parts.                                                 *)

(* A set of numbers that is not empty has a least one.                     *)
LEMMA LeastOfNat ==
  ASSUME NEW S, S \subseteq Nat, S # {}
  PROVE  Min(S) \in S /\ \A y \in S : Min(S) <= y
<1>1. PICK x \in S : \A y \in S : ~(<<y, x>> \in OpToRel(<, Nat))
  BY NatLessThanWellFounded, WFMin
<1>2. \A y \in S : ~(y < x)
  BY <1>1 DEF OpToRel
<1>3. \A y \in S : x <= y
  BY <1>2
<1> QED
  BY <1>3 DEF Min

(* A set of numbers up to n that is not empty has a greatest one.          *)
LEMMA GreatestUpTo ==
  ASSUME NEW n \in Nat, NEW S, S \subseteq 0 .. n, S # {}
  PROVE  Max(S) \in S /\ \A y \in S : y <= Max(S)
<1> DEFINE below == {n - x : x \in S}
           m     == Min(below)
<1>1. m \in below /\ \A y \in below : m <= y
  <2>0. \A x \in S : n - x \in Nat
    OBVIOUS
  <2>1. below \subseteq Nat /\ below # {}
    BY <2>0
  <2> HIDE DEF below
  <2> QED
    BY <2>1, LeastOfNat
<1>2. PICK x \in S : m = n - x
  BY <1>1
<1> HIDE DEF m
<1>3. \A y \in S : n - x <= n - y
  BY <1>1, <1>2
<1>4. \A y \in S : x >= y
  BY <1>3
<1> QED
  BY <1>4 DEF Max

(* The lesser and the greater of two numbers.                              *)
LEMMA OfTwo ==
  ASSUME NEW a \in Int, NEW b \in Int
  PROVE  /\ Min({a, b}) \in Int /\ Min({a, b}) <= b
         /\ Max({a, b}) \in Int /\ b <= Max({a, b})
<1>1. \E x \in {a, b} : \A y \in {a, b} : x <= y
  OBVIOUS
<1>2. \E x \in {a, b} : \A y \in {a, b} : x >= y
  OBVIOUS
<1>3. Min({a, b}) \in {a, b} /\ \A y \in {a, b} : Min({a, b}) <= y
  BY <1>1 DEF Min
<1>4. Max({a, b}) \in {a, b} /\ \A y \in {a, b} : Max({a, b}) >= y
  BY <1>2 DEF Max
<1> QED
  BY <1>3, <1>4

(* The inductive invariant of the fetches' types: what they bring is of a  *)
(* time the venue has reached.                                             *)
FetchTypes ==
  /\ TypeOKFetch /\ ChartIsRecord
  /\ DOMAIN chart.bars \subseteq 0 .. MaxNow
  /\ fetches \subseteq [id : Ids, stream : Streams, range : Nat \X Nat]

(* The numbers that the ranges are computed from.                          *)
LEMMA FetchNumbers ==
  ASSUME FetchTypes
  PROVE  /\ MaxNow \in Nat /\ now \in Nat /\ now <= MaxNow
         /\ view[1] \in Nat /\ view[2] \in Nat
         /\ chart.timeframe \in Nat \ {0} /\ pane.timeframe \in Nat \ {0}
         /\ InitialBars * chart.timeframe \in Int
<1>1. chart.timeframe \in Nat \ {0} /\ pane.timeframe \in Nat \ {0}
  BY KlineFetchAssumption DEF FetchTypes, TypeOKFetch
<1> QED
  BY <1>1, KlineFetchAssumption DEF FetchTypes, TypeOKFetch

(* A difference that stops at 0 is a number.                               *)
LEMMA LessIsNat ==
  ASSUME NEW a \in Nat, NEW b \in Int
  PROVE  Less(a, b) \in Nat
BY DEF Less

(* So is a time that is aligned.                                           *)
LEMMA AlignedIsInt ==
  ASSUME NEW t \in Int, NEW phase \in Nat, NEW step \in Nat \ {0}
  PROVE  AlignDown(t, phase, step) \in Int
BY DEF AlignDown

(* And the time from which bars are fetched ahead.                         *)
LEMMA PrefetchIsNat ==
  ASSUME FetchTypes
  PROVE  Prefetch \in Nat
<1>1. view[1] \in Nat /\ view[2] - view[1] \in Int
  BY FetchNumbers
<1> QED
  BY <1>1, LessIsNat DEF Prefetch

(* The chart's first bar is at a time, or taken to be at 0.                *)
LEMMA EarliestIsNat ==
  ASSUME FetchTypes
  PROVE  Earliest \in Nat
<1>1. CASE DOMAIN chart.bars = {}
  BY <1>1 DEF Earliest
<1>2. CASE DOMAIN chart.bars # {}
  <2>1. DOMAIN chart.bars \subseteq Nat
    BY FetchNumbers DEF FetchTypes
  <2> QED
    BY <1>2, <2>1, LeastOfNat DEF Earliest
<1> QED
  BY <1>1, <1>2

(* The bars that are missing are before the chart's last one.              *)
LEMMA MissingAreTimes ==
  ASSUME FetchTypes, NEW e \in Nat
  PROVE  MissingBars(e) \subseteq 0 .. MaxNow
<1>1. CASE DOMAIN chart.bars = {}
  BY <1>1 DEF MissingBars
<1>2. CASE DOMAIN chart.bars # {}
  <2> DEFINE tf    == chart.timeframe
             last  == Max(DOMAIN chart.bars)
             a     == AlignDown(Max({Prefetch, e}), e % tf, tf)
             b     == AlignDown(Min({view[2] + tf, last}), e % tf, tf)
             from  == Max({a, e})
             until == Min({b, last})
  <2>1. last \in 0 .. MaxNow
    BY <1>2, FetchNumbers, GreatestUpTo DEF FetchTypes
  <2>2. tf \in Nat \ {0} /\ e % tf \in Nat /\ view[2] + tf \in Int
    BY FetchNumbers
  <2>3. Prefetch \in Int /\ e \in Int
    BY PrefetchIsNat
  <2> HIDE DEF tf, last
  <2>4. Max({Prefetch, e}) \in Int
    BY <2>3, OfTwo, Zenon
  <2>5. Min({view[2] + tf, last}) \in Int
    <3>1. last \in Int
      BY <2>1
    <3> QED
      BY <2>2, <3>1, OfTwo, Zenon
  <2>6. a \in Int /\ b \in Int
    BY <2>2, <2>4, <2>5, AlignedIsInt
  <2> HIDE DEF a, b
  <2>7. from \in Int /\ e <= from /\ until \in Int /\ until <= last
    <3>1. last \in Int
      BY <2>1
    <3> QED
      BY <2>3, <2>6, <3>1, OfTwo, Zenon
  <2>8. MissingBars(e) \subseteq from .. until - 1
    BY <1>2 DEF MissingBars, tf, last, a, b
  <2> HIDE DEF from, until
  <2>9. from .. until - 1 \subseteq 0 .. MaxNow
    BY <2>1, <2>7, FetchNumbers
  <2> QED
    BY <2>8, <2>9
<1> QED
  BY <1>1, <1>2

(* What is wanted are ranges of times.                                     *)
LEMMA WantedAreRanges ==
  ASSUME FetchTypes
  PROVE  Wanted \in Seq(Nat \X Nat)
<1> DEFINE e == Earliest
           missing == MissingBars(e)
           Range2  == Nat \X Nat
<1>1. e \in Nat /\ missing \subseteq 0 .. MaxNow /\ MaxNow \in Nat
  BY EarliestIsNat, MissingAreTimes, FetchNumbers
<1>2. Latest \in Range2
  BY FetchNumbers, LessIsNat DEF Latest
<1>3. <<Prefetch, e>> \in Range2
  BY <1>1, PrefetchIsNat
<1>4. ASSUME missing # {}
      PROVE  Around(missing) \in Range2
  <2>1. Min(missing) \in missing /\ Max(missing) \in missing
    <3>1. missing \subseteq Nat
      BY <1>1
    <3> HIDE DEF missing
    <3> QED
      BY <1>1, <1>4, <3>1, LeastOfNat, GreatestUpTo
  <2> HIDE DEF missing
  <2> DEFINE least == Min(missing)
             most  == Max(missing)
             tf    == chart.timeframe
  <2>2. least \in Nat /\ most \in Nat
    <3>1. \A x \in missing : x \in Nat
      BY <1>1
    <3> QED
      BY <2>1, <3>1, Zenon
  <2>3. tf \in Nat
    BY FetchNumbers
  <2>4. Around(missing) = <<Less(least, tf), most + tf>>
    BY DEF Around
  <2> HIDE DEF least, most, tf
  <2>5. Less(least, tf) \in Nat /\ most + tf \in Nat
    BY <2>2, <2>3, LessIsNat
  <2> QED
    BY <2>4, <2>5
<1> DEFINE s1 == IF DOMAIN chart.bars = {} THEN <<Latest>> ELSE <<>>
           s2 == IF view[1] < e THEN <<<<Prefetch, e>>>> ELSE <<>>
           s3 == IF missing # {} THEN <<Around(missing)>> ELSE <<>>
<1>5. s1 \in Seq(Range2) /\ s2 \in Seq(Range2) /\ s3 \in Seq(Range2)
  <2> HIDE DEF Range2, missing, e
  <2> QED
    BY <1>2, <1>3, <1>4
<1>6. Wanted = s1 \o s2 \o s3
  BY DEF Wanted
<1> HIDE DEF s1, s2, s3, Range2
<1>7. s1 \o s2 \o s3 \in Seq(Range2)
  BY <1>5, ConcatProperties
<1> QED
  BY <1>6, <1>7 DEF Range2

(* So is the one that is asked for.                                        *)
LEMMA NextIsARange ==
  ASSUME FetchTypes, NEW range \in NextRequest
  PROVE  range \in Nat \X Nat
<1>1. range \in FirstGranted(Wanted)
  BY DEF NextRequest
<1>2. PICK i \in DOMAIN Wanted : range = Wanted[i]
  BY <1>1 DEF FirstGranted
<1> QED
  BY <1>2, WantedAreRanges, ElementOfSeq

(* The bars an answer brings.                                              *)
LEMMA FetchedAreBars ==
  ASSUME FetchTypes, NEW f \in fetches
  PROVE  /\ DOMAIN FetchedBars(f) \subseteq 0 .. MaxNow
         /\ \A t \in DOMAIN FetchedBars(f) : FetchedBars(f)[t] \in Streams
<1>1. f.stream \in Streams /\ VenueBars(f.stream) \subseteq 0 .. MaxNow
  BY FetchNumbers DEF FetchTypes, VenueBars
<1> QED
  BY <1>1 DEF FetchedBars, BarsOf

(* Fetches that are forgotten keep their types.                            *)
LEMMA ForgottenTyped ==
  ASSUME FetchTypes
  PROVE  Forgotten \subseteq [id : Ids, stream : Streams, range : Nat \X Nat]
BY DEF FetchTypes, Forgotten, Ids

(* A chart that was emptied.                                               *)
LEMMA EmptyTyped ==
  ASSUME NEW tf, NEW replay, Fresh(EmptyChart(tf, replay))
  PROVE  /\ ChartIsRecord' /\ chart'.timeframe = tf /\ chart'.replay = replay
         /\ DOMAIN chart'.bars = {} /\ DOMAIN requests' = {} /\ erred' = FALSE
BY DEF Fresh, EmptyChart, BarsOf, NoRequests, ChartIsRecord

(* The bar that is now is not ahead of now.                                *)
LEMMA TimeIsSoFar ==
  ASSUME NEW a \in Nat, NEW b \in Nat \ {0}
  PROVE  a - (a % b) \in 0 .. a
<1>1. \A p \in Nat : b * p \in Nat
  BY Z3
<1> QED
  BY <1>1, Division

(* Every step of the fetches keeps the types.                              *)
LEMMA FetchTypesStep ==
  ASSUME FetchTypes, [FetchNext]_fetchVars
  PROVE  FetchTypes'
<1> DEFINE Fetch == [id : Ids, stream : Streams, range : Nat \X Nat]
<1>0. /\ TypeOKFetch /\ ChartIsRecord /\ fetches \subseteq Fetch
      /\ DOMAIN chart.bars \subseteq 0 .. MaxNow
      /\ \A s \in Streams : s.timeframe \in Nat \ {0}
      /\ MaxNow \in Nat
  BY KlineFetchAssumption DEF FetchTypes
<1>a. \A f \in Fetch : f.id \in Ids /\ f.stream \in Streams /\ f.range \in Nat \X Nat
  OBVIOUS
<1>b. ASSUME fetches' \subseteq Fetch, UNCHANGED <<live, now, pane, view, chart, requests>>,
             erred' \in BOOLEAN
      PROVE  FetchTypes'
  BY <1>0, <1>a, <1>b DEF FetchTypes, TypeOKFetch, ChartIsRecord
<1>c. ASSUME NEW tf \in {s.timeframe : s \in Streams}, NEW replay \in BOOLEAN,
             Fresh(EmptyChart(tf, replay)),
             fetches' \subseteq Fetch, live' \in BOOLEAN, pane' \in Streams, view' \in Views, now' = now
      PROVE  FetchTypes'
  BY <1>0, <1>a, <1>c, EmptyTyped DEF FetchTypes, TypeOKFetch
<1>d. pane.timeframe \in {s.timeframe : s \in Streams} /\ Forgotten \subseteq Fetch
  BY <1>0, ForgottenTyped DEF TypeOKFetch
<1>e. \A f \in fetches : fetches \ {f} \subseteq Fetch /\ Forgotten \ {f} \subseteq Fetch
  BY <1>0, <1>d
<1> HIDE DEF Fetch
<1>1. CASE UNCHANGED fetchVars
  BY <1>0, <1>1, <1>b DEF fetchVars, TypeOKFetch
<1>2. ASSUME NEW v \in Views, Pan(v)
      PROVE  FetchTypes'
  BY <1>0, <1>a, <1>2 DEF Pan, FetchTypes, TypeOKFetch, ChartIsRecord, Fetch
<1>3. ASSUME NEW s \in Streams, ChangeTimeframe(s)
      PROVE  FetchTypes'
  <2>1. s.timeframe \in {u.timeframe : u \in Streams} /\ chart.replay \in BOOLEAN
        /\ live \in BOOLEAN /\ view \in Views
    BY <1>0 DEF TypeOKFetch
  <2> QED
    BY <1>3, <1>c, <1>d, <2>1 DEF ChangeTimeframe
<1>4. ASSUME NEW s \in Streams, SwitchTicker(s)
      PROVE  FetchTypes'
  <2>1. s.timeframe \in {u.timeframe : u \in Streams} /\ live \in BOOLEAN /\ view \in Views
    BY <1>0 DEF TypeOKFetch
  <2>2. FirstFetch(s) \in Fetch
    BY DEF FirstFetch, Fetch, Ids
  <2>3. fetches' \subseteq Fetch
    BY <1>4, <1>d, <2>2 DEF SwitchTicker
  <2> QED
    BY <1>4, <1>c, <2>1, <2>3 DEF SwitchTicker
<1>5. CASE ToggleMode
  <2>1. chart.timeframe \in {u.timeframe : u \in Streams} /\ live \in BOOLEAN /\ view \in Views
        /\ pane \in Streams
    BY <1>0 DEF TypeOKFetch
  <2> QED
    BY <1>5, <1>c, <1>d, <2>1 DEF ToggleMode
<1>6. CASE ResetForSeek
  <2>1. chart.timeframe \in {u.timeframe : u \in Streams} /\ live \in BOOLEAN /\ view \in Views
        /\ pane \in Streams
    BY <1>0 DEF TypeOKFetch
  <2> QED
    BY <1>6, <1>c, <1>d, <2>1 DEF ResetForSeek
<1>7. CASE FetchMissingData
  <2>1. PICK range \in NextRequest :
          /\ fetches' = fetches \cup {[id |-> "known", stream |-> pane, range |-> range]}
          /\ requests' = IF range \in DOMAIN requests THEN requests
                         ELSE Over([r \in {range} |-> "Pending"], requests)
    BY <1>7 DEF FetchMissingData
  <2>2. fetches' \subseteq Fetch
    BY <1>0, <2>1, NextIsARange DEF Fetch, TypeOKFetch, Ids
  <2>3. \A r \in DOMAIN requests' : requests'[r] \in Status
    BY <1>0, <2>1 DEF TypeOKFetch, Over, Status
  <2> QED
    BY <1>0, <1>7, <1>a, <2>2, <2>3 DEF FetchMissingData, FetchTypes, TypeOKFetch, ChartIsRecord, Fetch
<1>8. ASSUME NEW range \in DOMAIN requests, CoolDown(range)
      PROVE  FetchTypes'
  <2>1. \A r \in DOMAIN requests' : requests'[r] \in Status
    BY <1>0, <1>8 DEF CoolDown, TypeOKFetch, Status
  <2> QED
    BY <1>0, <1>8, <1>a, <2>1 DEF CoolDown, FetchTypes, TypeOKFetch, ChartIsRecord, Fetch
<1>9. ASSUME NEW f \in fetches, FirstBars(f)
      PROVE  FetchTypes'
  <2>1. /\ DOMAIN FetchedBars(f) \subseteq 0 .. MaxNow
        /\ \A t \in DOMAIN FetchedBars(f) : FetchedBars(f)[t] \in Streams
    BY FetchedAreBars
  <2>2. f.stream \in Streams
    BY <1>0, <1>a
  <2>3. /\ ChartIsRecord' /\ chart'.timeframe = f.stream.timeframe /\ chart'.replay = FALSE
        /\ chart'.bars = FetchedBars(f)
    BY <1>9 DEF FirstBars, ChartIsRecord
  <2>4. DOMAIN requests' = {} /\ erred' = FALSE /\ fetches' \subseteq Fetch
        /\ UNCHANGED <<live, now, pane, view>>
    BY <1>9, <1>e DEF FirstBars, NoRequests
  <2>5. chart'.timeframe \in {u.timeframe : u \in Streams}
    BY <2>2, <2>3
  <2>6. \A t \in DOMAIN chart'.bars : t \in Nat /\ chart'.bars[t] \in Streams
    BY <1>0, <2>1, <2>3
  <2> QED
    BY <1>0, <1>a, <2>1, <2>3, <2>4, <2>5, <2>6 DEF FetchTypes, TypeOKFetch, Fetch
<1>10. ASSUME NEW f \in fetches, StaleBars(f)
       PROVE  FetchTypes'
  BY <1>0, <1>10, <1>b, <1>e DEF StaleBars, Arrived, TypeOKFetch
<1>11. ASSUME NEW f \in fetches, HistBars(f)
       PROVE  FetchTypes'
  <2>1. /\ DOMAIN FetchedBars(f) \subseteq 0 .. MaxNow
        /\ \A t \in DOMAIN FetchedBars(f) : FetchedBars(f)[t] \in Streams
    BY FetchedAreBars
  <2>2. /\ ChartIsRecord' /\ chart'.timeframe = chart.timeframe /\ chart'.replay = chart.replay
        /\ chart'.bars = Over(FetchedBars(f), chart.bars)
    BY <1>0, <1>11 DEF HistBars, ChartIsRecord
  <2>3. /\ DOMAIN chart'.bars \subseteq 0 .. MaxNow
        /\ \A t \in DOMAIN chart'.bars : t \in Nat /\ chart'.bars[t] \in Streams
    BY <1>0, <2>1, <2>2 DEF Over, TypeOKFetch
  <2>4. \A r \in DOMAIN requests' : requests'[r] \in Status
    <3>1. Outcome(f) \in Status
      BY DEF Outcome, Status
    <3> QED
      BY <1>0, <1>11, <3>1 DEF HistBars, TypeOKFetch
  <2>5. fetches' \subseteq Fetch /\ UNCHANGED <<live, now, pane, view, erred>>
    BY <1>11, <1>e DEF HistBars, Arrived
  <2> QED
    BY <1>0, <1>a, <2>2, <2>3, <2>4, <2>5 DEF FetchTypes, TypeOKFetch, Fetch
<1>12. ASSUME NEW f \in fetches, FetchFails(f)
       PROVE  FetchTypes'
  <2>1. erred' \in BOOLEAN /\ fetches' \subseteq Fetch
    BY <1>0, <1>12, <1>e DEF FetchFails, Arrived, TypeOKFetch
  <2> QED
    BY <1>12, <1>b, <2>1 DEF FetchFails
<1>13. CASE KlineReceived
  <2> DEFINE t == now - (now % pane.timeframe)
  <2>1. t \in 0 .. MaxNow
    BY FetchNumbers, TimeIsSoFar
  <2>2. /\ ChartIsRecord' /\ chart'.timeframe = chart.timeframe /\ chart'.replay = chart.replay
        /\ chart'.bars = Over(BarsOf(pane, {t}), chart.bars)
    BY <1>0, <1>13 DEF KlineReceived, ChartIsRecord
  <2>3. UNCHANGED <<live, now, pane, view, requests, fetches, erred>>
    BY <1>13 DEF KlineReceived
  <2> HIDE DEF t
  <2>4. /\ DOMAIN chart'.bars \subseteq 0 .. MaxNow
        /\ \A u \in DOMAIN chart'.bars : u \in Nat /\ chart'.bars[u] \in Streams
    BY <1>0, <2>1, <2>2 DEF Over, BarsOf, TypeOKFetch
  <2> QED
    BY <1>0, <1>a, <2>2, <2>3, <2>4 DEF FetchTypes, TypeOKFetch, Fetch
<1>14. CASE TimePasses
  <2>1. now' \in 0 .. MaxNow
    BY <1>14, FetchNumbers DEF TimePasses
  <2> QED
    BY <1>0, <1>14, <2>1 DEF TimePasses, FetchTypes, TypeOKFetch, ChartIsRecord, Fetch
<1> QED
  BY <1>1, <1>2, <1>3, <1>4, <1>5, <1>6, <1>7, <1>8, <1>9, <1>10, <1>11, <1>12, <1>13, <1>14
     DEF FetchNext, FetchHands, FetchWorks, SomeFetchFails, Answer

(* The types hold of the fetches at the start.                             *)
LEMMA FetchTypesStart == FetchInit => FetchTypes
<1> SUFFICES ASSUME FetchInit
             PROVE  FetchTypes
  OBVIOUS
<1>1. /\ pane \in Streams /\ view \in Views /\ chart = EmptyChart(pane.timeframe, FALSE)
      /\ requests = NoRequests /\ fetches = {FirstFetch(pane)} /\ live = TRUE /\ erred = FALSE
      /\ now \in 0 .. MaxNow
  BY KlineFetchAssumption DEF FetchInit
<1>2. /\ ChartIsRecord /\ chart.timeframe = pane.timeframe /\ chart.replay = FALSE
      /\ DOMAIN chart.bars = {} /\ DOMAIN requests = {}
  BY <1>1 DEF EmptyChart, BarsOf, NoRequests, ChartIsRecord
<1>3. FirstFetch(pane) \in [id : Ids, stream : Streams, range : Nat \X Nat]
  BY <1>1 DEF FirstFetch, Ids
<1> QED
  BY <1>1, <1>2, <1>3 DEF FetchTypes, TypeOKFetch

(* The types of the trades, with the bounds of the run.                    *)
TradeBounds ==
  /\ TypeOKTrade
  /\ frames \in Seq([ticker : Tickers, trades : Trades])

(* Putting trades after trades gives trades.                               *)
LEMMA TradesConcat ==
  ASSUME NEW s \in Trades, NEW u \in Trades
  PROVE  s \o u \in Trades
BY ConcatProperties DEF Trades

(* A flush keeps the types.                                                *)
LEMMA FlushTyped ==
  ASSUME TradeBounds, NEW b \in [Tickers -> Trades], Flush(b)
  PROVE  buffers' \in [Tickers -> Trades] /\ handed' \in [Tickers -> Trades]
<1>1. buffers' = [t \in Tickers |-> <<>>] /\ <<>> \in Trades
  BY DEF Flush, NoTrades, Trades
<1>2. handed' = [t \in Tickers |-> handed[t] \o b[t]] /\ handed \in [Tickers -> Trades]
  BY DEF Flush, HandOn, TradeBounds, TypeOKTrade
<1>3. \A t \in Tickers : handed[t] \o b[t] \in Trades
  BY <1>2, TradesConcat
<1> HIDE DEF Trades
<1> QED
  BY <1>1, <1>2, <1>3

(* Every step of the trades keeps the types.                               *)
LEMMA TradeBoundsStep ==
  ASSUME TradeBounds, [TradeNext]_tradeVars
  PROVE  TradeBounds'
<1> DEFINE Frame == [ticker : Tickers, trades : Trades]
<1>0. /\ traded \in [Tickers -> 0 .. MaxTrades] /\ MaxTrades \in Nat /\ MaxFrames \in Nat
      /\ frames \in Seq(Frame) /\ Len(frames) <= MaxFrames
      /\ open \in BOOLEAN /\ due \in BOOLEAN
      /\ buffers \in [Tickers -> Trades]
      /\ handed \in [Tickers -> Trades] /\ read \in [Tickers -> Trades]
  BY TradeFeedAssumption DEF TradeBounds, TypeOKTrade
<1>a. ASSUME traded' \in [Tickers -> 0 .. MaxTrades],
             frames' \in Seq(Frame), Len(frames') <= MaxFrames,
             open' \in BOOLEAN, due' \in BOOLEAN,
             buffers' \in [Tickers -> Trades],
             handed' \in [Tickers -> Trades], read' \in [Tickers -> Trades]
      PROVE  TradeBounds'
  <2> HIDE DEF Frame
  <2>1. \A i \in DOMAIN frames' : frames'[i] \in Frame
    BY <1>a
  <2>2. \A i \in DOMAIN frames' : frames'[i].ticker \in Tickers /\ frames'[i].trades \in Trades
    BY <2>1 DEF Frame
  <2> QED
    BY <1>a, <2>2 DEF TradeBounds, TypeOKTrade, Frame
<1>b. /\ <<>> \in Seq(Frame) /\ Len(<<>>) <= MaxFrames
      /\ NoTrades \in [Tickers -> Trades]
  <2>1. <<>> \in Trades
    BY DEF Trades
  <2> QED
    BY <1>0, <2>1 DEF NoTrades
<1>c. ASSUME frames # <<>>
      PROVE  /\ Tail(frames) \in Seq(Frame) /\ Len(Tail(frames)) <= MaxFrames
             /\ Head(frames) \in Frame
  <2> HIDE DEF Frame
  <2> QED
    BY <1>0, <1>c
<1> HIDE DEF Frame
<1>1. CASE UNCHANGED tradeVars
  BY <1>0, <1>1, <1>a DEF tradeVars
<1>2. ASSUME NEW t \in Tickers, UnheardTrade(t)
      PROVE  TradeBounds'
  <2>1. traded' \in [Tickers -> 0 .. MaxTrades]
    BY <1>0, <1>2 DEF UnheardTrade
  <2> QED
    BY <1>0, <1>2, <1>a, <2>1 DEF UnheardTrade
<1>3. ASSUME NEW t \in Tickers, NEW n \in 0 .. 2, VenueTrades(t, n)
      PROVE  TradeBounds'
  <2> DEFINE made == [i \in 1 .. n |-> traded[t] + i]
             f    == [ticker |-> t, trades |-> made]
  <2>1. traded' \in [Tickers -> 0 .. MaxTrades]
    BY <1>0, <1>3 DEF VenueTrades
  <2>2. \A i \in 1 .. n : traded[t] + i \in 1 .. MaxTrades
    BY <1>0, <1>3 DEF VenueTrades
  <2>3. made \in Trades
    BY <2>2 DEF Trades
  <2>4. f \in Frame
    BY <2>3 DEF Frame
  <2>5. frames' = Append(frames, f) /\ Len(frames) < MaxFrames
    BY <1>3 DEF VenueTrades
  <2> HIDE DEF f
  <2>6. frames' \in Seq(Frame) /\ Len(frames') <= MaxFrames
    BY <1>0, <2>4, <2>5
  <2> QED
    BY <1>0, <1>3, <1>a, <2>1, <2>6 DEF VenueTrades
<1>4. CASE IntervalPasses
  BY <1>0, <1>4, <1>a DEF IntervalPasses
<1>5. CASE FrameOfTrades
  <2> DEFINE f == Head(frames)
             b == [buffers EXCEPT ![f.ticker] = @ \o f.trades]
             r == [read EXCEPT ![f.ticker] = @ \o f.trades]
  <2>1. /\ frames # <<>> /\ frames' = Tail(frames) /\ read' = r
        /\ Flush(b) \/ (buffers' = b /\ UNCHANGED handed)
        /\ due' = FALSE /\ UNCHANGED <<traded, open>>
    BY <1>5 DEF FrameOfTrades
  <2>2. f.ticker \in Tickers /\ f.trades \in Trades
    BY <1>c, <2>1 DEF Frame
  <2> HIDE DEF f
  <2>3. buffers[f.ticker] \o f.trades \in Trades /\ read[f.ticker] \o f.trades \in Trades
    BY <1>0, <2>2, TradesConcat
  <2>4. b \in [Tickers -> Trades] /\ r \in [Tickers -> Trades]
    BY <1>0, <2>2, <2>3
  <2> HIDE DEF b, r
  <2>5. buffers' \in [Tickers -> Trades] /\ handed' \in [Tickers -> Trades]
    BY <1>0, <2>1, <2>4, FlushTyped
  <2> QED
    BY <1>0, <1>a, <1>c, <2>1, <2>4, <2>5
<1>6. CASE UnreadableTrades
  <2>1. buffers' \in [Tickers -> Trades] /\ handed' \in [Tickers -> Trades]
    BY <1>0, <1>6, FlushTyped DEF UnreadableTrades
  <2> QED
    BY <1>0, <1>6, <1>a, <1>c, <2>1 DEF UnreadableTrades
<1>7. CASE StreamCloses
  <2>1. buffers' \in [Tickers -> Trades] /\ handed' \in [Tickers -> Trades]
    BY <1>0, <1>7, FlushTyped DEF StreamCloses
  <2> QED
    BY <1>0, <1>7, <1>a, <1>b, <2>1 DEF StreamCloses
<1>8. CASE PingFails
  BY <1>0, <1>8, <1>a, <1>b DEF PingFails
<1>9. CASE Reconnect
  BY <1>0, <1>9, <1>a DEF Reconnect
<1>10. CASE Resubscribe
  BY <1>0, <1>10, <1>a, <1>b DEF Resubscribe
<1> QED
  BY <1>1, <1>2, <1>3, <1>4, <1>5, <1>6, <1>7, <1>8, <1>9, <1>10 DEF TradeNext

(* The types hold of the trades at the start.                              *)
LEMMA TradeBoundsStart == TradeInit => TradeBounds
<1> SUFFICES ASSUME TradeInit
             PROVE  TradeBounds
  OBVIOUS
<1>1. NoTrades \in [Tickers -> Trades]
  BY DEF NoTrades, Trades
<1>2. /\ frames \in Seq([ticker : Tickers, trades : Trades]) /\ DOMAIN frames = {}
      /\ Len(frames) <= MaxFrames
  BY TradeFeedAssumption DEF TradeInit
<1>3. traded \in [Tickers -> 0 .. MaxTrades]
  BY TradeFeedAssumption DEF TradeInit
<1> QED
  BY <1>1, <1>2, <1>3 DEF TradeInit, TradeBounds, TypeOKTrade

(* The types of the limiter, with the bounds of the run.                   *)
LimiterBounds ==
  /\ clock \in 0 .. MaxTime /\ bucket.refilled \in 0 .. MaxTime
  /\ \A t \in Tasks : task[t].weight \in Weights \cup {0}

(* What the invariant says of the limiter's records.                       *)
LEMMA LimiterRecords ==
  ASSUME LimiterInv
  PROVE  /\ bucket = [tokens |-> bucket.tokens, refilled |-> bucket.refilled,
                      used |-> bucket.used, updated |-> bucket.updated]
         /\ DOMAIN task = Tasks
         /\ MaxTime \in Nat
BY RateLimiterAssumption DEF LimiterInv, LimiterTypes

(* Sending and waiting keep the bounds of the tasks.                       *)
LEMMA TaskBounds ==
  ASSUME LimiterInv, LimiterBounds, NEW t \in Tasks, NEW w \in Weights \cup {0},
         NEW until, Sent(t, w) \/ Waits(t, w, until)
  PROVE  \A u \in Tasks : task'[u].weight \in Weights \cup {0}
<1>1. \A u \in Tasks : task'[u] = IF u = t THEN task'[t] ELSE task[u]
  BY LimiterRecords DEF Sent, Waits
<1>2. task'[t].weight = w
  <2>1. CASE Sent(t, w)
    BY <2>1, LimiterRecords DEF Sent
  <2>2. CASE Waits(t, w, until)
    BY <2>2, LimiterRecords DEF Waits, Idle
  <2> QED
    BY <2>1, <2>2
<1> QED
  BY <1>1, <1>2 DEF LimiterBounds

(* Every step of the limiter keeps its bounds.                             *)
LEMMA LimiterBoundsStep ==
  ASSUME LimiterInv, LimiterBounds, [LimiterNext]_limiterVars
  PROVE  LimiterBounds'
<1> USE DEF LimiterBounds
<1>1. CASE UNCHANGED limiterVars
  BY <1>1 DEF limiterVars
<1>2. ASSUME NEW t \in Tasks, NEW w \in Weights, RequestByHeader(t, w)
      PROVE  LimiterBounds'
  <2>1. UNCHANGED <<clock, bucket>> /\ (Sent(t, w) \/ Waits(t, w, NextPeriod))
    BY <1>2 DEF RequestByHeader, Sent, Waits
  <2> QED
    BY <2>1, TaskBounds
<1>3. ASSUME NEW t \in Tasks, NEW w \in Weights, RequestByWindow(t, w)
      PROVE  LimiterBounds'
  <2>1. UNCHANGED clock /\ (Sent(t, w) \/ Waits(t, w, Refilled.refilled + Period))
    BY <1>3 DEF RequestByWindow, Sent, Waits
  <2>2. bucket' = [Refilled EXCEPT !.tokens = @ - w] \/ bucket' = Refilled
    BY <1>3 DEF RequestByWindow
  <2>3. /\ Refilled = [tokens |-> Refilled.tokens, refilled |-> Refilled.refilled,
                       used |-> Refilled.used, updated |-> Refilled.updated]
        /\ Refilled.refilled \in {clock, bucket.refilled}
    BY LimiterRecords DEF Refilled
  <2>4. bucket'.refilled = Refilled.refilled
    BY <2>2, <2>3
  <2> QED
    BY <2>1, <2>3, <2>4, TaskBounds
<1>4. ASSUME NEW t \in Tasks, WaitIsOver(t)
      PROVE  LimiterBounds'
  <2>1. UNCHANGED <<clock, bucket>> /\ Sent(t, task[t].weight)
    BY <1>4 DEF WaitIsOver, Sent
  <2> QED
    BY <2>1, TaskBounds
<1>5. ASSUME NEW t \in Tasks, Answered(t) \/ RequestFails(t)
      PROVE  LimiterBounds'
  <2>1. task' = [task EXCEPT ![t] = Idle] /\ UNCHANGED clock
    BY <1>5 DEF Answered, RequestFails
  <2>2. bucket'.refilled = bucket.refilled
    BY <1>5, LimiterRecords DEF Answered, RequestFails
  <2>3. \A u \in Tasks : task'[u] = IF u = t THEN Idle ELSE task[u]
    BY <2>1, LimiterRecords
  <2> QED
    BY <2>1, <2>2, <2>3 DEF Idle
<1>6. CASE SecondPasses
  <2>1. clock' \in 0 .. MaxTime /\ UNCHANGED <<bucket, task>>
    BY <1>6, LimiterRecords DEF SecondPasses
  <2> QED
    BY <2>1
<1> QED
  BY <1>1, <1>2, <1>3, <1>4, <1>5, <1>6 DEF LimiterNext

(* The bounds hold of the limiter at the start.                            *)
LEMMA LimiterBoundsStart == LimiterInit => LimiterBounds
BY RateLimiterAssumption DEF LimiterInit, LimiterBounds, Idle

(* The limiter keeps to its types.                                         *)
LEMMA LimiterTyped == LimiterInv /\ LimiterBounds => TypeOKLimiter
<1> SUFFICES ASSUME LimiterInv, LimiterBounds
             PROVE  TypeOKLimiter
  OBVIOUS
<1>1. bucket.updated \in 0 .. MaxTime
  BY LimiterRecords DEF LimiterInv, LimiterTypes, LimiterBounds
<1> QED
  BY <1>1 DEF TypeOKLimiter, LimiterInv, LimiterTypes, LimiterBounds

(* The types of the order book, with the bounds of the run.                *)
DepthBounds ==
  /\ venue \in Venues /\ Len(queue) <= MaxQueue
  /\ cache.book \in Books
  /\ shown = [at |-> shown.at, book |-> shown.book, sure |-> shown.sure]
  /\ shown.book \in Books /\ shown.at \in 0 .. MaxUpdates
  /\ prev \in 0 .. MaxUpdates /\ trust \in 1 .. Never

(* The venue's book is a book.                                             *)
LEMMA VenueBooks ==
  ASSUME NEW n \in Updates
  PROVE  VenueBook(n) \in Books
<1> SUFFICES ASSUME NEW l \in Levels
             PROVE  LastSet(l, n) \in 0 .. MaxUpdates
  BY DEF VenueBook, Books
<1> DEFINE S == {0} \cup {i \in 1 .. n : LevelOf[i] = l}
<1>1. MaxUpdates \in Nat
  BY DepthFeedAssumption
<1>2. S \subseteq 0 .. MaxUpdates /\ S # {}
  BY <1>1 DEF Updates
<1>3. LastSet(l, n) = Max(S)
  BY DEF LastSet
<1> HIDE DEF S
<1> QED
  BY <1>1, <1>2, <1>3, GreatestUpTo

(* So is one that a frame changed.                                         *)
LEMMA ChangedBooks ==
  ASSUME NEW n \in Updates, NEW c, c.book \in Books, NEW f, f.final \in Updates
  PROVE  /\ Snapshot(n).id = n /\ Snapshot(n).book \in Books
         /\ Diff(c, f).id = f.final /\ Diff(c, f).book \in Books
         /\ Diff(Snapshot(n), f).id = f.final /\ Diff(Snapshot(n), f).book \in Books
<1>1. Snapshot(n).id = n /\ Snapshot(n).book = VenueBook(n)
  BY DEF Snapshot
<1>2. \A d : d.book \in Books => Diff(d, f).id = f.final /\ Diff(d, f).book \in Books
  <2> SUFFICES ASSUME NEW d, d.book \in Books
               PROVE  Diff(d, f).id = f.final /\ Diff(d, f).book \in Books
    OBVIOUS
  <2>1. VenueBook(f.final) \in [Levels -> 0 .. MaxUpdates] /\ d.book \in [Levels -> 0 .. MaxUpdates]
    BY VenueBooks DEF Books
  <2> QED
    BY <2>1 DEF Diff, Books
<1> QED
  BY <1>1, <1>2, VenueBooks

(* What is shown is the book that is published.                            *)
LEMMA PublishedTyped ==
  ASSUME NEW c, c.book \in Books, c.id \in Updates, Publish(c)
  PROVE  /\ shown' = [at |-> shown'.at, book |-> shown'.book, sure |-> shown'.sure]
         /\ shown'.book \in Books /\ shown'.at \in 0 .. MaxUpdates
<1>1. shown'.at = c.id /\ shown'.book = c.book
  BY DEF Publish
<1> QED
  BY <1>1, DepthFeedAssumption DEF Publish, Updates

(* Every step of the order book keeps the bounds.                          *)
LEMMA DepthBoundsStep ==
  ASSUME DepthInv, DepthBounds, [DepthNext]_depthVars
  PROVE  DepthBounds'
<1>0. /\ MaxUpdates \in Nat \ {0} /\ MaxQueue \in Nat \ {0} /\ queue \in Seq(Queued)
      /\ head \in Updates /\ \A n \in 1 .. head : n \in Updates /\ n \in 1 .. Never
      /\ Never \in 1 .. Never /\ 0 \in 0 .. MaxUpdates
      /\ \A n \in Updates : n \in 0 .. MaxUpdates /\ n \in 1 .. Never
  BY DepthFeedAssumption DEF DepthInv, DepthTypes, Updates, Never
<1>a. ASSUME Len(queue') <= MaxQueue, UNCHANGED <<venue, cache, prev, shown>>, trust' \in 1 .. Never
      PROVE  DepthBounds'
  BY <1>a DEF DepthBounds, Never
<1>b. ASSUME queue' \in {<<>>, queue, Tail(queue), Greeting}
      PROVE  Len(queue') <= MaxQueue
  <2>1. CASE queue' \in {<<>>, queue}
    BY <1>0, <2>1 DEF DepthBounds
  <2>2. CASE queue' = Tail(queue) /\ queue # <<>>
    BY <1>0, <2>2 DEF DepthBounds
  <2>3. CASE queue' = Tail(queue) /\ queue = <<>>
    BY <1>0, <2>3 DEF DepthBounds
  <2>4. CASE queue' = Greeting
    BY <1>0, <2>4 DEF Greeting
  <2> QED
    BY <1>b, <2>1, <2>2, <2>3, <2>4
<1>1. CASE UNCHANGED depthVars
  BY <1>1 DEF depthVars, DepthBounds, Never
<1>2. CASE VenueUpdate \/ Connect \/ NoSnapshot \/ SocketDies
  <2>1. queue' \in {<<>>, queue, Greeting} /\ trust' \in {trust, Never}
        /\ UNCHANGED <<venue, cache, prev, shown>>
    BY <1>2 DEF VenueUpdate, Connect, NoSnapshot, SocketDies
  <2>2. trust' \in 1 .. Never
    BY <1>0, <2>1 DEF DepthBounds
  <2> QED
    BY <1>a, <1>b, <2>1, <2>2
<1>3. CASE VenueSends
  <2>1. Len(queue') <= MaxQueue /\ UNCHANGED <<venue, cache, prev, shown, trust>>
    BY <1>0, <1>3 DEF VenueSends
  <2> QED
    BY <1>a, <2>1 DEF DepthBounds
<1>4. CASE FirstSnapshot
  <2>1. PICK n \in 1 .. head : cache' = Snapshot(n) /\ trust' = n
    BY <1>4 DEF FirstSnapshot
  <2>2. cache'.book \in Books /\ trust' \in 1 .. Never /\ prev' \in 0 .. MaxUpdates
    BY <1>0, <1>4, <2>1, VenueBooks DEF Snapshot, FirstSnapshot
  <2> QED
    BY <1>4, <2>2 DEF FirstSnapshot, DepthBounds, Never
<1>5. ASSUME NEW f, FrameRead(f)
      PROVE  DepthBounds'
  <2>0. Read(f)
    BY <1>5 DEF FrameRead, DropOld, Apply, LostTrack, Resync, WholeBook, Confirmed,
                ApplyUnchecked, Unreadable
  <2>1. f.final \in Updates /\ f.final \in 0 .. MaxUpdates
    BY <1>0, <2>0, FrameIs DEF Updates
  <2>2. /\ \A n \in 1 .. head : Snapshot(n).id = n /\ Snapshot(n).book \in Books
        /\ Diff(cache, f).id = f.final /\ Diff(cache, f).book \in Books
        /\ \A n \in 1 .. head : /\ Diff(Snapshot(n), f).id = f.final
                                /\ Diff(Snapshot(n), f).book \in Books
        /\ Snapshot(f.final).id = f.final /\ Snapshot(f.final).book \in Books
    BY <1>0, <2>1, ChangedBooks DEF DepthBounds
  <2>3. Len(queue') <= MaxQueue
    BY <1>5, <1>b DEF FrameRead, DropOld, Apply, LostTrack, Resync, WholeBook, Confirmed,
                ApplyUnchecked, Unreadable, Consumed
  <2>4. venue' = venue /\ prev' \in 0 .. MaxUpdates
    BY <1>5, <2>1 DEF FrameRead, DropOld, Apply, LostTrack, Resync, WholeBook, Confirmed,
                ApplyUnchecked, Unreadable, DepthBounds
  <2>5. trust' \in 1 .. Never
    BY <1>0, <1>5, <2>1 DEF FrameRead, DropOld, Apply, LostTrack, Resync, WholeBook, Confirmed,
                ApplyUnchecked, Unreadable, DepthBounds
  <2>6. /\ cache'.book \in Books
        /\ UNCHANGED shown \/ (Publish(cache') /\ cache'.id \in Updates)
    <3>1. CASE DropOld(f) \/ LostTrack(f) \/ Unreadable(f)
      BY <3>1 DEF DropOld, LostTrack, Unreadable, DepthBounds
    <3>2. CASE Apply(f)
      BY <2>1, <2>2, <3>2 DEF Apply
    <3>3. CASE Resync(f)
      BY <2>1, <2>2, <3>3 DEF Resync
    <3>4. CASE WholeBook(f)
      BY <2>1, <2>2, <3>4 DEF WholeBook
    <3>5. CASE Confirmed(f)
      BY <2>2, <3>5 DEF Confirmed, DepthBounds
    <3>6. CASE ApplyUnchecked(f)
      BY <2>1, <2>2, <3>6 DEF ApplyUnchecked, DepthBounds
    <3> QED
      BY <1>5, <3>1, <3>2, <3>3, <3>4, <3>5, <3>6 DEF FrameRead
  <2>7. /\ shown' = [at |-> shown'.at, book |-> shown'.book, sure |-> shown'.sure]
        /\ shown'.book \in Books /\ shown'.at \in 0 .. MaxUpdates
    BY <2>6, PublishedTyped DEF DepthBounds
  <2>8. Books' = Books /\ Never' = Never
    OBVIOUS
  <2> QED
    BY <2>3, <2>4, <2>5, <2>6, <2>7 DEF DepthBounds, Never
<1> QED
  BY <1>1, <1>2, <1>3, <1>4, <1>5 DEF DepthNext

(* The bounds hold of the order book at the start.                         *)
LEMMA DepthBoundsStart == DepthInit => DepthBounds
<1> SUFFICES ASSUME DepthInit
             PROVE  DepthBounds
  OBVIOUS
<1>1. MaxUpdates \in Nat \ {0} /\ MaxQueue \in Nat
  BY DepthFeedAssumption
<1>2. [l \in Levels |-> 0] \in Books
  BY <1>1 DEF Books
<1>3. Len(queue) <= MaxQueue
  BY <1>1 DEF DepthInit
<1> QED
  BY <1>1, <1>2, <1>3 DEF DepthInit, DepthBounds, Never

(* The order book keeps to its types.                                      *)
LEMMA DepthTyped == DepthInv /\ DepthBounds => TypeOKDepth
<1> SUFFICES ASSUME DepthInv, DepthBounds
             PROVE  TypeOKDepth
  OBVIOUS
<1>1. MaxUpdates \in Nat /\ head \in Updates /\ sent \in 0 .. MaxUpdates
  BY DepthFeedAssumption DEF DepthInv, DepthTypes, Updates
<1>2. queue \in Seq(Frames)
  <2>1. queue \in Seq(Queued) /\ sent \in 0 .. MaxUpdates
    BY <1>1 DEF DepthInv, DepthTypes
  <2>2. \A i \in 1 .. Len(queue) : queue[i] \in Frames
    <3> SUFFICES ASSUME NEW i \in 1 .. Len(queue)
                 PROVE  queue[i] \in Frames
      OBVIOUS
    <3>1. queue[i] \in Queued
      BY <2>1, ElementOfSeq
    <3>2. 1 <= queue[i].first /\ queue[i].first <= queue[i].final /\ queue[i].final <= sent
      BY DEF DepthInv, FramesFollow
    <3> QED
      BY <1>1, <2>1, <3>1, <3>2 DEF Queued, Frames, Updates
  <2>3. queue = [i \in 1 .. Len(queue) |-> queue[i]] /\ Len(queue) \in Nat
    BY <2>1
  <2> QED
    BY <2>2, <2>3, ListedRows
<1> QED
  BY <1>1, <1>2 DEF TypeOKDepth, DepthInv, DepthTypes, DepthBounds

(* The types of the statistics that StatsOk does not say.                  *)
StatsTyped(s) ==
  /\ s.wait \in NoDelay .. Delay
  /\ s.inFlight \subseteq DOMAIN s.age /\ DOMAIN s.age \subseteq Exchanges
  /\ s.force \subseteq Exchanges

(* The types of the table that TableInv does not say.                      *)
TableBounds ==
  /\ favorites \subseteq Symbols /\ selected \subseteq Exchanges /\ unavailable \subseteq Exchanges
  /\ StatsTyped(stats)

(* Starting requests keeps the types of the statistics.                    *)
LEMMA StartingKeepsTypes ==
  ASSUME NEW s, StatsTyped(s), NEW E, E \subseteq Exchanges
  PROVE  StatsTyped(Scheduled(s, E))
<1> DEFINE start == Due(s, E)
<1>1. start \subseteq Exchanges
  BY DEF Due
<1> HIDE DEF start
<1>2. /\ Scheduled(s, E).wait = s.wait /\ Scheduled(s, E).inFlight = s.inFlight \cup start
      /\ Scheduled(s, E).force = s.force \ start
      /\ DOMAIN Scheduled(s, E).age = DOMAIN s.age \cup start
  BY DEF Scheduled, start
<1> QED
  BY <1>1, <1>2 DEF StatsTyped

(* So do ending them and switching an exchange on and off.                 *)
LEMMA StatsKeepTypes ==
  ASSUME NEW s, StatsOk(s), StatsTyped(s), NEW e \in Exchanges
  PROVE  StatsTyped(Completed(s, e)) /\ StatsTyped(Enabled(s, e)) /\ StatsTyped(Disabled(s, e))
<1>4. /\ Completed(s, e).wait = s.wait /\ Completed(s, e).inFlight = s.inFlight \ {e}
      /\ Completed(s, e).force = s.force /\ Completed(s, e).age = s.age
  BY DEF Completed, StatsOk
<1>5. StatsTyped(Completed(s, e))
  BY <1>4 DEF StatsTyped
<1>6. /\ Enabled(s, e).wait = Delay /\ Enabled(s, e).inFlight = s.inFlight
      /\ Enabled(s, e).force \subseteq s.force \cup {e} /\ Enabled(s, e).age = s.age
  BY DEF Enabled
<1>7. StatsTyped(Enabled(s, e))
  BY <1>6, TableAssumption DEF StatsTyped, NoDelay
<1>8. /\ Disabled(s, e).wait = s.wait /\ Disabled(s, e).inFlight = s.inFlight
      /\ Disabled(s, e).force = s.force \ {e} /\ Disabled(s, e).age = s.age
  BY DEF Disabled, StatsOk
<1> QED
  BY <1>5, <1>7, <1>8 DEF StatsTyped

(* Metadata that arrive, and metadata that do not, keep the types.         *)
LEMMA MetadataTyped ==
  ASSUME TableInv, TableBounds, NEW a \in answers, NEW U,
         UpdateMetadata(a, U) \/ MetadataFetchFailed(a)
  PROVE  TableBounds'
<1>1. a.exchange \in Exchanges /\ StatsOk(stats) /\ StatsTyped(stats)
  BY DEF TableInv, TableTypes, TableBounds
<1>2. StatsTyped(Scheduled(stats, {a.exchange})) /\ StatsTyped(Disabled(stats, a.exchange))
  BY <1>1, StartingKeepsTypes, StatsKeepTypes
<1>3. StatsTyped(stats')
  BY <1>1, <1>2 DEF UpdateMetadata, MetadataFetchFailed
<1>4. /\ favorites' = favorites /\ selected' \subseteq selected
      /\ unavailable' \subseteq unavailable \cup {a.exchange}
  BY DEF UpdateMetadata, MetadataFetchFailed, sortVars
<1> QED
  BY <1>1, <1>3, <1>4 DEF TableBounds, StatsTyped

(* Every step of the table keeps the types.                                *)
LEMMA TableBoundsStep ==
  ASSUME TableInv, TableBounds, [TableNext]_tableVars
  PROVE  TableBounds'
<1>0. StatsOk(stats) /\ StatsTyped(stats) /\ favorites \subseteq Symbols
      /\ selected \subseteq Exchanges /\ unavailable \subseteq Exchanges
  BY DEF TableInv, TableBounds
<1>a. ASSUME StatsTyped(stats'), UNCHANGED <<selected, unavailable>>, favorites' \subseteq Symbols
      PROVE  TableBounds'
  BY <1>0, <1>a DEF TableBounds, StatsTyped
<1>1. CASE UNCHANGED tableVars
  BY <1>0, <1>1, <1>a DEF tableVars
<1>2. ASSUME NEW a \in answers, UpdateMetadata(a, Listing[a.exchange]) \/ MetadataFetchFailed(a)
      PROVE  TableBounds'
  BY <1>2, MetadataTyped
<1>3. ASSUME NEW e \in Exchanges, ToggleExchangeFilter(e)
      PROVE  TableBounds'
  <2>1. StatsTyped(Enabled(stats, e)) /\ StatsTyped(Disabled(stats, e))
    BY <1>0, StatsKeepTypes
  <2>2. StatsTyped(stats') /\ selected' \subseteq Exchanges /\ UNCHANGED <<favorites, unavailable>>
    BY <1>0, <1>3, <2>1 DEF ToggleExchangeFilter, sortVars
  <2> QED
    BY <1>0, <2>2 DEF TableBounds, StatsTyped
<1>4. ASSUME NEW e \in Exchanges, AnswerComes(e)
      PROVE  TableBounds'
  <2>1. stats' = Completed(stats, e) /\ UNCHANGED <<selected, unavailable, favorites>>
    BY <1>4 DEF AnswerComes, UpdateStats, StatsFetchFailed, sortVars
  <2>2. StatsTyped(Completed(stats, e))
    BY <1>0, StatsKeepTypes
  <2> QED
    BY <1>0, <1>a, <2>1, <2>2
<1>5. CASE FetchStats \/ DebounceTick
  <2> DEFINE E    == (selected \cap WithTickers) \ unavailable
             over == [stats EXCEPT !.wait = NoDelay]
  <2>1. E \subseteq Exchanges
    BY <1>0
  <2> HIDE DEF E
  <2>2. /\ stats' = Scheduled(stats, E) \/ stats' = Scheduled(over, E)
        /\ UNCHANGED <<selected, unavailable, favorites>>
    BY <1>5 DEF FetchStats, DebounceTick, FetchSelected, sortVars, E
  <2>3. /\ over.wait = NoDelay /\ over.inFlight = stats.inFlight /\ over.age = stats.age
        /\ over.force = stats.force
        /\ over = [wait |-> NoDelay, inFlight |-> stats.inFlight, force |-> stats.force,
                   age |-> stats.age]
    BY <1>0 DEF StatsOk
  <2> HIDE DEF over
  <2>4. StatsOk(over) /\ StatsTyped(over)
    BY <1>0, <2>3, TableAssumption DEF StatsOk, StatsTyped, NoDelay
  <2>5. \A s : StatsTyped(s) => StatsTyped(Scheduled(s, E))
    BY <2>1, StartingKeepsTypes
  <2> QED
    BY <1>0, <1>a, <2>2, <2>4, <2>5
<1>6. CASE Moment
  <2>1. /\ stats'.wait \in NoDelay .. Delay
        /\ stats'.inFlight = stats.inFlight /\ stats'.force = stats.force
        /\ DOMAIN stats'.age = DOMAIN stats.age
    BY <1>0, <1>6, TableAssumption DEF Moment, StatsOk, StatsTyped, NoDelay
  <2>2. StatsTyped(stats')
    BY <1>0, <2>1 DEF StatsTyped
  <2> QED
    BY <1>0, <1>6, <1>a, <2>2 DEF Moment, sortVars
<1>7. ASSUME NEW option \in {"Asc", "Desc"}, ChangeSortOption(option)
      PROVE  TableBounds'
  BY <1>0, <1>7, <1>a DEF ChangeSortOption
<1>8. ASSUME NEW t \in Starred, FavoriteTicker(t)
      PROVE  TableBounds'
  <2>1. t \in Symbols
    BY TableAssumption DEF Symbols
  <2>2. favorites' \subseteq favorites \cup {t} /\ UNCHANGED <<stats, selected, unavailable>>
    BY <1>8 DEF FavoriteTicker
  <2> QED
    BY <1>0, <1>a, <2>1, <2>2
<1> QED
  BY <1>1, <1>2, <1>3, <1>4, <1>5, <1>6, <1>7, <1>8 DEF TableNext

(* The types hold of the table at the start.                               *)
LEMMA TableBoundsStart == TableInit => TableBounds
<1> SUFFICES ASSUME TableInit
             PROVE  TableBounds
  OBVIOUS
<1>1. stats.wait = NoDelay /\ stats.inFlight = {} /\ stats.force = {} /\ DOMAIN stats.age = {}
  BY DEF TableInit
<1>2. StatsTyped(stats)
  BY <1>1, TableAssumption DEF StatsTyped, NoDelay
<1> QED
  BY <1>2 DEF TableInit, TableBounds

(* The table keeps to its types.                                           *)
LEMMA TableTyped == TableInv /\ TableBounds => TypeOKTable
BY DEF TableInv, TableTypes, StatsOk, RowsAreRight, HasRows, Indexes, TableBounds, StatsTyped,
       TypeOKTable

(* The invariant of the table over a step of its own.                      *)
LEMMA TableInvStep ==
  ASSUME TableInv, [TableNext]_tableVars
  PROVE  TableInv'
<1>1. StatsOk(stats')
  BY StatsStep DEF TableInv
<1> QED
  BY <1>1, TableStep DEF TableInv, StatsOk

(* A step of the start is one of the table, brings it metadata of its own, *)
(* or only asks for some.                                                  *)
LEMMA StartupMovesTable ==
  ASSUME TableInv, StartupNext
  PROVE  \/ [TableNext]_tableVars
         \/ \E a \in answers, U \in SUBSET Symbols : IsFiniteSet(U) /\ UpdateMetadata(a, U)
         \/ /\ UNCHANGED <<tickersInfo, rows, rowIndex, sortVars, selected, unavailable, stats>>
            /\ \A a \in answers' : a.exchange \in Exchanges
<1> DEFINE Goal == \/ [TableNext]_tableVars
                   \/ \E a \in answers, U \in SUBSET Symbols : IsFiniteSet(U) /\ UpdateMetadata(a, U)
                   \/ /\ UNCHANGED <<tickersInfo, rows, rowIndex, sortVars, selected, unavailable, stats>>
                      /\ \A a \in answers' : a.exchange \in Exchanges
<1>0. \A a \in answers : a.exchange \in Exchanges
  BY DEF TableInv, TableTypes
<1>1. CASE UNCHANGED tableVars
  BY <1>1
<1>2. CASE OpenDashboard
  <2>1. PICK file \in CachedMaster : answers' = answers \cup file \cup MasterDownload
    BY <1>2 DEF OpenDashboard
  <2>2. \A a \in file \cup MasterDownload : a.exchange = Tachibana
    BY DEF CachedMaster, MasterDownload
  <2>3. \A a \in answers' : a.exchange \in Exchanges
    BY <1>0, <2>1, <2>2, StartupAssumption
  <2> QED
    BY <1>2, <2>3 DEF OpenDashboard
<1>3. ASSUME NEW a \in answers, MetadataArrives(a)
      PROVE  Goal
  <2>1. PICK U \in Brought(a) : UpdateMetadata(a, U)
    BY <1>3 DEF MetadataArrives
  <2>2. U \in {{}, Listing[a.exchange]}
    BY <2>1 DEF Brought
  <2>3. IsFiniteSet({}) /\ {} \in SUBSET Symbols
    BY FS_EmptySet
  <2>4. U \in SUBSET Symbols /\ IsFiniteSet(U)
    BY <1>0, <2>2, <2>3, ListingIs
  <2> QED
    BY <2>1, <2>4
<1>4. ASSUME NEW a \in answers, MetadataFails(a)
      PROVE  Goal
  BY <1>4 DEF MetadataFails, TableNext
<1> HIDE DEF Goal
<1>5. CASE \/ NoSession \/ LoginSubmit \/ LoginFailed \/ Tick \/ SwitchMode
           \/ \E p \in SavedPanes : RetryInterval(p)
           \/ \E m \in resolving : ResolveStreams(m)
           \/ \E valid \in BOOLEAN : UserPlay(valid) \/ SentPlay(valid)
           \/ \E p \in DOMAIN waiting : ClosePane(p) \/ \E t \in Symbols : TickerSelected(p, t)
  BY <1>1, <1>5 DEF NoSession, LoginSubmit, LoginFailed, Tick, SwitchMode, RetryInterval,
                    ResolveStreams, UserPlay, SentPlay, HandlePlay, ClosePane, TickerSelected, Goal
<1>6. CASE SessionRestored \/ LoginCompleted
  BY <1>2, <1>6 DEF SessionRestored, LoginCompleted, Goal
<1> QED
  BY <1>3, <1>4, <1>5, <1>6 DEF StartupNext, Goal

(* Every step of the start keeps the table's invariant and types.          *)
LEMMA TableDuringStart ==
  ASSUME TableInv, TableBounds, StartupNext
  PROVE  TableInv' /\ TableBounds'
<1>1. CASE [TableNext]_tableVars
  BY <1>1, TableInvStep, TableBoundsStep
<1>2. ASSUME NEW a \in answers, NEW U \in SUBSET Symbols, IsFiniteSet(U), UpdateMetadata(a, U)
      PROVE  TableInv' /\ TableBounds'
  <2>1. TableTypes' /\ RowsAreRight(rows, rowIndex, tickersInfo, favorites)' /\ InOrder'
    BY <1>2, MetadataRows
  <2>2. StatsOk(stats')
    BY <1>2, ScheduledStats DEF UpdateMetadata, TableInv
  <2> QED
    BY <1>2, <2>1, <2>2, MetadataTyped DEF TableInv, StatsOk
<1>3. CASE /\ UNCHANGED <<tickersInfo, rows, rowIndex, sortVars, selected, unavailable, stats>>
           /\ \A a \in answers' : a.exchange \in Exchanges
  <2>1. TableTypes' /\ StatsOk(stats)' /\ InOrder'
    BY <1>3 DEF TableInv, TableTypes, StatsOk, InOrder, sortVars
  <2>2. RowsAreRight(rows, rowIndex, tickersInfo, favorites)'
    BY <1>3 DEF TableInv, sortVars
  <2> QED
    BY <1>3, <2>1, <2>2 DEF TableInv, TableBounds, StatsTyped, sortVars
<1> QED
  BY <1>1, <1>2, <1>3, StartupMovesTable

(* The types of the panes that wait.                                       *)
PanesTyped ==
  /\ DOMAIN waiting \subseteq SavedPanes
  /\ \A p \in DOMAIN waiting : waiting[p] \in PaneState
  /\ resolving \subseteq [pane : SavedPanes, tickers : SUBSET Symbols]

(* The types of the flags.                                                 *)
FlagsTyped ==
  /\ timer \in BOOLEAN /\ inReplay \in BOOLEAN /\ autoPlay \in BOOLEAN /\ playSent \in BOOLEAN
  /\ playing \in BOOLEAN /\ spent \in BOOLEAN /\ touched \in BOOLEAN

(* The types of the stage and of the number of logins.                     *)
StageTyped == stage \in {"restoring", "login", "dashboard"} /\ logins \in 0 .. MaxLogins

(* Every step of the start keeps the panes' types.                         *)
LEMMA PanesTypedStep ==
  ASSUME PanesTyped, [StartupNext]_<<tableVars, startVars>>
  PROVE  PanesTyped'
<1> DEFINE Message == [pane : SavedPanes, tickers : SUBSET Symbols]
<1>0. /\ DOMAIN waiting \subseteq SavedPanes /\ resolving \subseteq Message
      /\ \A p \in DOMAIN waiting : /\ waiting[p] \in PaneState
                                   /\ waiting[p].tickers \in SUBSET Symbols
                                   /\ [waiting[p] EXCEPT !.due = TRUE] \in PaneState
                                   /\ [waiting[p] EXCEPT !.due = FALSE] \in PaneState
  BY DEF PanesTyped, PaneState
<1>a. ASSUME resolving' \subseteq Message, DOMAIN waiting' \subseteq DOMAIN waiting,
             \A p \in DOMAIN waiting' : waiting'[p] \in PaneState
      PROVE  PanesTyped'
  BY <1>0, <1>a DEF PanesTyped, PaneState
<1>b. \A m \in Message : m.pane \in SavedPanes /\ m.tickers \in SUBSET Symbols
  OBVIOUS
<1>c. \A T \in SUBSET Symbols : [tickers |-> T, ready |-> TRUE, due |-> FALSE] \in PaneState
  BY DEF PaneState
<1> HIDE DEF Message
<1>1. CASE UNCHANGED <<waiting, resolving>>
  BY <1>0, <1>1, <1>a
<1>2. CASE \E a \in answers : MetadataArrives(a)
  <2>1. waiting' = Refreshed /\ UNCHANGED resolving
    BY <1>2 DEF MetadataArrives
  <2> QED
    BY <1>0, <1>a, <2>1 DEF Refreshed
<1>3. CASE Tick
  <2> DEFINE asks == {p \in DOMAIN waiting : Lacks(p) /\ waiting[p].due}
  <2>1. /\ resolving' = resolving \cup {[pane |-> p, tickers |-> waiting[p].tickers] : p \in asks}
        /\ waiting' = [p \in DOMAIN waiting |->
                         IF p \in asks THEN [waiting[p] EXCEPT !.due = FALSE] ELSE waiting[p]]
    BY <1>3 DEF Tick
  <2>2. \A p \in asks : p \in DOMAIN waiting
    OBVIOUS
  <2> HIDE DEF asks
  <2>3. \A p \in asks : [pane |-> p, tickers |-> waiting[p].tickers] \in Message
    BY <1>0, <2>2 DEF Message
  <2>4. resolving' \subseteq Message
    BY <1>0, <2>1, <2>3
  <2>5. DOMAIN waiting' = DOMAIN waiting /\ \A p \in DOMAIN waiting' : waiting'[p] \in PaneState
    BY <1>0, <2>1
  <2> QED
    BY <1>a, <2>4, <2>5
<1>4. ASSUME NEW p, RetryInterval(p)
      PROVE  PanesTyped'
  BY <1>0, <1>4, <1>a DEF RetryInterval
<1>5. ASSUME NEW m \in resolving, ResolveStreams(m)
      PROVE  PanesTyped'
  <2>1. m.tickers \in SUBSET Symbols /\ resolving' \subseteq Message
    BY <1>0, <1>5, <1>b DEF ResolveStreams
  <2>2. \/ UNCHANGED waiting
        \/ waiting' = [p \in DOMAIN waiting |->
                         IF p = m.pane THEN [tickers |-> m.tickers, ready |-> TRUE, due |-> FALSE]
                         ELSE waiting[p]]
    BY <1>5 DEF ResolveStreams
  <2>3. DOMAIN waiting' = DOMAIN waiting /\ \A p \in DOMAIN waiting' : waiting'[p] \in PaneState
    BY <1>0, <1>c, <2>1, <2>2
  <2> QED
    BY <1>a, <2>1, <2>3
<1>6. ASSUME NEW p, ClosePane(p)
      PROVE  PanesTyped'
  BY <1>0, <1>6, <1>a DEF ClosePane
<1>7. ASSUME NEW p \in DOMAIN waiting, NEW t \in Symbols, TickerSelected(p, t)
      PROVE  PanesTyped'
  <2>1. [tickers |-> {t}, ready |-> TRUE, due |-> FALSE] \in PaneState
    BY <1>c
  <2> QED
    BY <1>0, <1>7, <1>a, <2>1 DEF TickerSelected
<1>8. CASE UNCHANGED <<tableVars, startVars>>
  BY <1>1, <1>8 DEF startVars
<1>9. CASE \/ SessionRestored \/ NoSession \/ LoginSubmit \/ LoginCompleted \/ LoginFailed
           \/ SwitchMode \/ \E a \in answers : MetadataFails(a)
           \/ \E valid \in BOOLEAN : UserPlay(valid) \/ SentPlay(valid)
  BY <1>1, <1>9 DEF SessionRestored, NoSession, LoginSubmit, LoginCompleted, LoginFailed,
                    SwitchMode, MetadataFails, UserPlay, SentPlay, HandlePlay, startVars
<1> QED
  BY <1>2, <1>3, <1>4, <1>5, <1>6, <1>7, <1>8, <1>9 DEF StartupNext

(* And the stage and the number of logins.                                 *)
LEMMA StageTypedStep ==
  ASSUME StageTyped, [StartupNext]_<<tableVars, startVars>>
  PROVE  StageTyped'
<1> USE DEF StageTyped
<1>0. MaxLogins \in Nat
  BY StartupAssumption
<1>1. CASE UNCHANGED <<stage, logins>>
  BY <1>1
<1>2. CASE SessionRestored \/ NoSession
  BY <1>2 DEF SessionRestored, NoSession, OpenDashboard
<1>3. CASE LoginSubmit \/ LoginCompleted \/ LoginFailed
  BY <1>0, <1>3 DEF LoginSubmit, LoginCompleted, LoginFailed, OpenDashboard
<1>4. CASE \/ Tick \/ SwitchMode
           \/ \E a \in answers : MetadataArrives(a) \/ MetadataFails(a)
           \/ \E p \in SavedPanes : RetryInterval(p)
           \/ \E m \in resolving : ResolveStreams(m)
           \/ \E valid \in BOOLEAN : UserPlay(valid) \/ SentPlay(valid)
           \/ \E p \in DOMAIN waiting : ClosePane(p) \/ \E t \in Symbols : TickerSelected(p, t)
  BY <1>1, <1>4 DEF Tick, SwitchMode, MetadataArrives, MetadataFails, RetryInterval, ResolveStreams,
                    UserPlay, SentPlay, HandlePlay, ClosePane, TickerSelected, startVars
<1>5. CASE UNCHANGED <<tableVars, startVars>>
  BY <1>1, <1>5 DEF startVars
<1> QED
  BY <1>2, <1>3, <1>4, <1>5 DEF StartupNext

(* And the flags.                                                          *)
LEMMA FlagsTypedStep ==
  ASSUME FlagsTyped, [StartupNext]_<<tableVars, startVars>>
  PROVE  FlagsTyped'
<1> USE DEF FlagsTyped
<1>1. CASE UNCHANGED <<timer, replayVars, touched>>
  BY <1>1 DEF replayVars
<1>2. CASE NoSession
  BY <1>2 DEF NoSession
<1>3. CASE \E m \in resolving : ResolveStreams(m)
  BY <1>3 DEF ResolveStreams, NothingToPlay
<1>4. CASE \E valid \in BOOLEAN : UserPlay(valid) \/ SentPlay(valid)
  BY <1>4 DEF UserPlay, SentPlay, HandlePlay
<1>5. CASE SwitchMode
  BY <1>5 DEF SwitchMode, LeavesReplay
<1>6. CASE \E p \in DOMAIN waiting : ClosePane(p) \/ \E t \in Symbols : TickerSelected(p, t)
  BY <1>6 DEF ClosePane, TickerSelected, replayVars, Lacks
<1>7. CASE \/ SessionRestored \/ LoginSubmit \/ LoginCompleted \/ LoginFailed \/ Tick
           \/ \E a \in answers : MetadataArrives(a) \/ MetadataFails(a)
           \/ \E p \in SavedPanes : RetryInterval(p)
  BY <1>1, <1>7 DEF SessionRestored, LoginSubmit, LoginCompleted, LoginFailed, Tick,
                    MetadataArrives, MetadataFails, RetryInterval, startVars
<1>8. CASE UNCHANGED <<tableVars, startVars>>
  BY <1>1, <1>8 DEF startVars
<1> QED
  BY <1>2, <1>3, <1>4, <1>5, <1>6, <1>7, <1>8 DEF StartupNext

(* All of it holds at the start.                                           *)
LEMMA StartupTypesStart == StartupInit => PanesTyped /\ StageTyped /\ FlagsTyped
<1> SUFFICES ASSUME StartupInit
             PROVE  PanesTyped /\ StageTyped /\ FlagsTyped
  OBVIOUS
<1>1. \A T \in SUBSET Symbols : [tickers |-> T, ready |-> FALSE, due |-> TRUE] \in PaneState
  BY DEF PaneState
<1>2. PanesTyped
  BY <1>1 DEF StartupInit, PanesTyped
<1>3. StageTyped
  BY StartupAssumption DEF StartupInit, StageTyped
<1>4. FlagsTyped
  BY DEF StartupInit, FlagsTyped
<1> QED
  BY <1>2, <1>3, <1>4

(* The start keeps to its types.                                           *)
LEMMA StartupTyped ==
  ASSUME TableInv, TableBounds, PanesTyped, StageTyped, FlagsTyped
  PROVE  TypeOKStartup
<1>1. \A b \in {timer, inReplay, autoPlay, playSent, playing, spent, touched} : b \in BOOLEAN
  BY DEF FlagsTyped
<1> QED
  BY <1>1, TableTyped DEF PanesTyped, StageTyped, TypeOKStartup

(* The types and invariants of all the parts.                              *)
LiveInv ==
  /\ FetchTypes /\ TradeBounds
  /\ LimiterInv /\ LimiterBounds
  /\ DepthInv /\ DepthBounds
  /\ TableInv /\ TableBounds /\ PanesTyped /\ StageTyped /\ FlagsTyped

(* The chart's bars, the trades, the limiter, the order book, the table of *)
(* tickers and the start keep to their types, numbers within their bounds  *)
(* included, side by side: for any streams, tickers, tasks, venues and     *)
(* panes.                                                                  *)
THEOREM LiveTypes == Spec => []TypeOKLive
<1>1. Init => LiveInv
  <2> SUFFICES ASSUME Init
               PROVE  LiveInv
    OBVIOUS
  <2>1. DepthInit /\ TradeInit /\ LimiterInit /\ FetchInit /\ StartupInit /\ TableInit
    BY DEF Init, StartupInit
  <2>2. TableInv /\ TableBounds
    BY <2>1, TableStart, TableBoundsStart
  <2> QED
    BY <2>1, <2>2, FetchTypesStart, TradeBoundsStart, LimiterStarts, LimiterBoundsStart,
       DepthStarts, DepthBoundsStart, StartupTypesStart DEF LiveInv
<1>2. LiveInv /\ [Next]_vars => LiveInv'
  <2> SUFFICES ASSUME LiveInv, [Next]_vars
               PROVE  LiveInv'
    OBVIOUS
  <2>1. /\ [DepthNext]_depthVars /\ [TradeNext]_tradeVars
        /\ [LimiterNext]_limiterVars /\ [FetchNext]_fetchVars
    BY DEF Next, vars, feedVars
  <2>2. \/ [TableNext]_tableVars /\ UNCHANGED startVars
        \/ StartupNext
    BY DEF Next, vars
  <2>3. FetchTypes' /\ TradeBounds'
    BY <2>1, FetchTypesStep, TradeBoundsStep DEF LiveInv
  <2>4. LimiterInv' /\ LimiterBounds'
    BY <2>1, LimiterStep, LimiterBoundsStep DEF LiveInv
  <2>5. DepthInv' /\ DepthBounds'
    BY <2>1, DepthStep, DepthBoundsStep DEF LiveInv
  <2>6. TableInv' /\ TableBounds'
    BY <2>2, TableInvStep, TableBoundsStep, TableDuringStart DEF LiveInv
  <2>7. PanesTyped' /\ StageTyped' /\ FlagsTyped'
    <3>1. CASE UNCHANGED startVars
      BY <3>1 DEF LiveInv, startVars, PanesTyped, StageTyped, FlagsTyped, PaneState
    <3>2. CASE StartupNext
      BY <3>2, PanesTypedStep, StageTypedStep, FlagsTypedStep DEF LiveInv
    <3> QED
      BY <2>2, <3>1, <3>2
  <2> QED
    BY <2>3, <2>4, <2>5, <2>6, <2>7 DEF LiveInv
<1>3. LiveInv => TypeOKLive
  BY LimiterTyped, DepthTyped, StartupTyped
     DEF LiveInv, TypeOKLive, FetchTypes, TradeBounds
<1> QED
  BY <1>1, <1>2, <1>3, PTL DEF Spec
=============================================================================
