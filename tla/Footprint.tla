------------------------------ MODULE Footprint ------------------------------
(***************************************************************************)
(* A footprint chart: bars of time (TimeSeries, src/data/src/aggr/time.rs) *)
(* or of a number of trades (TickAggr, ticks.rs), the trades in each, the  *)
(* price most was traded at (PointOfControl, src/data/src/chart/kline.rs), *)
(* and the ways in which trades and bars get there (KlineChart,            *)
(* src/src/chart/kline/mod.rs): the streams, answers to requests, and the  *)
(* batches of older trades, which a task of its own brings.                *)
(*                                                                         *)
(* A trade is its place on the tape of the venue; all have the same size,  *)
(* so the busiest price is the one with most trades.                       *)
(***************************************************************************)
EXTENDS Integers, Sequences, SequencesExt, FiniteSetsExt, Selection

CONSTANTS
  Tapes,        \* what the venue may trade: sequences of [time, price]
  Bases,        \* [kind : {"time", "tick"}, n : width or number of trades]
  Steps,        \* price steps the user may choose
  Views,      \* what of the chart may be in sight: <<earliest, latest>>
  Midnight,     \* trades before it come as the file of a whole day
  BatchSize,    \* trades the venue returns at once
  MaxRaw,       \* bound: trades a chart has been given
  MaxAnswers    \* bound: answers with bars

ASSUME FootprintAssumption ==
  /\ Tapes \subseteq Seq([time : Nat, price : Nat]) \ {<<>>}
  /\ \A b \in Bases : b.kind \in {"time", "tick"} /\ b.n \in Nat \ {0}
  /\ Steps \subseteq Nat \ {0} /\ Steps # {}
  /\ \A w \in Views : w[1] \in Nat /\ w[2] \in Nat
  /\ Midnight \in Nat /\ BatchSize \in Nat \ {0} /\ MaxRaw \in Nat /\ MaxAnswers \in Nat

VARIABLES
  tape,          \* the venue's trades
  now,           \* how many of them there have been
  tie,           \* which of two equally busy prices the hash map gives first
  chart,         \* basis, tick_size, data_source (by time, or by place), raw_trades
  fetchingTrades,\* fetching_trades.0
  fetchTask,     \* fetch_trades_batched behind the handle, or NoTask
  batch,         \* the batch it has sent, or NoBatch
  firstAsked,    \* a fetch of the first bars, without an id, is on its way
  answers,       \* how many answers with bars there were
  since,         \* history: the raw trades before it were there before a reset
  missed         \* history: trades a bar made by the stream does not have

footprintVars == <<tape, now, tie, chart, fetchingTrades, fetchTask, batch, firstAsked, answers,
                   since, missed>>

NoTask  == [kind |-> "no task"]
NoBatch == [kind |-> "no batch"]
NoPoc   == [kind |-> "no point of control"]

Untested == -2   \* NPoc::None
Naked    == -1   \* NPoc::Naked

TimeOf(i)      == tape[i].time
PriceOf(i)     == tape[i].price
OfTime(c)      == c.basis.kind = "time"
BucketOf(c, i) == (TimeOf(i) \div c.basis.n) * c.basis.n

TypeOKFootprint ==
  /\ tape \in Tapes /\ now \in 0 .. Len(tape) /\ tie \in {"low", "high"}
  /\ chart.basis \in Bases /\ chart.step \in Steps
  /\ \A k \in DOMAIN chart.bars :
       LET bar == chart.bars[k]
       IN /\ bar.low <= bar.high /\ ToSet(bar.trades) \subseteq 1 .. now
          /\ bar.trades # <<>> <=> bar.poc # NoPoc
  /\ ToSet(chart.raw) \subseteq 1 .. now
  /\ fetchingTrades \in BOOLEAN /\ firstAsked \in BOOLEAN
  /\ fetchTask # NoTask => fetchTask.from <= fetchTask.until /\ OfTime(chart)
  /\ batch # NoBatch => batch.trades # <<>>
  /\ since <= Len(chart.raw) /\ missed \subseteq 1 .. now

-----------------------------------------------------------------------------
(* Prices in steps, and the busiest one.                                   *)
ToStep(c, p)      == ((p + c.step \div 2) \div c.step) * c.step
RoundedDown(c, p) == (p \div c.step) * c.step
RoundedUp(c, p)   == ((p + c.step - 1) \div c.step) * c.step

Prices(c, ts)      == {ToStep(c, PriceOf(ts[j])) : j \in DOMAIN ts}
TradesAt(c, ts, p) == Cardinality({j \in DOMAIN ts : ToStep(c, PriceOf(ts[j])) = p})

BusiestPrice(c, ts) ==
  LET most    == Max({TradesAt(c, ts, p) : p \in Prices(c, ts)})
      busiest == {p \in Prices(c, ts) : TradesAt(c, ts, p) = most}
  IN IF tie = "low" THEN Min(busiest) ELSE Max(busiest)

CalculatePoc(c, bar) ==
  [bar EXCEPT !.poc = [price |-> BusiestPrice(c, bar.trades), status |-> Untested]]

(* A point of control is filled by the first later bar whose range, as     *)
(* drawn, reaches it.  On a chart of trades, bars are counted from the end.*)
Reaches(c, bar, p) == RoundedDown(c, bar.low) <= p /\ p <= RoundedUp(c, bar.high)

StatusIn(c, k) ==
  LET later   == {l \in DOMAIN c.bars : l > k}
      filling == {l \in later : Reaches(c, c.bars[l], c.bars[k].poc.price)}
  IN CASE later = {}                    -> Untested
       [] later # {} /\ filling = {}     -> Naked
       [] filling # {}                  -> IF OfTime(c) THEN Min(filling) ELSE Len(c.bars) - Min(filling)

TestedOnce(c) ==                                                \* mutant of UpdatePocStatus
  LET tested(k) == IF c.bars[k].poc = NoPoc \/ c.bars[k].poc.status # Untested THEN c.bars[k]
                   ELSE [c.bars[k] EXCEPT !.poc.status = StatusIn(c, k)]
  IN [c EXCEPT !.bars = [k \in DOMAIN @ |-> tested(k)]]

UpdatePocStatus(c) ==
  LET tested(k) == IF c.bars[k].poc = NoPoc THEN c.bars[k]
                   ELSE [c.bars[k] EXCEPT !.poc.status = StatusIn(c, k)]
  IN [c EXCEPT !.bars = [k \in DOMAIN @ |-> tested(k)]]

-----------------------------------------------------------------------------
(* Trades into bars.                                                       *)
NewBar(low, high, ts) == [low |-> low, high |-> high, trades |-> ts, poc |-> NoPoc]
BarOf(i)              == NewBar(PriceOf(i), PriceOf(i), <<i>>)

TradesOf(c, ts, k) == Only(ts, {i \in ToSet(ts) : BucketOf(c, i) = k})

(* Of time: trades of a bar the chart does not have are passed over.       *)
IntoLastBar(c, ts) ==                                           \* mutant of IntoExistingBars
  LET mine == TradesOf(c, ts, Max(DOMAIN c.bars))
  IN IF c.bars = <<>> \/ mine = <<>> THEN c
     ELSE [c EXCEPT !.bars[Max(DOMAIN c.bars)] = CalculatePoc(c, [@ EXCEPT !.trades = @ \o mine])]

IntoExistingBars(c, ts) ==
  LET added(k) == LET mine == TradesOf(c, ts, k)
                  IN IF mine = <<>> THEN c.bars[k]
                     ELSE CalculatePoc(c, [c.bars[k] EXCEPT !.trades = @ \o mine])
  IN [c EXCEPT !.bars = [k \in DOMAIN @ |-> added(k)]]

OrNewBars(c, ts) ==
  LET keys   == DOMAIN c.bars \cup {BucketOf(c, ts[j]) : j \in DOMAIN ts}
      new(k) == LET p == PriceOf(TradesOf(c, ts, k)[1]) IN NewBar(p, p, <<>>)
  IN IntoExistingBars([c EXCEPT !.bars = [k \in keys |-> IF k \in DOMAIN @ THEN @[k] ELSE new(k)]], ts)

(* Of trades: a bar takes so many, then the next one begins.               *)
IsFull(c, bar) == Len(bar.trades) >= c.basis.n

AddTrade(bar, i) ==
  [bar EXCEPT !.trades = Append(@, i), !.low = Min({@, PriceOf(i)}), !.high = Max({@, PriceOf(i)})]

AddTick(c, i) ==
  IF c.bars = <<>> \/ IsFull(c, Last(c.bars)) THEN [c EXCEPT !.bars = Append(@, BarOf(i))]
  ELSE [c EXCEPT !.bars[Len(c.bars)] = AddTrade(@, i)]

Filled(c, ts) ==
  LET with[j \in 0 .. Len(ts)] == IF j = 0 THEN c ELSE AddTick(with[j - 1], ts[j])
  IN with[Len(ts)]

TickInsert(c, ts) ==
  UpdatePocStatus([Filled(c, ts) EXCEPT !.bars = [k \in DOMAIN @ |-> CalculatePoc(c, @[k])]])

InsertTrades(c, ts) == IF OfTime(c) THEN IntoExistingBars(c, ts) ELSE TickInsert(c, ts)

Given(c, ts) == [InsertTrades(c, ts) EXCEPT !.raw = @ \o ts]

(* The venue's bars, as of now.                                            *)
Traded(c) == {BucketOf(c, i) : i \in 1 .. now}

KlineOf(c, k) ==
  LET prices == {PriceOf(i) : i \in {j \in 1 .. now : BucketOf(c, j) = k}}
  IN NewBar(Min(prices), Max(prices), <<>>)

InsertKlines(c, ks) ==
  LET merged(k) == IF k \notin DOMAIN c.bars THEN KlineOf(c, k)
                   ELSE [KlineOf(c, k) EXCEPT !.trades = c.bars[k].trades, !.poc = c.bars[k].poc]
  IN UpdatePocStatus([c EXCEPT !.bars = [k \in DOMAIN @ \cup ks |-> IF k \in ks THEN merged(k) ELSE @[k]]])

Emptied(c) == [c EXCEPT !.bars = <<>>]

-----------------------------------------------------------------------------
FootprintInit ==
  /\ tape \in Tapes /\ now = 1 /\ tie \in {"low", "high"}
  /\ chart \in [basis : {b \in Bases : b.kind = "time"}, step : {Min(Steps)}, bars : {<<>>}, raw : {<<>>}]
  /\ fetchingTrades = FALSE /\ fetchTask = NoTask /\ batch = NoBatch
  /\ firstAsked = TRUE /\ answers = 0
  /\ since = 0 /\ missed = {}

Venue    == <<tape, now, tie>>
Fetching == <<fetchingTrades, fetchTask, batch>>
History  == <<since, missed>>

WithinRaw(c) == Len(c.raw) <= MaxRaw

(* insert_trades: a buffer of the trade stream.                            *)
TradesReceived(n) ==
  /\ now + n <= Len(tape) /\ now' = now + n
  /\ chart' = Given(chart, [j \in 1 .. n |-> now + j]) /\ WithinRaw(chart')
  /\ UNCHANGED <<tape, tie, Fetching, firstAsked, answers, History>>

(* Trades nobody told the chart about: before it was opened, while its     *)
(* stream was down, in a replay.                                           *)
TradesUnheard ==
  /\ now < Len(tape) /\ now' = now + 1
  /\ UNCHANGED <<tape, tie, chart, Fetching, firstAsked, answers, History>>

(* update_latest_kline: trades of the bar that came before it stay out.    *)
LatestKline ==
  /\ OfTime(chart)
  /\ LET k == BucketOf(chart, now)
     IN /\ chart' = InsertKlines(chart, {k})
        /\ missed' = IF k \in DOMAIN chart.bars THEN missed
                     ELSE missed \cup ToSet(TradesOf(chart, chart.raw, k))
  /\ UNCHANGED <<Venue, Fetching, firstAsked, answers, since>>

(* insert_hist_klines and ingest_historical_klines: some bars, and once    *)
(* more all the trades the chart has been given.                           *)
HistKlines(ks) ==
  /\ OfTime(chart) /\ answers < MaxAnswers /\ answers' = answers + 1
  /\ chart' = IntoExistingBars(InsertKlines(chart, ks), chart.raw)
  /\ missed' = {}
  /\ UNCHANGED <<Venue, Fetching, firstAsked, since>>

AbortFetch == fetchingTrades' = FALSE /\ fetchTask' = NoTask /\ UNCHANGED batch

(* The answer to the first fetch makes a new chart, with the old one's     *)
(* trades and price step; the old one's task goes with its handle.         *)
FirstKlines(b) ==
  /\ firstAsked /\ firstAsked' = FALSE
  /\ b.kind = "time"
  /\ LET new == Emptied([chart EXCEPT !.basis = b])
     IN chart' = OrNewBars(InsertKlines(new, Traded(new)), new.raw)
  /\ AbortFetch /\ missed' = {} /\ since' = 0
  /\ UNCHANGED <<Venue, answers>>

-----------------------------------------------------------------------------
(* The user, and a replay.                                                 *)
SetBasis(b) ==
  /\ b # chart.basis
  /\ LET new == Emptied([chart EXCEPT !.basis = b])
     IN chart' = IF OfTime(new) THEN new ELSE TickInsert(new, new.raw)
  /\ AbortFetch /\ since' = 0 /\ missed' = {}
  /\ UNCHANGED <<Venue, firstAsked, answers>>

(* Grouping by another step counts again what the chart has been given,    *)
(* also what it was given before a seek.                                   *)
Cleared(c)   == [c EXCEPT !.bars = [k \in DOMAIN @ |-> NewBar(@[k].low, @[k].high, <<>>)]]
Regrouped(c) == IF OfTime(c) THEN IntoExistingBars(Cleared(c), c.raw) ELSE TickInsert(Emptied(c), c.raw)

ChangeTickSize(s) ==
  /\ s # chart.step
  /\ chart' = Regrouped([chart EXCEPT !.step = s])
  /\ AbortFetch /\ since' = 0 /\ missed' = {}
  /\ UNCHANGED <<Venue, firstAsked, answers>>

ResetForSeek ==
  /\ chart' = Emptied(chart) /\ since' = Len(chart.raw) /\ missed' = {}
  /\ UNCHANGED <<Venue, Fetching, firstAsked, answers>>

RebuildContent ==
  /\ chart' = [Emptied(chart) EXCEPT !.raw = <<>>]
  /\ AbortFetch /\ since' = 0 /\ missed' = {}
  /\ UNCHANGED <<Venue, firstAsked, answers>>

-----------------------------------------------------------------------------
(* Trades for the newest bar without any: from the last trade before it to *)
(* the first after it, or to the ends of what the chart has, as far as it  *)
(* is in sight.  Of the trades at a price the chart keeps the times of the *)
(* one added first and the one added last.                                 *)
TimesAt(ts, p)  == LET at == Only(ts, {i \in ToSet(ts) : ToStep(chart, PriceOf(i)) = p})
                   IN [first |-> TimeOf(at[1]), last |-> TimeOf(Last(at))]
LastTradeTime(k)  == Max({TimesAt(chart.bars[k].trades, p).last : p \in Prices(chart, chart.bars[k].trades)})
FirstTradeTime(k) == Min({TimesAt(chart.bars[k].trades, p).first : p \in Prices(chart, chart.bars[k].trades)})

Keys      == DOMAIN chart.bars
Empty     == {k \in Keys : chart.bars[k].trades = <<>>}
TradedBeforeGap == {k \in Keys \ Empty : k < Max(Empty)}
TradedAfterGap  == {k \in Keys \ Empty : k > Max(Empty)}

GapStart == IF TradedBeforeGap # {} THEN LastTradeTime(Max(TradedBeforeGap)) + 1 ELSE Min(Keys)
GapEnd   == IF TradedAfterGap # {} THEN FirstTradeTime(Min(TradedAfterGap)) - 1 ELSE Max(Keys)

RequestTrades(window) ==
  /\ OfTime(chart) /\ ~fetchingTrades /\ Empty # {} /\ TradedBeforeGap \cup TradedAfterGap # {}
  /\ LET from  == Max({GapStart, window[1]})
         until == Min({GapEnd, window[2]})
     IN from < until /\ fetchTask' = [from |-> from, until |-> until]
  /\ fetchingTrades' = TRUE
  /\ UNCHANGED <<Venue, chart, batch, firstAsked, answers, History>>

(* What the venue returns: trades from a time on, or the file of the whole *)
(* day the time is in, with the trades from its last one on.               *)
SoFar == [j \in 1 .. now |-> j]

Intraday(from) ==
  LET ts == Only(SoFar, {i \in 1 .. now : TimeOf(i) >= from})
  IN  SubSeq(ts, 1, Min({BatchSize, Len(ts)}))
DayFile == Only(SoFar, {i \in 1 .. now : TimeOf(i) < Midnight})

FetchTrades(from) ==
  IF from >= Midnight THEN Intraday(from)
  ELSE DayFile \o (IF DayFile = <<>> THEN <<>> ELSE Intraday(TimeOf(Last(DayFile))))

(* The task asks again from its last trade's time on, and gets it again.   *)
SendBatch ==
  /\ fetchTask # NoTask /\ batch = NoBatch
  /\ LET ts == FetchTrades(fetchTask.from)
     IN /\ ts # <<>>
        /\ batch' = [trades |-> ts, until |-> fetchTask.until]
        /\ fetchTask' = IF TimeOf(Last(ts)) >= fetchTask.until THEN NoTask
                        ELSE [fetchTask EXCEPT !.from = TimeOf(Last(ts))]
  /\ UNCHANGED <<Venue, chart, fetchingTrades, firstAsked, answers, History>>

(* An empty answer or an error ends the task; the chart is not told.       *)
FetchEnds ==
  /\ fetchTask # NoTask /\ batch = NoBatch /\ fetchTask' = NoTask
  /\ UNCHANGED <<Venue, chart, fetchingTrades, batch, firstAsked, answers, History>>

(* distribute_fetched_data, insert_raw_trades.                             *)
BatchArrives ==
  /\ batch # NoBatch /\ batch' = NoBatch
  /\ LET isDone == TimeOf(Last(batch.trades)) >= batch.until
         ts     == Only(batch.trades, {i \in 1 .. now : isDone => TimeOf(i) <= batch.until})
     IN /\ chart' = Given(chart, ts) /\ WithinRaw(chart')
        /\ fetchingTrades' = (fetchingTrades /\ ~isDone)
  /\ UNCHANGED <<Venue, fetchTask, firstAsked, answers, History>>

FootprintNext ==
  \/ \E n \in 1 .. 2 : TradesReceived(n)
  \/ TradesUnheard
  \/ LatestKline
  \/ \E a, b \in Traded(chart) : a <= b /\ HistKlines({k \in Traded(chart) : a <= k /\ k <= b})
  \/ \E b \in Bases : FirstKlines(b)
  \/ \E b \in Bases : SetBasis(b)
  \/ \E s \in Steps : ChangeTickSize(s)
  \/ ResetForSeek
  \/ RebuildContent
  \/ \E w \in Views : RequestTrades(w)
  \/ SendBatch
  \/ FetchEnds
  \/ BatchArrives

-----------------------------------------------------------------------------
(* A chart of trades is a partition of what it was given since its last    *)
(* reset: every trade in one bar, in order, every bar but the last full,   *)
(* whatever streams, fetched batches, seeks and regroupings came together. *)
TickBarsAreTheTrades ==
  ~OfTime(chart) =>
    LET given   == SubSeq(chart.raw, since + 1, Len(chart.raw))
        upTo(k) == Min({k * chart.basis.n, Len(given)})
    IN /\ \A k \in DOMAIN chart.bars :
            /\ upTo(k - 1) < upTo(k)
            /\ chart.bars[k].trades = SubSeq(given, upTo(k - 1) + 1, upTo(k))
       /\ upTo(Len(chart.bars)) = Len(given)

(* Where a point of control says that it is naked, or filled by a bar, it  *)
(* is, by the bars and the price step the chart has now, and it is at a    *)
(* busiest price (update_poc_status, calculate_poc).                       *)
PocStatusIsTrue ==
  \A k \in Keys :
    LET bar == chart.bars[k]
    IN bar.poc # NoPoc => /\ bar.poc.price = BusiestPrice(chart, bar.trades)
                          /\ bar.poc.status \in {Untested, StatusIn(chart, k)}

(* A trade the chart was given is in the bar of its time, if the chart has *)
(* that bar: unless the bar was made later, by the stream.                 *)
TradesHaveTheirPlace ==
  OfTime(chart) =>
    \A i \in ToSet(chart.raw) \ missed :
      LET k == BucketOf(chart, i) IN k \in Keys => i \in ToSet(chart.bars[k].trades)

(* Whatever a bar is, trades that were given to the chart are in theirs.   *)
TradesAreInTheirBars == TickBarsAreTheTrades /\ TradesHaveTheirPlace

(* The chart shows what it was given: trades in their bars, and points of  *)
(* control with the status they have by those bars.                        *)
FootprintIsTrue == TradesAreInTheirBars /\ PocStatusIsTrue

FootprintSpec == FootprintInit /\ [][FootprintNext]_footprintVars
=============================================================================
