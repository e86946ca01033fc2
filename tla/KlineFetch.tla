------------------------------ MODULE KlineFetch ------------------------------
(***************************************************************************)
(* How a candlestick pane gets its bars from the venue: the chart looks    *)
(* for bars its window lacks (fetch_missing_data, on a timer), a handler   *)
(* keeps it from asking twice (RequestHandler), each request is a task of  *)
(* its own, and its answer is a message to the pane, whatever the pane     *)
(* shows by then.  In Live the venue also pushes the current bar.          *)
(*                                                                         *)
(* Only bars that come from the venue are in the chart here: what a replay *)
(* injects is ReplaySession's.  Trades and open interest are left out.     *)
(***************************************************************************)
EXTENDS Integers, Sequences, FiniteSets, FiniteSetsExt

CONSTANTS
  Streams,      \* {[ticker, timeframe]}: what the pane may be set to
  Holidays,     \* times without a bar
  Views,        \* visible windows, pairs of times
  InitialBars,  \* bars asked for when the chart is empty (450)
  MaxNow,       \* bound: the clock
  MaxFetches    \* bound: fetches at once

ASSUME KlineFetchAssumption ==
  /\ \A s \in Streams : s.timeframe \in Nat \ {0}
  /\ \A v \in Views : v[1] \in Nat /\ v[2] \in Nat /\ v[1] <= v[2]
  /\ InitialBars \in Nat /\ MaxNow \in Nat \ {0} /\ MaxFetches \in Nat \ {0}

VARIABLES
  live,      \* the mode of the application is not Replay
  now,       \* wall clock
  pane,      \* the pane's kline stream
  view,      \* visible_timerange
  chart,     \* its basis, replay_mode, and the bars: time |-> stream it is from
  requests,  \* RequestHandler: range |-> status
  fetches,   \* tasks and answers in the channel
  erred      \* history: a request of this chart ended in an error

fetchVars == <<live, now, pane, view, chart, requests, fetches, erred>>

(* A completed request is either cooling down or may be retried.  A fetch  *)
(* carries no id (the first one of a pane), or one that the handler knows, *)
(* or one it has forgotten.  Two equal fetches at once count as one.       *)
Status == {"Pending", "Failed", "Completed", "Cooled"}
Ids    == {"none", "known", "forgotten"}

TypeOKFetch ==
  /\ live \in BOOLEAN /\ erred \in BOOLEAN /\ now \in 0 .. MaxNow
  /\ pane \in Streams /\ view \in Views
  /\ chart.timeframe \in {s.timeframe : s \in Streams} /\ chart.replay \in BOOLEAN
  /\ \A t \in DOMAIN chart.bars : t \in Nat /\ chart.bars[t] \in Streams
  /\ \A r \in DOMAIN requests : requests[r] \in Status
  /\ \A f \in fetches : f.id \in Ids /\ f.stream \in Streams /\ f.range \in Nat \X Nat

-----------------------------------------------------------------------------
Minus(a, b)    == a - b                                         \* mutant of Less
Less(a, b)     == IF a < b THEN 0 ELSE a - b
AlignDown(t, phase, step) == IF t < phase THEN phase ELSE t - ((t - phase) % step)

VenueBars(s)   == {t \in 0 .. now : t % s.timeframe = 0} \ Holidays
BarsOf(s, T)   == [t \in T |-> s]
Over(new, old) == [t \in DOMAIN new \cup DOMAIN old |->
                     IF t \in DOMAIN new THEN new[t] ELSE old[t]]

EmptyChart(timeframe, replay) ==
  [timeframe |-> timeframe, replay |-> replay, bars |-> BarsOf(pane, {})]

NoRequests  == [r \in {} |-> "Pending"]
Forgotten   == {[f EXCEPT !.id = IF f.id = "none" THEN "none" ELSE "forgotten"] : f \in fetches}

(* The first fetch of a pane names no range: the latest bars.              *)
FirstFetch(s) == [id |-> "none", stream |-> s, range |-> <<0, 0>>]

-----------------------------------------------------------------------------
(* fetch_missing_data: the ranges worth asking for, in order of priority.  *)

Latest     == <<Less(now, InitialBars * chart.timeframe), now>>
Earliest   == IF DOMAIN chart.bars = {} THEN 0 ELSE Min(DOMAIN chart.bars)
Prefetch   == Less(view[1], view[2] - view[1])

(* check_kline_integrity, between the first and the last bar.              *)
MissingBars(earliest) ==
  IF DOMAIN chart.bars = {} THEN {}
  ELSE LET tf     == chart.timeframe
           last   == Max(DOMAIN chart.bars)
           from   == Max({AlignDown(Max({Prefetch, earliest}), earliest % tf, tf), earliest})
           until  == Min({AlignDown(Min({view[2] + tf, last}), earliest % tf, tf), last})
       IN  {t \in (from .. until - 1) \ DOMAIN chart.bars : (t - from) % tf = 0}

Around(missing) == <<Less(Min(missing), chart.timeframe), Max(missing) + chart.timeframe>>

Wanted ==
  LET earliest == Earliest
      missing  == MissingBars(earliest)
  IN  (IF DOMAIN chart.bars = {} THEN <<Latest>> ELSE <<>>)
        \o (IF view[1] < earliest THEN <<<<Prefetch, earliest>>>> ELSE <<>>)
        \o (IF missing # {} THEN <<Around(missing)>> ELSE <<>>)

(* add_request.  A request handed out again after its cooldown stays as it *)
(* is until its answer comes.                                              *)
Granted(range) ==
  range \in DOMAIN requests => requests[range] = "Cooled"

(* The first of them that is granted, if any.                              *)
FirstGranted(ranges) ==
  {ranges[i] : i \in {k \in DOMAIN ranges : /\ Granted(ranges[k])
                                            /\ \A j \in 1 .. k - 1 : ~Granted(ranges[j])}}

NextRequest == UNION {FirstGranted(ranges) : ranges \in {Wanted}}

FetchMissingData ==
  /\ ~chart.replay
  /\ Cardinality(fetches) < MaxFetches
  /\ \E range \in NextRequest :
       /\ fetches' = fetches \cup {[id |-> "known", stream |-> pane, range |-> range]}
       /\ requests' = IF range \in DOMAIN requests THEN requests
                      ELSE Over([r \in {range} |-> "Pending"], requests)
  /\ UNCHANGED <<live, now, pane, view, chart, erred>>

(* The retry cooldown of a completed request passes.                       *)
CoolDown(range) ==
  /\ requests[range] = "Completed"
  /\ requests' = [requests EXCEPT ![range] = "Cooled"]
  /\ UNCHANGED <<live, now, pane, view, chart, fetches, erred>>

-----------------------------------------------------------------------------
(* Answers.                                                                *)

FetchedBars(f) ==
  LET T == IF f.id = "none" THEN VenueBars(f.stream)
           ELSE {t \in VenueBars(f.stream) : f.range[1] <= t /\ t <= f.range[2]}
  IN  BarsOf(f.stream, T)

Arrived(f) == fetches' = fetches \ {f}

(* The first fetch makes a chart of its own stream, in Live, wherever the  *)
(* pane is by now.                                                         *)
FirstBars(f) ==
  /\ f.id = "none"
  /\ chart' = [timeframe |-> f.stream.timeframe, replay |-> FALSE, bars |-> FetchedBars(f)]
  /\ requests' = NoRequests /\ erred' = FALSE
  /\ fetches' = Forgotten \ {f}
  /\ UNCHANGED <<live, now, pane, view>>

OtherBasis(f) == f.stream.timeframe # chart.timeframe

StaleBars(f) ==
  /\ f.id # "none" /\ OtherBasis(f)
  /\ Arrived(f)
  /\ UNCHANGED <<live, now, pane, view, chart, requests, erred>>

BroughtNothing(f) ==
  LET bars == DOMAIN FetchedBars(f)
  IN  bars = {} \/ (DOMAIN chart.bars # {} /\ bars \subseteq DOMAIN chart.bars)

Outcome(f) == IF BroughtNothing(f) THEN "Failed" ELSE "Completed"

(* Whether the answer is to a request of this chart is only asked when it  *)
(* is marked; the bars go in either way.                                   *)
AnyBasis(f) ==                                                 \* mutant of HistBars
  /\ f.id # "none"
  /\ chart' = [chart EXCEPT !.bars = Over(FetchedBars(f), @)]
  /\ Arrived(f)
  /\ UNCHANGED <<live, now, pane, view, requests, erred>>

HistBars(f) ==
  /\ f.id # "none" /\ ~OtherBasis(f)
  /\ chart' = [chart EXCEPT !.bars = Over(FetchedBars(f), @)]
  /\ requests' = IF f.id = "known" THEN [requests EXCEPT ![f.range] = Outcome(f)] ELSE requests
  /\ Arrived(f)
  /\ UNCHANGED <<live, now, pane, view, erred>>

Answer(f) == FirstBars(f) \/ StaleBars(f) \/ HistBars(f)

(* An error reaches the pane's status; the handler is not told.            *)
FetchFails(f) ==
  /\ Arrived(f)
  /\ erred' = (erred \/ f.id = "known")
  /\ UNCHANGED <<live, now, pane, view, chart, requests>>

-----------------------------------------------------------------------------
(* The pane, the mode and the venue.                                       *)

ChartOnly(c) == chart' = c /\ UNCHANGED <<requests, erred>>      \* mutant of Fresh
Fresh(c) == chart' = c /\ requests' = NoRequests /\ erred' = FALSE

Pan(v) ==
  /\ v # view /\ view' = v
  /\ UNCHANGED <<live, now, pane, chart, requests, fetches, erred>>

(* A new timeframe empties the chart, which keeps its replay_mode.         *)
ChangeTimeframe(s) ==
  /\ s.ticker = pane.ticker /\ s.timeframe # pane.timeframe
  /\ pane' = s
  /\ Fresh(EmptyChart(s.timeframe, chart.replay))
  /\ fetches' = Forgotten
  /\ UNCHANGED <<live, now, view>>

(* A new ticker is a new chart, that of Live; in Live it asks at once.     *)
SwitchTicker(s) ==
  /\ s.ticker # pane.ticker /\ s.timeframe = pane.timeframe
  /\ Cardinality(fetches) < MaxFetches
  /\ pane' = s
  /\ Fresh(EmptyChart(s.timeframe, FALSE))
  /\ fetches' = Forgotten \cup (IF live THEN {FirstFetch(s)} ELSE {})
  /\ UNCHANGED <<live, now, view>>

(* rebuild_content, for Replay or for Live.                                *)
ToggleMode ==
  /\ live' = ~live
  /\ Fresh(EmptyChart(chart.timeframe, live))
  /\ fetches' = Forgotten
  /\ UNCHANGED <<now, pane, view>>

(* A seek of the replay, or the reload that follows a change of the pane.  *)
ResetForSeek ==
  /\ ~live
  /\ Fresh(EmptyChart(chart.timeframe, TRUE))
  /\ fetches' = Forgotten
  /\ UNCHANGED <<live, now, pane, view>>

(* update_latest_kline, of the stream the pane shows; in Replay the        *)
(* subscription is gone.                                                   *)
KlineReceived ==
  /\ live
  /\ LET t == now - (now % pane.timeframe)
     IN  /\ t \notin Holidays
         /\ chart' = [chart EXCEPT !.bars = Over(BarsOf(pane, {t}), @)]
  /\ UNCHANGED <<live, now, pane, view, requests, fetches, erred>>

TimePasses ==
  /\ now < MaxNow /\ now' = now + 1
  /\ UNCHANGED <<live, pane, view, chart, requests, fetches, erred>>

FetchInit ==
  /\ live = TRUE /\ now = MaxNow - 1
  /\ pane \in Streams /\ view \in Views
  /\ chart = EmptyChart(pane.timeframe, FALSE)
  /\ requests = NoRequests
  /\ fetches = {FirstFetch(pane)} /\ erred = FALSE

FetchHands ==
  \/ \E v \in Views : Pan(v)
  \/ \E s \in Streams : ChangeTimeframe(s) \/ SwitchTicker(s)
  \/ ToggleMode
  \/ ResetForSeek

FetchWorks ==
  \/ FetchMissingData
  \/ \E range \in DOMAIN requests : CoolDown(range)
  \/ \E f \in fetches : Answer(f)
  \/ KlineReceived
  \/ TimePasses

SomeFetchFails == \E f \in fetches : FetchFails(f)

FetchNext == FetchHands \/ FetchWorks \/ SomeFetchFails

FetchSpec == FetchInit /\ [][FetchNext]_fetchVars

(* Frames come, answers come and cooldowns pass.                           *)
FetchGoesOn ==
  \/ FetchMissingData
  \/ \E f \in fetches : Answer(f)
  \/ \E range \in DOMAIN requests : CoolDown(range)

-----------------------------------------------------------------------------
(* A chart that shows its pane's timeframe has bars of no other, whatever  *)
(* answers of earlier timeframes are on their way (the check of            *)
(* insert_hist_klines, and what every change of the basis empties).        *)
BarsHaveTheTimeframe ==
  chart.timeframe = pane.timeframe =>
    \A t \in DOMAIN chart.bars : chart.bars[t].timeframe = chart.timeframe

(* A live chart that is left alone gets every bar the venue has for its    *)
(* window and before its newest one, though requests overlap, bring        *)
(* nothing new, or are retried only after a cooldown; unless a fetch ends  *)
(* in an error, or an answer for another timeframe took the chart over.    *)
(* (What is newer comes from the kline stream.)                            *)
Newest == IF DOMAIN chart.bars = {} THEN now ELSE Max(DOMAIN chart.bars)

WindowIsFilled ==
  <>[][FALSE]_<<live, pane, view>> =>
    <>[](live /\ ~erred /\ chart.timeframe = pane.timeframe =>
           \A t \in VenueBars(pane) :
             (view[1] <= t /\ t <= view[2] /\ t < Newest) => t \in DOMAIN chart.bars)

(* src/src/chart/kline/mod.rs: in replay only what the EventStore injected *)
(* is shown, live data does not mix in.                                    *)
NoLiveBarsInReplay == ~live => DOMAIN chart.bars = {}
=============================================================================
