----------------------------- MODULE MCLiveData -----------------------------
(* The four parts of live market data, the table of tickers and the start  *)
(* of the program are checked by one run: in each behaviour one of them    *)
(* moves (the start moves the table, too).                                 *)
EXTENDS DepthFeed, TradeFeed, RateLimiter, KlineFetch, Startup

VARIABLE part

MCLevelOf == [i \in 1 .. 5 |-> IF i \in {2, 4} THEN "y" ELSE "x"]

MCStreams == {[ticker |-> "a", timeframe |-> 1], [ticker |-> "a", timeframe |-> 2],
              [ticker |-> "b", timeframe |-> 1]}
MCViews   == {<<0, 1>>, <<1, 3>>}

MCListing == [e \in Exchanges |-> IF e = "jp" THEN {"t"} ELSE {"u", "v"}]

Parts == {"depth", "trades", "limiter", "klines", "table", "start"}

feedVars == <<depthVars, tradeVars, limiterVars, fetchVars>>

(* A part that does not move starts in one state only.                     *)
Still ==
  /\ part # "depth" => venue = "diff"
  /\ part # "limiter" => clock = 0
  /\ part # "klines" => pane = [ticker |-> "a", timeframe |-> 1] /\ view = <<0, 1>>
  /\ favorites = {} \/ (part = "table" /\ favorites = {"u"})
  /\ part # "table" => selected = {}
  /\ timer => inReplay
  /\ part # "start" => ~inReplay
  /\ LET main == CHOOSE q \in SavedPanes : TRUE
         saved == [q \in SavedPanes |-> waiting[q].tickers]
     IN  IF part # "start" THEN saved = [q \in SavedPanes |-> {}]
         ELSE \A q \in SavedPanes :
                saved[q] \in (IF q = main THEN {{}, {"t"}, {"u"}} ELSE {{"u"}})

Init ==
  /\ part \in Parts
  /\ DepthInit /\ TradeInit /\ LimiterInit /\ FetchInit /\ StartupInit /\ Still

(* At the start no statistics come, so that the rows are all tied: one of   *)
(* their orders is enough.                                                  *)
OneOrder ==
  LET place == [t |-> 1, u |-> 2, v |-> 3]
  IN  \A i, j \in DOMAIN rows : i < j => place[rows[i].ticker] < place[rows[j].ticker]

Next ==
  /\ UNCHANGED part
  /\ \/ part = "depth" /\ DepthNext /\ UNCHANGED <<tradeVars, limiterVars, fetchVars>>
     \/ part = "trades" /\ TradeNext /\ UNCHANGED <<depthVars, limiterVars, fetchVars>>
     \/ part = "limiter" /\ LimiterNext /\ UNCHANGED <<depthVars, tradeVars, fetchVars>>
     \/ part = "klines" /\ FetchNext /\ UNCHANGED <<depthVars, tradeVars, limiterVars>>
     \/ part \in {"table", "start"} /\ UNCHANGED feedVars
  /\ \/ part = "table" /\ TableNext /\ UNCHANGED startVars
     \/ part = "start" /\ StartupNext /\ OneOrder'
     \/ part \notin {"table", "start"} /\ UNCHANGED <<tableVars, startVars>>

vars == <<part, feedVars, tableVars, startVars>>

(* Where the klines move, frames come, answers come and cooldowns pass;    *)
(* where the table moves, its timers run and its requests end; where the   *)
(* start moves, frames are drawn, the retry interval passes and messages   *)
(* are handled.                                                            *)
FetchFairness == WF_fetchVars(part = "klines" /\ FetchGoesOn)

TableFairness ==
  /\ WF_tableVars(part = "table" /\ FetchStats)
  /\ WF_tableVars(part = "table" /\ Moment)
  /\ \A e \in Exchanges : WF_tableVars(part = "table" /\ AnswerComes(e))

StartupFairness ==
  /\ WF_startVars(part = "start" /\ Tick)
  /\ \A q \in SavedPanes : WF_startVars(part = "start" /\ RetryInterval(q))
  /\ WF_startVars(part = "start" /\ \E m \in resolving : ResolveStreams(m))

Spec ==
  /\ Init /\ [][Next]_vars
  /\ FetchFairness /\ TableFairness /\ StartupFairness

(* WindowIsFilled, where the klines move: a live chart left alone gets the *)
(* bars of its window.                                                     *)
LiveWindowIsFilled == part = "klines" => WindowIsFilled

(* StatsAreSpared and StatsComeIn, where the table moves: the statistics   *)
(* of the selected exchanges are fetched, and not too often.               *)
StatsAreFetched == StatsAreSpared /\ (part = "table" => StatsComeIn)

(* AutoPlayIsNeverStale and AutoPlayComes, where the start moves: the      *)
(* playback that was saved begins by itself, or not at all.                *)
AutoPlays == AutoPlayIsNeverStale /\ (part = "start" => AutoPlayComes)

(* Every part keeps to its types.                                          *)
TypeOKLive == TypeOKDepth /\ TypeOKTrade /\ TypeOKLimiter /\ TypeOKFetch /\ TypeOKStartup
=============================================================================
