----------------------------- MODULE TickersTable -----------------------------
(***************************************************************************)
(* The sidebar's table of tickers.  At launch each exchange is asked for   *)
(* its tickers (the metadata), which also decide what a pane may show.     *)
(* For the exchanges that are selected the statistics of the tickers are   *)
(* fetched again and again: one request per exchange at a time, started    *)
(* no oftener than ACTIVE_UPDATE_INTERVAL allows, by a timer, by the       *)
(* arrival of metadata, and a moment after the selection was changed.      *)
(*                                                                         *)
(* A row has one value that rows are sorted by.  Search, the filter of     *)
(* markets, and what is drawn of a row are left out.                       *)
(***************************************************************************)
EXTENDS Integers, Sequences, FiniteSets, SequencesExt

CONSTANTS
  Exchanges,     \* Venue::ALL
  Listing,       \* exchange |-> its tickers
  Bare,          \* those that come without a TickerInfo
  Values,        \* of the statistics; 0 stands for none yet
  MinInterval,   \* ACTIVE_UPDATE_INTERVAL
  Delay,         \* EXCHANGE_TOGGLE_DEBOUNCE_MS
  Starred        \* bound: tickers the user puts a star on

ASSUME TableAssumption ==
  /\ DOMAIN Listing = Exchanges /\ \A e \in Exchanges : IsFiniteSet(Listing[e])
  /\ \A e, f \in Exchanges : e # f => Listing[e] \cap Listing[f] = {}
  /\ Bare \subseteq UNION {Listing[e] : e \in Exchanges}
  /\ Starred \subseteq UNION {Listing[e] : e \in Exchanges}
  /\ Values \subseteq Nat /\ MinInterval \in Nat \ {0} /\ Delay \in Nat \ {0}

VARIABLES
  tickersInfo,  \* ticker |-> whether there is a TickerInfo
  rows,         \* ticker_rows
  rowIndex,     \* row_index: ticker |-> its place in rows
  favorites,    \* favorited_tickers
  sortOption,   \* "Asc" or "Desc"
  selected,     \* selected_exchanges
  unavailable,  \* unavailable_exchanges
  answers,      \* metadata on its way: who asked, for which exchange
  stats         \* stats_fetch_state

tableVars == <<tickersInfo, rows, rowIndex, favorites, sortOption, selected,
               unavailable, answers, stats>>
sortVars  == <<favorites, sortOption>>

Symbols  == UNION {Listing[e] : e \in Exchanges}
Row      == [ticker : Symbols, value : Values \cup {0}, favorited : BOOLEAN]
NoDelay  == -1

(* age: time since last_started_at, where there is one, as far as it       *)
(* matters.                                                                *)
TypeOKTable ==
  /\ DOMAIN tickersInfo \subseteq Symbols
  /\ rows \in Seq(Row) /\ DOMAIN rowIndex \subseteq Symbols
  /\ favorites \subseteq Symbols /\ sortOption \in {"Asc", "Desc"}
  /\ selected \subseteq Exchanges /\ unavailable \subseteq Exchanges
  /\ \A a \in answers : a.exchange \in Exchanges
  /\ stats.wait \in NoDelay .. Delay
  /\ stats.inFlight \subseteq DOMAIN stats.age /\ stats.force \subseteq Exchanges
  /\ \A e \in DOMAIN stats.age : e \in Exchanges /\ stats.age[e] \in 0 .. MinInterval

-----------------------------------------------------------------------------
(* StatsFetchState                                                         *)

EverStarted(s, e) == e \in DOMAIN s.age
NeverBefore(s, e) == TRUE                                \* mutant of FirstTime
FirstTime(s, e)   == ~EverStarted(s, e)

Enabled(s, e) ==
  [wait |-> Delay, inFlight |-> s.inFlight, age |-> s.age,
   force |-> IF FirstTime(s, e) THEN s.force \cup {e} ELSE s.force]

Disabled(s, e) == [s EXCEPT !.force = @ \ {e}]

InCooldown(s, e)  == EverStarted(s, e) /\ s.age[e] < MinInterval

Due(s, E) == {e \in E \ s.inFlight : e \in s.force \/ ~InCooldown(s, e)}

Scheduled(s, E) ==
  LET start == Due(s, E)
  IN  [wait     |-> s.wait,
       inFlight |-> s.inFlight \cup start,
       force    |-> s.force \ start,
       age      |-> [e \in DOMAIN s.age \cup start |-> IF e \in start THEN 0 ELSE s.age[e]]]

Completed(s, e) == [s EXCEPT !.inFlight = @ \ {e}]

-----------------------------------------------------------------------------
(* The rows.                                                               *)

(* compare_ticker_rows_by_sort                                             *)
Before(r1, r2, option) == IF option = "Asc" THEN r1.value < r2.value ELSE r1.value > r2.value

IndexOf(s) == [t \in {s[i].ticker : i \in DOMAIN s} |->
                 CHOOSE i \in DOMAIN s : s[i].ticker = t]

KeepIndex == UNCHANGED rowIndex    \* mutant of RebuildIndex
RebuildIndex == rowIndex' = IndexOf(rows')

InSortedOrder(s, option) == \A i, j \in DOMAIN s : i < j => ~Before(s[j], s[i], option)

(* sort_unstable_by: rows of equal value come in any order.                *)
Sorted(s, option) ==
  /\ \E r \in SetToSeqs(Range(s)) : InSortedOrder(r, option) /\ rows' = r
  /\ RebuildIndex

InPlace(s) == rows' = s /\ UNCHANGED rowIndex

NewRow(t, value) == [ticker |-> t, value |-> value, favorited |-> t \in favorites]

(* Rows for the tickers T that have none yet.                              *)
WithRows(s, T) ==
  LET fresh == T \ {s[i].ticker : i \in DOMAIN s}
  IN  s \o SetToSeq({NewRow(t, 0) : t \in fresh})

-----------------------------------------------------------------------------
TableInit ==
  /\ tickersInfo = [t \in {} |-> TRUE]
  /\ rows = <<>> /\ rowIndex = [t \in {} |-> 0]
  /\ favorites \in SUBSET Symbols /\ sortOption = "Desc"
  /\ selected \in SUBSET Exchanges /\ unavailable = {}
  /\ answers = {[exchange |-> e, from |-> "launch"] : e \in Exchanges}
  /\ stats = [wait |-> NoDelay, inFlight |-> {}, force |-> {}, age |-> [e \in {} |-> 0]]

WithTickers == {e \in Exchanges : Listing[e] \cap DOMAIN tickersInfo # {}}

(* The tickers T of an exchange.                                           *)
UpdateMetadata(a, T) ==
  /\ a \in answers /\ answers' = answers \ {a}
  /\ tickersInfo' = [t \in DOMAIN tickersInfo \cup T |-> t \notin Bare]
  /\ unavailable' = unavailable \ {a.exchange}
  /\ LET s == WithRows(rows, T)
     IN  IF s = rows THEN UNCHANGED <<rows, rowIndex>> ELSE Sorted(s, sortOption)
  /\ stats' = IF a.exchange \in selected THEN Scheduled(stats, {a.exchange}) ELSE stats
  /\ UNCHANGED <<sortVars, selected>>

MetadataFetchFailed(a) ==
  /\ a \in answers /\ answers' = answers \ {a}
  /\ unavailable' = unavailable \cup {a.exchange}
  /\ selected' = selected \ {a.exchange}
  /\ stats' = Disabled(stats, a.exchange)
  /\ UNCHANGED <<tickersInfo, rows, rowIndex, sortVars>>

ToggleExchangeFilter(e) ==
  /\ e \notin unavailable
  /\ IF e \in selected
     THEN selected' = selected \ {e} /\ stats' = Disabled(stats, e)
     ELSE selected' = selected \cup {e} /\ stats' = Enabled(stats, e)
  /\ UNCHANGED <<tickersInfo, rows, rowIndex, sortVars, unavailable, answers>>

(* selected_stats_fetch_task                                               *)
FetchSelected(s) == Scheduled(s, (selected \cap WithTickers) \ unavailable)

FetchStats ==
  /\ stats' = FetchSelected(stats)
  /\ UNCHANGED <<tickersInfo, rows, rowIndex, sortVars, selected, unavailable, answers>>

DebounceTick ==
  /\ stats.wait = 0
  /\ stats' = FetchSelected([stats EXCEPT !.wait = NoDelay])
  /\ UNCHANGED <<tickersInfo, rows, rowIndex, sortVars, selected, unavailable, answers>>

SortWhenAllCame(s, left) == IF left = {} THEN Sorted(s, sortOption) ELSE InPlace(s)

UpdateStats(e, value) ==
  /\ e \in stats.inFlight
  /\ stats' = Completed(stats, e)
  /\ LET mine == Listing[e] \cap DOMAIN tickersInfo
         s    == [i \in DOMAIN rows |->
                    IF rows[i].ticker \in mine
                    THEN [rows[i] EXCEPT !.value = value[rows[i].ticker]] ELSE rows[i]]
     IN  SortWhenAllCame(s, stats'.inFlight)
  /\ UNCHANGED <<tickersInfo, sortVars, selected, unavailable, answers>>

StatsFetchFailed(e) ==
  /\ e \in stats.inFlight
  /\ stats' = Completed(stats, e)
  /\ SortWhenAllCame(rows, stats'.inFlight)
  /\ UNCHANGED <<tickersInfo, sortVars, selected, unavailable, answers>>

ChangeSortOption(option) ==
  /\ sortOption' = IF sortOption # option THEN option
                   ELSE CHOOSE o \in {"Asc", "Desc"} : o # option
  /\ Sorted(rows, sortOption')
  /\ UNCHANGED <<tickersInfo, favorites, selected, unavailable, answers, stats>>

FavoriteTicker(t) ==
  /\ t \in DOMAIN rowIndex
  /\ LET i == rowIndex[t]
     IN  /\ rows' = [rows EXCEPT ![i].favorited = ~@]
         /\ favorites' = IF rows'[i].favorited THEN favorites \cup {t} ELSE favorites \ {t}
  /\ UNCHANGED <<tickersInfo, rowIndex, sortOption, selected, unavailable, answers, stats>>

(* Time passes for the cooldowns and the delay.                            *)
Moment ==
  LET older == [stats EXCEPT !.wait = IF @ > 0 THEN @ - 1 ELSE @,
                             !.age = [e \in DOMAIN @ |-> IF @[e] < MinInterval THEN @[e] + 1
                                                         ELSE @[e]]]
  IN  /\ older # stats /\ stats' = older
      /\ UNCHANGED <<tickersInfo, rows, rowIndex, sortVars, selected, unavailable, answers>>

AnswerComes(e) ==
  \/ \E value \in [Listing[e] -> Values] : UpdateStats(e, value)
  \/ StatsFetchFailed(e)

TableNext ==
  \/ \E a \in answers :
       \/ UpdateMetadata(a, Listing[a.exchange])
       \/ MetadataFetchFailed(a)
  \/ \E e \in Exchanges : ToggleExchangeFilter(e) \/ AnswerComes(e)
  \/ FetchStats \/ DebounceTick \/ Moment
  \/ \E option \in {"Asc", "Desc"} : ChangeSortOption(option)
  \/ \E t \in Starred : FavoriteTicker(t)

TableSpec == TableInit /\ [][TableNext]_tableVars

-----------------------------------------------------------------------------
(* Each ticker the table knows has one row, which the index finds, whose   *)
(* star is the one in the settings that are saved; and the rows are in     *)
(* order unless statistics of another exchange are still to come.  Rows    *)
(* are changed in place, sorted at three places, and looked up by index.   *)
TableIsSound ==
  /\ {rows[i].ticker : i \in DOMAIN rows} = DOMAIN tickersInfo
  /\ DOMAIN rowIndex = DOMAIN tickersInfo
  /\ \A i \in DOMAIN rows : rowIndex[rows[i].ticker] = i
  /\ \A i \in DOMAIN rows : rows[i].favorited <=> rows[i].ticker \in favorites
  /\ stats.inFlight = {} => InSortedOrder(rows, sortOption)

(* However often an exchange is switched off and on, and whichever of the  *)
(* three ways starts a request, an exchange is not asked twice within the  *)
(* interval.                                                               *)
StatsAreSpared ==
  [][\A e \in stats'.inFlight \ stats.inFlight :
       EverStarted(stats, e) => stats.age[e] = MinInterval]_tableVars

(* And yet every exchange that is selected, and has tickers, is asked.     *)
StatsComeIn ==
  \A e \in Exchanges :
    e \in selected \cap WithTickers ~> (e \in stats.inFlight \/ e \notin selected)
=============================================================================
