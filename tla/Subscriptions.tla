---------------------------- MODULE Subscriptions ----------------------------
(***************************************************************************)
(* What the program subscribes to.  Each pane has streams of its own; the  *)
(* dashboard keeps a table of them (Dashboard::streams), derived again     *)
(* from all panes by refresh_streams, or added to, and from the table      *)
(* subscription() makes the connections, in Live.  Nobody tells the table  *)
(* of every change: what brings it up to date then is a frame that no pane *)
(* wants.                                                                  *)
(*                                                                         *)
(* One layout, whose panes may be in any window.  Left out: the comparison *)
(* chart, groups of panes (each of them is given its ticker in turn), the  *)
(* way from a tick to the message that resolves streams (Startup has it),  *)
(* and timeframes that only some venues have.                              *)
(***************************************************************************)
EXTENDS Integers, FiniteSets

CONSTANTS
  Cells,         \* bound: panes at a time
  Kinds,         \* kinds of content panes may get
  Markets,       \* TickerInfos
  CustomFreq,    \* those of is_custom_push_freq()
  ServerSide,    \* those whose depth the venue groups (not is_depth_client_aggr())
  KlineFrames,   \* Timeframe::KLINE
  HeatFrames,    \* Timeframe::HEATMAP
  DefaultFrame,  \* what a kind shows at first
  Sizes,         \* TickMultipliers the user may choose
  MaxEdits       \* bound: changes of panes

KlineLike == {"candle", "footprint"}
HeatLike  == {"heatmap", "shader", "ladder"}
NoneYet   == ""                   \* a basis, size or detail there is none of

ASSUME SubscriptionAssumption ==
  /\ Kinds \subseteq KlineLike \cup HeatLike \cup {"tape", "order"}
  /\ CustomFreq \subseteq Markets /\ ServerSide \subseteq Markets
  /\ \A k \in Kinds : /\ k \in KlineLike => DefaultFrame[k] \in KlineFrames
                      /\ k \in HeatLike => DefaultFrame[k] \in HeatFrames
                      /\ k \notin KlineLike \cup HeatLike => DefaultFrame[k] = NoneYet
  /\ MaxEdits \in Nat

VARIABLES
  grid,        \* the panes: [kind, basis, size, streams, ready, chart, replay]
  subscribed,  \* Dashboard::streams
  replaying,   \* the mode
  present,     \* the layout is the active one
  untold,      \* history: panes whose streams changed without a word to the table
  edits        \* changes so far

subscriptionVars == <<grid, subscribed, replaying, present, untold, edits>>

Stream(kind, market, frame, size) ==
  [kind |-> kind, market |-> market, frame |-> frame, size |-> size]
Kline(m, frame)       == Stream("kline", m, frame, NoneYet)
Depth(m, size, freq)  == Stream("depth", m, freq, IF m \in ServerSide THEN size ELSE "client")
Trades(m)             == Stream("trades", m, NoneYet, NoneYet)

Bare == [kind |-> "starter", basis |-> NoneYet, size |-> NoneYet, streams |-> {},
         ready |-> FALSE, chart |-> FALSE, replay |-> FALSE]

Frames    == KlineFrames \cup HeatFrames \cup {NoneYet, "tick", "default"}
AllSizes  == Sizes \cup {NoneYet, "client", "1", "5", "10", "50"}
Freqs(m)  == {"default"} \cup (IF m \in CustomFreq THEN HeatFrames ELSE {})
AnyStream == UNION {{Trades(m)} \cup {Kline(m, frame) : frame \in KlineFrames}
                      \cup {Depth(m, size, freq) : size \in AllSizes, freq \in Freqs(m)} : m \in Markets}

Pane == [kind : Kinds \cup {"starter"}, basis : Frames, size : AllSizes,
         streams : SUBSET AnyStream, ready : BOOLEAN, chart : BOOLEAN, replay : BOOLEAN]

OneMarket(c) == \A s, t \in c.streams : s.market = t.market

(* A chart is only over streams that are ready, and those are of one       *)
(* ticker.                                                                 *)
TypeOKSubscriptions ==
  /\ DOMAIN grid \subseteq Cells /\ grid \in [DOMAIN grid -> Pane]
  /\ \A p \in DOMAIN grid :
       OneMarket(grid[p]) /\ (grid[p].chart => grid[p].ready /\ grid[p].streams # {})
  /\ subscribed \subseteq AnyStream /\ untold \subseteq DOMAIN grid
  /\ replaying \in BOOLEAN /\ present \in BOOLEAN /\ edits \in 0 .. MaxEdits

-----------------------------------------------------------------------------
(* The table.                                                              *)
Pair(c)     == IF c.ready THEN {s.market : s \in c.streams} ELSE {}   \* stream_pair
Shown(g)    == UNION {g[p].streams : p \in {q \in DOMAIN g : g[q].ready}}

PutIn(p, c) == [q \in DOMAIN grid \cup {p} |-> IF q = p THEN c ELSE grid[q]]
Change(p, c) == grid' = PutIn(p, c)

ForgetsToAdd(p, S) == untold' = untold \ {p} /\ UNCHANGED subscribed   \* mutant of Extend
Refresh     == subscribed' = Shown(grid') /\ untold' = {}
Extend(p, S) == subscribed' = subscribed \cup S /\ untold' = untold \ {p}
NotTold(p)  == untold' = untold \cup {p} /\ UNCHANGED subscribed
Keep        == UNCHANGED subscribed /\ untold' = untold \cap DOMAIN grid'

Edit == present /\ edits < MaxEdits /\ edits' = edits + 1 /\ UNCHANGED <<replaying, present>>

-----------------------------------------------------------------------------
(* PaneSetup and build_content_and_streams: what a pane of some kind shows *)
(* of a ticker, after what it showed before.                               *)
PlannedBasis(kind, basis) ==
  LET fits == CASE kind = "candle" -> KlineFrames
                [] kind = "footprint" -> KlineFrames \cup {"tick"}
                [] kind = "heatmap" -> HeatFrames
                [] kind \in {"shader", "ladder"} -> Frames \ {NoneYet}
                [] OTHER -> {}
  IN  IF basis \in fits THEN basis ELSE DefaultFrame[kind]

PlannedSize(kind, m, before, size) ==
  CASE kind \in HeatLike /\ m \in ServerSide /\ before # {} /\ before \cap ServerSide = {} -> "10"
    [] kind \in HeatLike /\ size = NoneYet -> IF m \in ServerSide THEN "10" ELSE "5"
    [] kind = "footprint" /\ size = NoneYet -> "50"
    [] OTHER -> size

PlannedStreams(kind, m, basis, size) ==
  CASE kind = "candle" -> {Kline(m, basis)}
    [] kind = "footprint" -> {Trades(m)} \cup (IF basis = "tick" THEN {} ELSE {Kline(m, basis)})
    [] kind = "tape" -> {Trades(m)}
    [] OTHER -> {Trades(m), Depth(m, size, IF kind = "heatmap" /\ m \in CustomFreq
                                           THEN basis ELSE "default")}

(* set_content_and_streams                                                 *)
Showing(c, m, kind) ==
  LET same  == c.kind = kind
      basis == PlannedBasis(kind, IF same THEN c.basis ELSE NoneYet)
      size  == PlannedSize(kind, m, Pair(c), IF same THEN c.size ELSE NoneYet)
  IN  [kind |-> kind, basis |-> basis, size |-> size,
       streams |-> PlannedStreams(kind, m, basis, size),
       ready |-> TRUE, chart |-> TRUE, replay |-> FALSE]

Chartable == Kinds \ {"order"}

(* A layout as it was saved.                                               *)
Restored(c) ==
  IF c.kind \in {"starter", "order"} THEN [Bare EXCEPT !.kind = c.kind]
  ELSE [c EXCEPT !.ready = FALSE, !.chart = FALSE, !.replay = FALSE]

SavedGrids == [Cells -> {Restored(Showing(Bare, m, k)) : m \in Markets, k \in Chartable}]

SubscriptionInit ==
  /\ grid \in SavedGrids
  /\ subscribed = {} /\ untold = {} /\ edits = 0
  /\ replaying \in BOOLEAN /\ present = TRUE

-----------------------------------------------------------------------------
(* Changes of panes.                                                       *)

(* init_pane and init_focused_pane: the table is added to.  Content that   *)
(* has no ticker stays as it is, but for its settings.                     *)
Give(p, m, kind) ==
  /\ Edit
  /\ Change(p, Showing(grid[p], m, kind))
  /\ Extend(p, grid'[p].streams)

SwitchTicker(p, m) == p \in DOMAIN grid /\ grid[p].kind \in Chartable /\ Give(p, m, grid[p].kind)

SwitchOther(p) ==
  /\ p \in DOMAIN grid /\ grid[p].kind \in {"starter", "order"}
  /\ Edit
  /\ Change(p, [grid[p] EXCEPT !.basis = NoneYet])
  /\ Keep

(* The HTTP client's way to a ticker for an empty pane.                    *)
ApiSetTicker(p, m) ==
  /\ p \in DOMAIN grid /\ grid[p].kind = "starter" /\ "candle" \in Kinds
  /\ Give(p, m, "candle")

ApiSetTimeframe(p, frame) ==
  /\ p \in DOMAIN grid /\ grid[p].kind \in Chartable /\ Pair(grid[p]) # {}
  /\ Edit
  /\ \E m \in Pair(grid[p]) :
       Change(p, Showing([grid[p] EXCEPT !.basis = frame], m, grid[p].kind))
  /\ Extend(p, grid'[p].streams)

SplitPane(p) ==
  /\ p \in Cells \ DOMAIN grid
  /\ Edit
  /\ Change(p, Bare)
  /\ Keep

SplitAndInit(p, m, kind) ==
  /\ p \in Cells \ DOMAIN grid
  /\ Edit
  /\ Change(p, Showing(Bare, m, kind))
  /\ Extend(p, grid'[p].streams)

(* Nobody is told that streams are no longer needed.                       *)
PaneClosed(p) ==
  /\ p \in DOMAIN grid /\ DOMAIN grid # {p}
  /\ Edit
  /\ grid' = [q \in DOMAIN grid \ {p} |-> grid[q]]
  /\ Keep

ReplacePane(p) ==
  /\ p \in DOMAIN grid
  /\ Edit
  /\ Change(p, Bare)
  /\ Refresh

(* An order panel keeps the streams of the content it takes the place of.  *)
KindSelected(p, kind) ==
  /\ p \in DOMAIN grid
  /\ Edit
  /\ LET c == [grid[p] EXCEPT !.kind = kind, !.chart = FALSE, !.replay = FALSE]
     IN  Change(p, IF kind = "order" THEN c ELSE [c EXCEPT !.streams = {}, !.ready = FALSE])
  /\ Keep

TicksizeSelected(p, size) ==
  /\ p \in DOMAIN grid /\ grid[p].chart /\ grid[p].kind \in HeatLike \cup {"footprint"}
  /\ Edit
  /\ LET c == grid[p]
         resized(s) == IF s.kind = "depth" THEN Depth(s.market, size, s.frame) ELSE s
     IN  Change(p, [c EXCEPT !.size = size, !.streams = {resized(s) : s \in c.streams}])
  /\ IF Pair(grid[p]) \subseteq ServerSide THEN Refresh ELSE Keep

HeatBasisSelected(p, frame) ==
  /\ p \in DOMAIN grid /\ grid[p].chart /\ grid[p].kind \in {"heatmap", "shader"}
  /\ Edit
  /\ LET c == grid[p]
         paced(s) == IF s.kind = "depth" /\ s.market \in CustomFreq
                     THEN [s EXCEPT !.frame = frame] ELSE s
     IN  Change(p, [c EXCEPT !.basis = frame, !.streams = {paced(s) : s \in c.streams}])
  /\ Refresh

BasisStreams(c, m, basis) ==
  LET book == {Depth(m, IF c.size = NoneYet THEN "1" ELSE c.size, "default"), Trades(m)}
  IN  IF basis = "tick" THEN book
      ELSE {Kline(m, basis)} \cup (IF c.kind = "footprint" THEN book ELSE {})

(* A chart that replays asks the session to load its bars, not the venue,  *)
(* and the table is not told.                                              *)
AsksTheSession(c, basis) == c.replay /\ basis # "tick"

KlineBasisSelected(p, basis) ==
  /\ p \in DOMAIN grid /\ grid[p].chart /\ grid[p].kind \in {"candle", "footprint"}
  /\ Edit
  /\ \E m \in Pair(grid[p]) :
       Change(p, [grid[p] EXCEPT !.basis = basis, !.streams = BasisStreams(grid[p], m, basis)])
  /\ IF AsksTheSession(grid[p], basis) THEN NotTold(p) ELSE Refresh

-----------------------------------------------------------------------------
(* What happens to panes that nobody edits.                                *)

(* rebuild_content of every pane of the active layout.                     *)
Rebuilt(c, mode) ==
  IF c.chart /\ c.kind \in {"candle", "footprint"} THEN [c EXCEPT !.replay = mode] ELSE c

ModeToggled ==
  /\ replaying' = ~replaying
  /\ grid' = IF present THEN [p \in DOMAIN grid |-> Rebuilt(grid[p], replaying')] ELSE grid
  /\ UNCHANGED <<subscribed, untold, present, edits>>

(* Bars of a session reach a chart (ingest_replay_klines).                 *)
BarsInjected(p) ==
  /\ replaying /\ present /\ p \in DOMAIN grid
  /\ grid' = [grid EXCEPT ![p] = Rebuilt(@, TRUE)]
  /\ UNCHANGED <<subscribed, untold, replaying, present, edits>>

(* ResolveStreams is handled, the tickers being known.                     *)
ResolveStreams(p) ==
  /\ present /\ p \in DOMAIN grid /\ ~grid[p].ready /\ grid[p].streams # {}
  /\ grid' = [grid EXCEPT ![p].ready = TRUE]
  /\ Refresh
  /\ UNCHANGED <<replaying, present, edits>>

(* On a tick a pane with streams and no chart is given one, with streams   *)
(* that follow from its settings, and the table is not told.               *)
ResolveContent(p) ==
  /\ present /\ p \in DOMAIN grid
  /\ grid[p].kind \in Chartable /\ ~grid[p].chart /\ Pair(grid[p]) # {}
  /\ \E m \in Pair(grid[p]) : grid' = [grid EXCEPT ![p] = Showing(@, m, @.kind)]
  /\ IF grid'[p].streams = grid[p].streams THEN UNCHANGED <<subscribed, untold>> ELSE NotTold(p)
  /\ UNCHANGED <<replaying, present, edits>>

(* Another layout is selected: the heatmaps of this one are parked.  Its   *)
(* return derives the table again.                                         *)
LeaveLayout ==
  /\ present /\ present' = FALSE
  /\ grid' = [p \in DOMAIN grid |->
                IF grid[p].kind = "shader" THEN [grid[p] EXCEPT !.chart = FALSE] ELSE grid[p]]
  /\ UNCHANGED <<subscribed, untold, replaying, edits>>

LoadLayout ==
  /\ ~present /\ present' = TRUE
  /\ UNCHANGED <<grid, replaying, edits>>
  /\ Refresh

Restart ==
  /\ Edit
  /\ grid' = [p \in DOMAIN grid |-> Restored(grid[p])]
  /\ subscribed' = {} /\ untold' = {}

-----------------------------------------------------------------------------
(* Frames.  One that some pane wants changes nothing here; trades are      *)
(* wanted by every pane of their ticker.                                   *)
Wanted(s) ==
  \E p \in DOMAIN grid :
    \/ grid[p].ready /\ s \in grid[p].streams
    \/ s.kind = "trades" /\ s.market \in Pair(grid[p])

Listening == ~replaying /\ present

IgnoresUnwanted(s) ==                       \* mutant of UnwantedFrame
  /\ Listening /\ s \in subscribed /\ ~Wanted(s)
  /\ UNCHANGED subscriptionVars

UnwantedFrame(s) ==
  /\ Listening /\ s \in subscribed /\ ~Wanted(s)
  /\ UNCHANGED <<grid, replaying, present, edits>>
  /\ Refresh

SubscriptionNext ==
  \/ \E p \in Cells, m \in Markets : SwitchTicker(p, m) \/ ApiSetTicker(p, m)
  \/ \E p \in Cells, m \in Markets, k \in Chartable : SplitAndInit(p, m, k)
  \/ \E p \in Cells, k \in Kinds : KindSelected(p, k)
  \/ \E p \in Cells, frame \in KlineFrames : ApiSetTimeframe(p, frame)
  \/ \E p \in Cells, basis \in KlineFrames \cup {"tick"} : KlineBasisSelected(p, basis)
  \/ \E p \in Cells, frame \in HeatFrames : HeatBasisSelected(p, frame)
  \/ \E p \in Cells, size \in Sizes : TicksizeSelected(p, size)
  \/ \E p \in Cells :
       \/ SplitPane(p) \/ PaneClosed(p) \/ ReplacePane(p) \/ SwitchOther(p)
       \/ BarsInjected(p) \/ ResolveStreams(p) \/ ResolveContent(p)
  \/ \E s \in subscribed : UnwantedFrame(s)
  \/ ModeToggled \/ LeaveLayout \/ LoadLayout \/ Restart

(* What is subscribed brings frames, again and again.                      *)
FramesArrive == \A s \in AnyStream : WF_subscriptionVars(UnwantedFrame(s))

SubscriptionSpec == SubscriptionInit /\ [][SubscriptionNext]_subscriptionVars /\ FramesArrive

-----------------------------------------------------------------------------
(* PROPERTIES *)
Lacking == {p \in DOMAIN grid : grid[p].ready /\ ~(grid[p].streams \subseteq subscribed)}

(* A pane goes without its frames only if its streams were changed behind  *)
(* the table's back: by a basis while it replays, or when it got its chart *)
(* back.                                                                   *)
LackingIsUntold == Lacking \subseteq untold

(* And it stays without them, in Live, only while everything that is       *)
(* subscribed to is wanted by other panes: a frame that no pane wants      *)
(* brings every pane its streams.                                          *)
AllIsWanted == \A s \in subscribed : Wanted(s)

PanesGetTheirStreams ==
  /\ []LackingIsUntold
  /\ (Lacking # {}) ~> (Listening => Lacking = {} \/ AllIsWanted)
=============================================================================
