----------------------------- MODULE OrderPanels -----------------------------
(***************************************************************************)
(* Where an order of the screen goes: to the broker, or in Replay to the   *)
(* virtual exchange.  The mode has three copies that decide it: is_replay  *)
(* of each layout's dashboard, is_virtual_mode of each pane, is_virtual of *)
(* each order entry panel.  handle_replay writes them, for the layout that *)
(* is active then; everything a pane does is followed by a replay message  *)
(* (SyncReplayBuffers) that makes up for what was opened or switched to    *)
(* since.                                                                  *)
(*                                                                         *)
(* Calls to the broker are tasks; their answers are messages to the pane   *)
(* that made them.  What is on a form is whether it has a quantity, a      *)
(* number or not, and a password.                                          *)
(***************************************************************************)
EXTENDS Integers, FiniteSets

CONSTANTS
  Layouts,       \* one dashboard each
  PaneIds,       \* bound: panes ever, unique_id()
  PanelKinds,    \* which of the kinds
  MaxVirtual     \* bound: orders taken by the exchange

ASSUME PanelAssumption ==
  /\ PanelKinds \subseteq {"entry", "list", "power"}
  /\ Layouts # {} /\ MaxVirtual \in Nat

VARIABLES
  inReplay,   \* ReplayState::is_replay
  active,     \* the active layout
  guard,      \* Dashboard::is_replay, per layout
  panels,     \* panes that are open, by id
  opened,     \* ids used so far
  calls,      \* calls to the broker whose answer has not been handled
  onTheWay,   \* messages: "specs" of a layout switch, "sync"
  virtual     \* orders the exchange has taken since it was made

panelVars == <<inReplay, active, guard, panels, opened, calls, onTheWay, virtual>>

QtyInputs == {"empty", "number", "text"}
CallKinds == {"order", "modify", "orders", "power"}

Panel == [layout : Layouts, kind : PanelKinds,
          virtualPane : BOOLEAN, virtualPanel : BOOLEAN,
          qty : QtyInputs, password : BOOLEAN,
          modal : BOOLEAN,      \* the confirmation, or the change of an order
          rows : BOOLEAN,       \* orders are listed
          loading : BOOLEAN]

TypeOKPanels ==
  /\ inReplay \in BOOLEAN /\ active \in Layouts
  /\ guard \in [Layouts -> BOOLEAN]
  /\ opened \subseteq PaneIds
  /\ DOMAIN panels \subseteq opened
  /\ \A p \in DOMAIN panels : panels[p] \in Panel
  /\ calls \subseteq [pane : opened, what : CallKinds]
  /\ onTheWay \subseteq {"specs", "sync"}
  /\ virtual \in 0 .. MaxVirtual

-----------------------------------------------------------------------------
OnScreen(p)   == p \in DOMAIN panels /\ panels[p].layout = active
IsKind(p, k)  == OnScreen(p) /\ panels[p].kind = k
Blank(layout, kind, virtualPane) ==
  [layout |-> layout, kind |-> kind, virtualPane |-> virtualPane, virtualPanel |-> FALSE,
   qty |-> "empty", password |-> FALSE, modal |-> FALSE, rows |-> FALSE, loading |-> FALSE]

Set(p, panel) == panels' = [panels EXCEPT ![p] = panel]
Call(p, what) == calls' = calls \cup {[pane |-> p, what |-> what]}

(* handle_dashboard_message: the sync is chained after the task, so behind *)
(* a call it comes with the answer, which brings its own.                  *)
WithSync == onTheWay' = onTheWay \cup {"sync"}

-----------------------------------------------------------------------------
(* The mode (handle_replay).  Only the active layout is told.              *)

Told(layout, mode) ==
  [p \in DOMAIN panels |->
     IF panels[p].layout = layout
       THEN [panels[p] EXCEPT !.virtualPane = mode, !.virtualPanel = mode]
       ELSE panels[p]]

GuardOnly(mode) ==                                           \* mutant of SyncVirtualMode
  guard' = [guard EXCEPT ![active] = mode] /\ UNCHANGED panels

SyncVirtualMode(mode) ==
  /\ guard' = [guard EXCEPT ![active] = mode]
  /\ panels' = Told(active, mode)

(* By the button or the HTTP API.  The exchange is made anew and thrown    *)
(* away.                                                                   *)
SwitchMode ==
  /\ inReplay' = ~inReplay
  /\ SyncVirtualMode(inReplay')
  /\ virtual' = 0
  /\ UNCHANGED <<active, opened, calls, onTheWay>>

SyncHandled ==
  /\ "sync" \in onTheWay /\ onTheWay' = onTheWay \ {"sync"}
  /\ SyncVirtualMode(inReplay)
  /\ UNCHANGED <<inReplay, active, opened, calls, virtual>>

(* The specs of the old layout's windows are collected in any case.        *)
LayoutSelected(layout) ==
  /\ layout # active /\ active' = layout
  /\ onTheWay' = onTheWay \cup {"specs"}
  /\ UNCHANGED <<inReplay, guard, panels, opened, calls, virtual>>

SpecsCollected ==
  /\ "specs" \in onTheWay
  /\ onTheWay' = (onTheWay \ {"specs"}) \cup {"sync"}
  /\ UNCHANGED <<inReplay, active, guard, panels, opened, calls, virtual>>

-----------------------------------------------------------------------------
(* Panes.                                                                  *)

(* From the sidebar: no message of a pane, so no sync.  A panel of buying  *)
(* power asks for it at once, without a sign that it loads.                *)
OpenOrderPane(p, kind) ==
  /\ p \notin opened
  /\ panels' = [q \in DOMAIN panels \cup {p} |->
                  IF q = p THEN Blank(active, kind, FALSE) ELSE panels[q]]
  /\ opened' = opened \cup {p}
  /\ IF kind = "power" THEN Call(p, "power") ELSE UNCHANGED calls
  /\ UNCHANGED <<inReplay, active, guard, onTheWay, virtual>>

(* Another content in the same pane, which keeps its own copy of the mode; *)
(* a new panel has none.                                                   *)
ContentSelected(p, kind) ==
  /\ OnScreen(p)
  /\ Set(p, Blank(active, kind, panels[p].virtualPane))
  /\ IF kind = "power" THEN Call(p, "power") /\ UNCHANGED onTheWay
                       ELSE WithSync /\ UNCHANGED calls
  /\ UNCHANGED <<inReplay, active, guard, opened, virtual>>

ClosePane(p) ==
  /\ OnScreen(p)
  /\ panels' = [q \in DOMAIN panels \ {p} |-> panels[q]]
  /\ WithSync
  /\ UNCHANGED <<inReplay, active, guard, opened, calls, virtual>>

-----------------------------------------------------------------------------
(* Order entry.                                                            *)

Typed(p, qty, password) ==
  /\ IsKind(p, "entry")
  /\ Set(p, [panels[p] EXCEPT !.qty = qty, !.password = password])
  /\ WithSync
  /\ UNCHANGED <<inReplay, active, guard, opened, calls, virtual>>

(* The button is disabled while the panel says that it is sending.         *)
CanConfirm(p) ==
  /\ ~panels[p].loading
  /\ panels[p].qty # "empty"
  /\ panels[p].virtualPanel \/ inReplay \/ panels[p].password

ConfirmClicked(p) ==
  /\ IsKind(p, "entry") /\ ~panels[p].modal /\ CanConfirm(p)
  /\ Set(p, [panels[p] EXCEPT !.modal = TRUE])
  /\ WithSync
  /\ UNCHANGED <<inReplay, active, guard, opened, calls, virtual>>

ConfirmCancelled(p) ==
  /\ IsKind(p, "entry") /\ panels[p].modal
  /\ Set(p, [panels[p] EXCEPT !.modal = FALSE])
  /\ WithSync
  /\ UNCHANGED <<inReplay, active, guard, opened, calls, virtual>>

(* build_request.                                                          *)
Complete(p) ==
  panels[p].qty # "empty" /\ (panels[p].virtualPanel \/ panels[p].password)

Rejected(p) ==
  /\ IsKind(p, "entry") /\ panels[p].modal /\ ~Complete(p)
  /\ WithSync
  /\ UNCHANGED <<inReplay, active, guard, panels, opened, calls, virtual>>

Submitted(p) ==
  /\ IsKind(p, "entry") /\ panels[p].modal /\ Complete(p)
  /\ Set(p, [panels[p] EXCEPT !.modal = FALSE, !.loading = TRUE])
  /\ UNCHANGED <<inReplay, active, guard, opened>>

(* To the exchange, if there is one and the quantity is a number; nothing  *)
(* is sent back to the panel.                                              *)
SubmitVirtual(p) ==
  /\ Submitted(p) /\ panels[p].virtualPane
  /\ IF inReplay /\ panels[p].qty = "number"
       THEN virtual < MaxVirtual /\ virtual' = virtual + 1
       ELSE UNCHANGED virtual
  /\ WithSync /\ UNCHANGED calls

(* submit_effect_task: dropped with a warning in the log.                  *)
SubmitBlocked(p) ==
  /\ Submitted(p) /\ ~panels[p].virtualPane /\ guard[active]
  /\ WithSync /\ UNCHANGED <<calls, virtual>>

SubmitToBroker(p) ==
  /\ Submitted(p) /\ ~panels[p].virtualPane /\ ~guard[active]
  /\ Call(p, "order")
  /\ UNCHANGED <<onTheWay, virtual>>

-----------------------------------------------------------------------------
(* Order list and buying power.  Both ask the broker in Replay too.        *)

RefreshClicked(p) ==
  /\ OnScreen(p) /\ panels[p].kind \in {"list", "power"} /\ ~panels[p].loading
  /\ Set(p, [panels[p] EXCEPT !.loading = TRUE])
  /\ Call(p, IF panels[p].kind = "list" THEN "orders" ELSE "power")
  /\ UNCHANGED <<inReplay, active, guard, opened, onTheWay, virtual>>

(* Correct or cancel: the dialog of a listed order.                        *)
ModifyClicked(p) ==
  /\ IsKind(p, "list") /\ panels[p].rows /\ ~panels[p].modal
  /\ Set(p, [panels[p] EXCEPT !.modal = TRUE])
  /\ WithSync
  /\ UNCHANGED <<inReplay, active, guard, opened, calls, virtual>>

(* With its password; what the dialog sends does not change the list.      *)
ModifySubmitted(p) ==
  /\ IsKind(p, "list") /\ panels[p].modal
  /\ Set(p, [panels[p] EXCEPT !.modal = FALSE])
  /\ IF guard[active] THEN WithSync /\ UNCHANGED calls
                      ELSE Call(p, "modify") /\ UNCHANGED onTheWay
  /\ UNCHANGED <<inReplay, active, guard, opened, virtual>>

-----------------------------------------------------------------------------
(* Answers (order_handler.rs), to a pane of the layout that asked, if it   *)
(* is still open and still of the kind.                                    *)

Asked(c) == CASE c.what = "order" -> "entry" [] c.what = "power" -> "power" [] OTHER -> "list"

AfterAnswer(panel, c, ok) ==
  CASE c.what = "order"  -> [panel EXCEPT !.loading = FALSE, !.password = @ /\ ~ok]
    [] c.what = "power"  -> [panel EXCEPT !.loading = FALSE]
    [] c.what = "orders" -> IF ok THEN [panel EXCEPT !.loading = FALSE, !.rows = TRUE] ELSE panel
    [] c.what = "modify" -> panel

CallAnswered(c, ok) ==
  /\ calls' = calls \ {c}
  /\ IF c.pane \in DOMAIN panels /\ panels[c.pane].kind = Asked(c)
       THEN Set(c.pane, AfterAnswer(panels[c.pane], c, ok)) ELSE UNCHANGED panels
  /\ WithSync
  /\ UNCHANGED <<inReplay, active, guard, opened, virtual>>

-----------------------------------------------------------------------------
(* The application starts in the mode it was left in, its dashboards as in *)
(* Live.                                                                   *)
PanelInit ==
  /\ inReplay \in BOOLEAN /\ active \in Layouts
  /\ guard = [l \in Layouts |-> FALSE]
  /\ panels = [p \in {} |-> 0] /\ opened = {}
  /\ calls = {} /\ onTheWay = {} /\ virtual = 0

PanelNext ==
  \/ SwitchMode \/ SyncHandled \/ SpecsCollected
  \/ \E l \in Layouts : LayoutSelected(l)
  \/ \E p \in PaneIds, kind \in PanelKinds : OpenOrderPane(p, kind) \/ ContentSelected(p, kind)
  \/ \E p \in PaneIds :
       \/ ClosePane(p)
       \/ \E qty \in QtyInputs, password \in BOOLEAN : Typed(p, qty, password)
       \/ ConfirmClicked(p) \/ ConfirmCancelled(p) \/ Rejected(p)
       \/ SubmitVirtual(p) \/ SubmitBlocked(p) \/ SubmitToBroker(p)
       \/ RefreshClicked(p) \/ ModifyClicked(p) \/ ModifySubmitted(p)
  \/ \E c \in calls, ok \in BOOLEAN : CallAnswered(c, ok)

PanelSpec == PanelInit /\ [][PanelNext]_panelVars
-----------------------------------------------------------------------------
(* An order goes where the mode says, though the mode has copies that lag  *)
(* behind it: in Live to the broker, in Replay to the exchange and never   *)
(* to the broker, whatever panes were opened, changed or brought up by a   *)
(* layout switch before, on a start in either mode (docs/spec/order.md,    *)
(* 7.4).  While the message that brings the copies in step is on its way   *)
(* it need not.                                                            *)
OrdersFollowTheMode ==
  [][onTheWay = {} =>
       /\ \A c \in calls' \ calls : c.what \in {"order", "modify"} => ~inReplay
       /\ \A p \in PaneIds : Submitted(p) =>
            IF inReplay THEN virtual' > virtual \/ panels[p].qty = "text"
                        ELSE [pane |-> p, what |-> "order"] \in calls']_panelVars
=============================================================================
