------------------------------ MODULE Layouts ------------------------------
(***************************************************************************)
(* The layouts of the application (LayoutManager of                        *)
(* src/src/modal/layout_manager.rs), the panes of each, in the grid of the *)
(* main window or popped out into windows of their own (Dashboard,         *)
(* src/src/screen/dashboard.rs and pane_ops.rs), and what is saved of them *)
(* and restored (src/src/app/persistence.rs, src/src/layout.rs).           *)
(*                                                                         *)
(* A pane stands for what the user made of it and is known again after a   *)
(* restart.  Numbers in a grid are given anew by every start; a popped out *)
(* pane is alone in a grid of its own, with number 0.  How a grid is       *)
(* divided, and the places of windows on the screen, are left out.         *)
(***************************************************************************)
EXTENDS Integers, Sequences, SequencesExt, FiniteSetsExt, Functions, TLC

CONSTANTS
  Typed,         \* names the user may type
  Room,          \* how many suffixes " (n)" fit behind each in 20 characters
  DefaultPanes,  \* panes of a new layout
  ApiOn,         \* where the panes are that the HTTP client splits or closes
  MaxLayouts,    \* bounds: layouts, panes and windows at a time
  MaxPanes,
  MaxWindows,
  Budgets        \* bounds: how often the list is edited, panes popped out, the state saved

ASSUME LayoutsAssumption ==
  /\ Room \in [Typed -> Nat] /\ DefaultPanes \in Nat \ {0} /\ DefaultPanes <= MaxPanes
  /\ ApiOn \subseteq {"main", "popout"}
  /\ {MaxLayouts, MaxPanes, MaxWindows} \subseteq Nat \ {0}
  /\ Budgets \subseteq [edits : Nat, popouts : Nat, saves : Nat]

VARIABLES
  layouts,  \* layouts: sequence of [id, name, main, popouts, focus]
  active,   \* active_layout_id
  open,     \* windows on the screen besides the main one
  clicks,   \* PaneClicked messages of windows that open: set of [layout, window]
  pressed,  \* the button the mouse is held down on, or NoButton
  running,
  saved,    \* saved-state.json, or NoFile
  left,     \* what is left of the budget
  owed      \* history: the panes the user has

layoutVars == <<layouts, active, open, clicks, pressed, running, saved, left, owed>>

MainWindow == 0
NoFocus    == [window |-> -1, grid |-> -1]
NoButton   == [button |-> "none", window |-> -1]
NoFile     == [layouts |-> <<>>]
Panes      == 1 .. MaxPanes
Windows    == 1 .. MaxWindows

PanesOf(d) == Range(d.main) \cup Range(d.popouts)
Placed     == UNION {PanesOf(layouts[i]) : i \in DOMAIN layouts}

TypeOKLayouts ==
  /\ \A i \in DOMAIN layouts :
       LET d == layouts[i]
       IN /\ d.id \in 1 .. MaxLayouts /\ d.main # <<>> /\ PanesOf(d) \subseteq Panes
          /\ DOMAIN d.popouts \subseteq Windows /\ DOMAIN d.main \subseteq 0 .. MaxPanes + 1
          /\ d.focus.window \in {-1, MainWindow} \cup Windows
  /\ running => \E i \in DOMAIN layouts : layouts[i].id = active
  /\ open \subseteq Windows /\ pressed.button \in {"none", "popout", "merge"}
  /\ clicks \subseteq [layout : 1 .. MaxLayouts, window : Windows]
  /\ running \in BOOLEAN /\ left \in [edits : Nat, popouts : Nat, saves : Nat] /\ owed \subseteq Panes

-----------------------------------------------------------------------------
(* New ids: the application takes numbers never used, here those that are  *)
(* no longer in use anywhere.                                              *)
Some(S, n) == SubSeq(SetToSeq(S), 1, n)

FocusWindows == {layouts[i].focus.window : i \in DOMAIN layouts}
SavedPanes   == IF saved = NoFile THEN {} ELSE saved.owed
FreePanes    == Panes \ (owed \cup Placed \cup SavedPanes)
FreeLayouts  == (1 .. MaxLayouts) \ ({layouts[i].id : i \in DOMAIN layouts} \cup {c.layout : c \in clicks})
FreeWindows  == Windows \ (open \cup FocusWindows \cup {pressed.window} \cup {c.window : c \in clicks}
                           \cup UNION {DOMAIN layouts[i].popouts : i \in DOMAIN layouts})
FreeGrid(d)  == Min((1 .. MaxPanes + 1) \ (DOMAIN d.main \cup {d.focus.grid}))

Position(id) == CHOOSE i \in DOMAIN layouts : layouts[i].id = id
Active       == layouts[Position(active)]
Becomes(d)   == layouts' = [layouts EXCEPT ![Position(active)] = d]

Without(f, k) == [x \in DOMAIN f \ {k} |-> f[x]]
With(f, k, v) == [x \in DOMAIN f \cup {k} |-> IF x = k THEN v ELSE f[x]]
Focus(w, g)   == [window |-> w, grid |-> g]

-----------------------------------------------------------------------------
(* Names: a base, typed or the number of "Layout n", and suffixes.         *)
RoomOf(name) == IF name[1] \in Typed THEN Room[name[1]] ELSE 3
IsCut(name) == Len(name) > RoomOf(name)
Cut(name)    == SubSeq(name, 1, Min({Len(name), 1 + RoomOf(name)}))

Names == {layouts[i].name : i \in DOMAIN layouts}

GenerateUniqueLayoutName == <<Min({k \in 1 .. Len(layouts) + 1 : <<k>> \notin Names})>>

(* The name is cut after it was made unique.                               *)
EnsureUniqueName(proposed, id) ==
  LET others       == {layouts[i].name : i \in {j \in DOMAIN layouts : layouts[j].id # id}}
      candidate(k) == IF k = 1 THEN proposed ELSE Append(proposed, k)
  IN Cut(candidate(Min({k \in 1 .. Len(layouts) + 1 : candidate(k) \notin others})))

-----------------------------------------------------------------------------
(* Dashboards.                                                             *)
NumberedFrom(zero, panes) ==
  With(SetToSeq(panes \ {zero}), 0, zero)

Dashboard(id, name, main, popouts) ==
  [id |-> id, name |-> name, main |-> main, popouts |-> popouts, focus |-> NoFocus]

PoppedOut(panes) ==
  LET ps == SetToSeq(panes) ws == Some(FreeWindows, Len(ps))
  IN [w \in ToSet(ws) |-> ps[CHOOSE k \in DOMAIN ws : ws[k] = w]]

DefaultDashboard(id, name) ==
  LET fresh == Some(FreePanes, DefaultPanes)
  IN Dashboard(id, name, NumberedFrom(fresh[1], ToSet(fresh)), <<>>)

(* split and close of a grid: the last pane cannot be closed.              *)
SplitOff(d, w, p) ==
  [d EXCEPT !.main = With(@, FreeGrid(d), p), !.focus = Focus(w, FreeGrid(d))]

CanClose(d, g) == g \in DOMAIN d.main /\ Cardinality(DOMAIN d.main) > 1

(* load_layout: windows for the popped out panes, in place of those they   *)
(* had when the layout was last active.                                    *)
LoadLayout(d) == [d EXCEPT !.popouts = PoppedOut(Range(d.popouts))]

LayoutInit ==
  /\ layouts = <<Dashboard(1, <<1>>, NumberedFrom(1, 1 .. DefaultPanes), <<>>)>>
  /\ active = 1 /\ open = {} /\ clicks = {} /\ pressed = NoButton
  /\ running = TRUE /\ saved = NoFile /\ left \in Budgets
  /\ owed = 1 .. DefaultPanes

-----------------------------------------------------------------------------
(* The mouse.  Pressing it on a pane focuses the pane, releasing it on a   *)
(* button of the pane uses the button; the button acts on the focus.       *)
Mouse == running /\ pressed = NoButton

Press(w, g, button) ==
  /\ Mouse
  /\ IF w = MainWindow THEN g \in DOMAIN Active.main ELSE w \in DOMAIN Active.popouts \cap open /\ g = 0
  /\ button = "popout" => w = MainWindow /\ Cardinality(DOMAIN Active.main) > 1 /\ left.popouts > 0
  /\ button = "merge" => w # MainWindow
  /\ Becomes([Active EXCEPT !.focus = Focus(w, g)])
  /\ pressed' = IF button = "none" THEN NoButton ELSE [button |-> button, window |-> w]
  /\ UNCHANGED <<active, open, clicks, running, saved, owed, left>>

(* popout_pane asks for the focused pane's number, not for its window.     *)
(* (Bound: one window opens at a time.)                                    *)
Popout ==
  /\ running /\ pressed.button = "popout" /\ pressed' = NoButton
  /\ LET f == Active.focus taken == [Active EXCEPT !.focus = NoFocus]
         w == Min(FreeWindows)
     IN IF CanClose(Active, f.grid)
        THEN /\ FreeWindows # {} /\ clicks = {} /\ left.popouts > 0 /\ left' = [left EXCEPT !.popouts = @ - 1]
             /\ Becomes([taken EXCEPT !.main = Without(@, f.grid), !.popouts = With(@, w, Active.main[f.grid])])
             /\ open' = open \cup {w} /\ clicks' = clicks \cup {[layout |-> active, window |-> w]}
        ELSE Becomes(taken) /\ UNCHANGED <<open, clicks, left>>
  /\ UNCHANGED <<active, running, saved, owed>>

(* The message of a window that has opened, to its layout.                 *)
WindowOpened(c) ==
  /\ running /\ c \in clicks /\ clicks' = clicks \ {c}
  /\ layouts' = [i \in DOMAIN layouts |->
                   IF layouts[i].id # c.layout THEN layouts[i]
                   ELSE [layouts[i] EXCEPT !.focus = Focus(c.window, 0)]]
  /\ UNCHANGED <<active, open, pressed, running, saved, owed, left>>

(* merge_pane: the grid of the focused window goes, and the pane of the    *)
(* focused number in it comes into the main window.                        *)
Merge ==
  /\ running /\ pressed.button = "merge" /\ pressed' = NoButton
  /\ LET f == Active.focus taken == [Active EXCEPT !.focus = NoFocus, !.popouts = Without(@, f.window)]
     IN IF f.window \in DOMAIN Active.popouts /\ f.grid = 0
        THEN /\ Becomes(SplitOff(taken, MainWindow, Active.popouts[f.window]))
             /\ open' = open \ {f.window}
        ELSE Becomes(taken) /\ UNCHANGED open
  /\ UNCHANGED <<active, clicks, running, saved, owed, left>>

(* CloseRequested of another window than the main one: the active layout   *)
(* forgets the window, and the pane in it.                                 *)
CloseWindow(w) ==
  /\ Mouse /\ w \in open /\ open' = open \ {w}
  /\ Becomes([Active EXCEPT !.popouts = Without(@, w)])
  /\ owed' = owed \ (IF w \in DOMAIN Active.popouts THEN {Active.popouts[w]} ELSE {})
  /\ UNCHANGED <<active, clicks, pressed, running, saved, left>>

-----------------------------------------------------------------------------
(* SplitPane and ClosePane: the number, whatever the window, in the main   *)
(* window's grid.  The buttons are in the main window; the HTTP client     *)
(* names any pane.                                                         *)
Addressed(w, g) ==
  \/ w = MainWindow /\ g \in DOMAIN Active.main /\ (pressed = NoButton \/ "main" \in ApiOn)
  \/ w \in DOMAIN Active.popouts /\ g = 0 /\ "popout" \in ApiOn

SplitPane(w, g) ==
  /\ running /\ Addressed(w, g) /\ FreePanes # {}
  /\ g \in DOMAIN Active.main
  /\ Becomes(SplitOff(Active, w, Min(FreePanes))) /\ owed' = owed \cup {Min(FreePanes)}
  /\ UNCHANGED <<active, open, clicks, pressed, running, saved, left>>

ClosePane(w, g) ==
  /\ running /\ Addressed(w, g) /\ CanClose(Active, g)
  /\ \E sibling \in DOMAIN Active.main \ {g} :
       Becomes([Active EXCEPT !.main = Without(@, g), !.focus = Focus(w, sibling)])
  /\ owed' = owed \ {IF w = MainWindow THEN Active.main[g] ELSE Active.popouts[w]}
  /\ UNCHANGED <<active, open, clicks, pressed, running, saved, left>>

(* split_focused_and_init_order: the main window's grid is split at the    *)
(* number of the focus, whatever window the focus is in.                   *)
AutoFocus(d) ==
  IF d.focus = NoFocus /\ Cardinality(DOMAIN d.main) = 1
  THEN [d EXCEPT !.focus = Focus(MainWindow, CHOOSE g \in DOMAIN d.main : TRUE)] ELSE d

OpensOrderPane(p) ==
  LET d == AutoFocus(Active)
  IN d.focus.grid \in DOMAIN d.main /\ Becomes(SplitOff(d, d.focus.window, p))

OpenOrderPane ==
  /\ running /\ (pressed = NoButton \/ "popout" \in ApiOn) /\ FreePanes # {}
  /\ OpensOrderPane(Min(FreePanes)) /\ owed' = owed \cup {Min(FreePanes)}
  /\ UNCHANGED <<active, open, clicks, pressed, running, saved, left>>

-----------------------------------------------------------------------------
(* The layout manager.                                                     *)
Known(id) == \E i \in DOMAIN layouts : layouts[i].id = id

Edit == left.edits > 0 /\ left' = [left EXCEPT !.edits = @ - 1]

Fits(n, windows) ==
  /\ Cardinality(FreePanes) >= n /\ Cardinality(FreeWindows) >= windows

(* The id changes before the windows of the layout that was active are     *)
(* asked for: those that are closed are the ones the new layout had when   *)
(* it was last active, and those of the old one stay.                      *)
SelectActive(id) ==
  /\ Mouse /\ Known(id) /\ id # active /\ active' = id
  /\ LET d == layouts[Position(id)] loaded == LoadLayout(d)
     IN /\ Fits(0, Cardinality(DOMAIN d.popouts))
        /\ layouts' = [layouts EXCEPT ![Position(id)] = loaded]
        /\ open' = (open \ DOMAIN d.popouts) \cup (DOMAIN loaded.popouts \ DOMAIN d.popouts)
  /\ UNCHANGED <<clicks, pressed, running, saved, owed, left>>

AddLayout ==
  /\ Mouse /\ FreeLayouts # {} /\ Fits(DefaultPanes, 0)
  /\ LET new == DefaultDashboard(Min(FreeLayouts), GenerateUniqueLayoutName)
     IN /\ layouts' = Append(layouts, new) /\ active' = new.id
        /\ owed' = owed \cup PanesOf(new)
  /\ open' = open \ DOMAIN Active.popouts
  /\ Edit /\ UNCHANGED <<clicks, pressed, running, saved>>

RemoveAny(id) == Known(id)                                  \* mutant of CanRemove
CanRemove(id) == Known(id) /\ id # active

(* retain: the id is of one layout.                                        *)
RemoveLayout(id) ==
  /\ Mouse /\ CanRemove(id)
  /\ owed' = owed \ PanesOf(layouts[Position(id)])
  /\ layouts' = RemoveAt(layouts, Position(id))
  /\ Edit /\ UNCHANGED <<active, open, clicks, pressed, running, saved>>

CloneLayout(id) ==
  LET d == layouts[Position(id)] n == Cardinality(DOMAIN d.main) k == Cardinality(DOMAIN d.popouts)
      fresh == Some(FreePanes, n + k)
  IN /\ Mouse /\ Known(id) /\ FreeLayouts # {} /\ Fits(n + k, k)
     /\ layouts' = Append(layouts, Dashboard(Min(FreeLayouts), EnsureUniqueName(d.name, Min(FreeLayouts)),
                     NumberedFrom(fresh[1], ToSet(SubSeq(fresh, 1, n))), PoppedOut(ToSet(SubSeq(fresh, n + 1, n + k)))))
     /\ owed' = owed \cup ToSet(fresh)
     /\ Edit /\ UNCHANGED <<active, open, clicks, pressed, running, saved>>

SetLayoutName(id, proposed) ==
  /\ Mouse /\ Known(id)
  /\ layouts' = [layouts EXCEPT ![Position(id)].name = EnsureUniqueName(proposed, id)]
  /\ Edit /\ UNCHANGED <<active, open, clicks, pressed, running, saved, owed>>

Reorder(index, target) ==
  /\ Mouse /\ index # target
  /\ LET rest == RemoveAt(layouts, index)
     IN layouts' = InsertAt(rest, IF index < target THEN target - 1 ELSE target, layouts[index])
  /\ Edit /\ UNCHANGED <<active, open, clicks, pressed, running, saved, owed>>

-----------------------------------------------------------------------------
(* save_state_to_disk and load_saved_state.  Layouts are saved without     *)
(* their ids, the active one by its name.                                  *)
GridOnly(d)   == [name |-> d.name, main |-> Range(d.main), popouts |-> {}]    \* mutant of Serialized
Serialized(d) == [name |-> d.name, main |-> Range(d.main), popouts |-> Range(d.popouts)]

FirstName  == layouts[1].name                                                 \* mutant of ActiveName
ActiveName == Active.name

SaveState ==
  /\ left.saves > 0 /\ left' = [left EXCEPT !.saves = @ - 1]
  /\ saved' = [layouts |-> [i \in DOMAIN layouts |-> Serialized(layouts[i])], active |-> ActiveName,
               owed |-> owed, position |-> Position(active)]

ApiSaveState ==
  /\ running /\ SaveState
  /\ UNCHANGED <<layouts, active, open, clicks, pressed, running, owed>>

Gone == running' = FALSE /\ open' = {} /\ clicks' = {} /\ pressed' = NoButton

ExitRequested == running /\ SaveState /\ Gone /\ UNCHANGED <<layouts, active, owed>>

(* What was not saved is lost.                                             *)
Crash ==
  /\ running /\ Gone
  /\ owed' = (IF saved = NoFile THEN 1 .. DefaultPanes ELSE saved.owed)
  /\ UNCHANGED <<layouts, active, saved, left>>

(* load_saved_state, then transition_to_dashboard.                         *)
Restored(i, zero, windows) ==
  LET d == saved.layouts[i] IN Dashboard(i, d.name, NumberedFrom(zero, d.main), windows)

Start ==
  /\ ~running /\ running' = TRUE
  /\ IF saved = NoFile
     THEN layouts' = <<Dashboard(1, <<1>>, NumberedFrom(1, 1 .. DefaultPanes), <<>>)>> /\ active' = 1 /\ open' = {}
     ELSE LET all == UNION {saved.layouts[i].popouts : i \in DOMAIN saved.layouts}
              pane == SetToSeq(all)       \* the pane in each window
              in(i) == {w \in DOMAIN pane : pane[w] \in saved.layouts[i].popouts}
              first == Min({i \in DOMAIN saved.layouts : saved.layouts[i].name = saved.active})
          IN /\ Cardinality(all) <= MaxWindows
             /\ \E zero \in [DOMAIN saved.layouts -> Panes] :
                  /\ \A i \in DOMAIN zero : zero[i] \in saved.layouts[i].main
                  /\ layouts' = [i \in DOMAIN zero |-> Restored(i, zero[i], [w \in in(i) |-> pane[w]])]
             /\ active' = first /\ open' = in(first)
  /\ UNCHANGED <<clicks, pressed, saved, owed, left>>

LayoutNext ==
  \/ \E w \in {MainWindow} \cup open, g \in {0} \cup DOMAIN Active.main, b \in {"none", "popout", "merge"} :
       Press(w, g, b)
  \/ Popout
  \/ \E c \in clicks : WindowOpened(c)
  \/ Merge
  \/ \E w \in open : CloseWindow(w)
  \/ \E w \in {MainWindow} \cup DOMAIN Active.popouts, g \in {0} \cup DOMAIN Active.main :
       SplitPane(w, g) \/ ClosePane(w, g)
  \/ OpenOrderPane
  \/ \E id \in 1 .. MaxLayouts :
       \/ SelectActive(id) \/ RemoveLayout(id) \/ CloneLayout(id)
       \/ \E name \in {<<b>> : b \in Typed} \cup Names : SetLayoutName(id, name)
  \/ AddLayout
  \/ \E i \in DOMAIN layouts, t \in 1 .. Len(layouts) + 1 : Reorder(i, t)
  \/ ApiSaveState \/ ExitRequested \/ Crash \/ Start

-----------------------------------------------------------------------------
(* Every pane the user has, and no other, is in one place of one layout,   *)
(* and those that are popped out of the active layout have a window on the *)
(* screen: popping out, merging with the focus elsewhere by now, switching,*)
(* cloning, ordering, saving and starting again lose or double none.  What *)
(* goes is what was closed, alone, with its window or with its layout, and *)
(* what was not saved before a crash.  That a window takes its pane along  *)
(* is what the code does, not what is said of it: ClosedWindowsGiveBack.   *)
OnceIn(d) ==
  /\ IsInjective(d.main) /\ IsInjective(d.popouts)
  /\ Range(d.main) \cap Range(d.popouts) = {}

OncePlaced ==
  /\ Placed = owed
  /\ \A i \in DOMAIN layouts : OnceIn(layouts[i])
  /\ \A i, j \in DOMAIN layouts : i # j => PanesOf(layouts[i]) \cap PanesOf(layouts[j]) = {}

PopoutsAreOnScreen == DOMAIN Active.popouts \subseteq open

PanesAreKept == running => OncePlaced /\ PopoutsAreOnScreen

(* A window that is closed gives its pane back to the window it came from, *)
(* as it was (docs/wiki/settings.md:67,                                    *)
(* "閉じると元のウィンドウに戻る（ペインの内容は保持される）"): while its   *)
(* layout stays on the screen, the pane that was in the window is in the   *)
(* grid of the main window afterwards.  Merge keeps to it; CloseWindow     *)
(* (app/handlers.rs, CloseRequested) does not.                             *)
ClosedWindowsGiveBack ==
  [][(running /\ running' /\ active' = active) =>
       \A w \in DOMAIN Active.popouts \cap (open \ open') :
         Active.popouts[w] \in Range(Active.main)']_layoutVars

(* The layout that was active when the state was saved is active after the *)
(* start, whatever was added, renamed and ordered before: unless its name  *)
(* was cut off.                                                            *)
Starts == ~running /\ running' /\ saved # NoFile

TheActiveLayoutReturns ==
  [][Starts /\ ~IsCut(saved.active) => layouts'[saved.position].id = active']_layoutVars

LayoutSpec == LayoutInit /\ [][LayoutNext]_layoutVars
=============================================================================
