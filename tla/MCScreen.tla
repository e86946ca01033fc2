------------------------------ MODULE MCScreen ------------------------------
(* What is on the screen: a heatmap, a footprint, and the layouts they are *)
(* in.  They share no variable: in each behaviour one of them moves.       *)
(*                                                                         *)
(* The footprint's tape has two trades in one bar, a bar without any,      *)
(* prices that come back, and the change of a day after its second trade.  *)
(* A layout may be given a name that fills the 20 characters; a behaviour  *)
(* spends its budget on edits of the list of layouts, on windows, or on    *)
(* some of each and a restart.                                             *)
EXTENDS DepthHistory, Footprint, Layouts

CONSTANT long

VARIABLE part

Trade(t, p) == [time |-> t, price |-> p]

MCTapes == {<<Trade(0, 1), Trade(1, 3), Trade(2, 4), Trade(4, 1), Trade(5, 3)>>}
MCBases == {[kind |-> "time", n |-> 2], [kind |-> "tick", n |-> 2]}
MCViews == {<<0, 6>>}
MCRoom  == long :> 0

Budget(edits, popouts, saves) == [edits |-> edits, popouts |-> popouts, saves |-> saves]

MCBudgets == {Budget(1, 1, 1), Budget(2, 0, 1)}

(* A part that does not move starts in one state only.                     *)
Still ==
  /\ part # "heatmap" => interval = 1
  /\ part # "footprint" => tie = "low"
  /\ part # "layouts" => left = Budget(1, 1, 1)

Init ==
  /\ part \in {"heatmap", "footprint", "layouts"}
  /\ HistoryInit /\ FootprintInit /\ LayoutInit /\ Still

Next ==
  /\ UNCHANGED part
  /\ \/ part = "heatmap" /\ HistoryNext /\ UNCHANGED <<footprintVars, layoutVars>>
     \/ part = "footprint" /\ FootprintNext /\ UNCHANGED <<historyVars, layoutVars>>
     \/ part = "layouts" /\ LayoutNext /\ UNCHANGED <<historyVars, footprintVars>>

Spec == Init /\ [][Next]_<<part, historyVars, footprintVars, layoutVars>>

(* Every part keeps to its types.                                          *)
TypeOKScreen == TypeOKHistory /\ TypeOKFootprint /\ TypeOKLayouts
=============================================================================
