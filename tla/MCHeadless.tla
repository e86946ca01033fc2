------------------------------ MODULE MCHeadless ------------------------------
EXTENDS Headless, TLC

(* Bars of two, a range that ends between two of them, and closes that     *)
(* tell the bars apart.                                                    *)
MCCloseOf == [b \in HasBars |-> 10 + b]
MCSpeeds  == <<1, 2>>

(* Panes and narratives do not touch each other: panes are changed only   *)
(* as long as there is no narrative.                                       *)
PanesOrNarratives == panes = FirstPane \/ files = {}
=============================================================================
