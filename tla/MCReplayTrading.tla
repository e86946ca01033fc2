--------------------------- MODULE MCReplayTrading ---------------------------
EXTENDS ReplayTrading

(* One pane, two timeframes of one ticker; the range 2..5 ends on a step   *)
(* of three and not of two.  The first bar of m2 after the start closes    *)
(* higher than the others, and m3 disagrees with m2 about the price.       *)
MCTimeframeOf == [s \in Streams |-> IF s = "m2" THEN 2 ELSE 3]
MCBarsOf  == [s \in Streams |-> IF s = "m2" THEN {0, 2, 4} ELSE {0, 3}]
MCCloseOf == [s \in Streams |-> [b \in 0 .. 4 |-> IF s = "m2" /\ b = 2 THEN 3 ELSE 2]]
MCSpeeds == <<1>>
=============================================================================
