--------------------------- MODULE MCReplaySession ---------------------------
EXTENDS SessionProperties, TLC

(* Two timeframes of one ticker: their bars open on different grids, the   *)
(* range 2..5 ends on a step of m3 and not of m2, the range 2..8 on a step *)
(* of both, and it may be too large to load.                               *)
MCTimeframeOf == [s \in Streams |-> IF s = "m2" THEN 2 ELSE 3]
MCBarsOf == [s \in Streams |-> IF s = "m2" THEN {0, 2, 4} ELSE {0, 3}]

MCSpeeds == <<1, 2>>

MCOneSpeed == <<1>>

PaneSymmetry == Permutations(Panes)
=============================================================================
