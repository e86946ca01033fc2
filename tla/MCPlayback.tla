------------------------------ MODULE MCPlayback ------------------------------
(* The controller with the exchange beside it, under the fairness of the   *)
(* controller.  A behaviour that trades has one pane, and a range that is  *)
(* fit to load or that cannot be read.  One that does not leaves the book  *)
(* empty, has every pane, a range too large to load, and the HTTP command  *)
(* Play at any time: what that command does to a book that is not empty is *)
(* shown by MCApiPlay.cfg.                                                 *)
EXTENDS MCReplayTrading, SessionProperties

VARIABLE trades

ThePane == CHOOSE p \in Panes : TRUE

(* What a behaviour that trades, and one that does not, are bound to: only *)
(* what the user and the panes do is held back.                            *)
Alone        == \A p \in Panes \ {ThePane} : panes[p] = NoStream
InputsOfKind == rangeInput.end # IF trades THEN 8 ELSE BadText
StaysEmpty   == engine' = IF mode' = "Replay" THEN EmptyBook ELSE NoEngine

MCInit ==
  /\ trades \in BOOLEAN
  /\ TradingInit
  /\ InputsOfKind /\ (trades => Alone)

MCNext ==
  /\ UNCHANGED trades
  /\ \/ trades /\ TradingNext /\ Alone'
     \/ ~trades /\ Next /\ StaysEmpty
  /\ InputsOfKind'

MCSpec == MCInit /\ [][MCNext]_<<tvars, trades>> /\ Fairness
=============================================================================
