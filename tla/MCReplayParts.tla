---------------------------- MODULE MCReplayParts ----------------------------
(* The clock and the book of a replay, each under arbitrary callers, the   *)
(* order panels with the mode, and the subscriptions of the panes.  They   *)
(* share no variable: in each behaviour one of them moves.  The clock has  *)
(* a range of seven time units that steps of two and three do not divide,  *)
(* and a base delay of four milliseconds at speeds 1, 2 and "instant" (9). *)
EXTENDS ClockDriver, VirtualExchange, OrderPanels, Subscriptions

MCFrame == [k \in Kinds |-> CASE k = "candle" -> "15m" [] k = "footprint" -> "5m"
                              [] k = "order" -> "" [] OTHER -> "100ms"]

VARIABLE part

Parts == {"clock", "book", "panels", "streams"}

PartsInit ==
  /\ part \in Parts
  /\ Init /\ ExchangeInit /\ PanelInit /\ SubscriptionInit
  /\ part # "clock" => \A step \in StepSizes : clock.step <= step
  /\ part # "panels" => ~inReplay /\ active = CHOOSE layout \in Layouts : TRUE
  /\ part # "streams" => ~replaying /\ grid = CHOOSE g \in SavedGrids : TRUE

PartsNext ==
  /\ UNCHANGED part
  /\ \/ part = "clock" /\ Next /\ UNCHANGED <<exchangeVars, panelVars, subscriptionVars>>
     \/ part = "book" /\ ExchangeNext /\ UNCHANGED <<vars, panelVars, subscriptionVars>>
     \/ part = "panels" /\ PanelNext /\ UNCHANGED <<vars, exchangeVars, subscriptionVars>>
     \/ part = "streams" /\ SubscriptionNext /\ UNCHANGED <<vars, exchangeVars, panelVars>>

(* The clock of another part is paused, and nothing is subscribed to there. *)
PartsSpec ==
  /\ PartsInit
  /\ [][PartsNext]_<<part, vars, exchangeVars, panelVars, subscriptionVars>>
  /\ WF_vars(Ticking) /\ FramesArrive

(* All keep to their types.                                                *)
TypeOKParts == TypeOK /\ TypeOKExchange /\ TypeOKPanels /\ TypeOKSubscriptions
=============================================================================
