------------------------------ MODULE TradeFeed ------------------------------
(***************************************************************************)
(* One trade stream for several tickers of a venue: the loop of            *)
(* connect_trade_stream, the same in every adapter but Tachibana's, which  *)
(* hands on each trade by itself.  Trades are put aside per ticker, and    *)
(* handed on together when a frame comes and the interval has passed, or   *)
(* when the connection ends; on MEXC a failed ping ends it without that.   *)
(* The stream is one subscription for all its tickers: when another pane   *)
(* adds or removes one, the application drops the stream and starts        *)
(* another (subscriptions of src/src/screen/dashboard.rs).                 *)
(*                                                                         *)
(* A trade is its number; a frame has the trades of one ticker in the      *)
(* order of their times (MEXC sorts them).  Prices and sizes are left out. *)
(***************************************************************************)
EXTENDS Integers, Sequences

CONSTANTS
  Tickers,
  MaxTrades,    \* bound: trades of a ticker
  MaxFrames     \* bound: frames not read yet

ASSUME TradeFeedAssumption == MaxTrades \in Nat \ {0} /\ MaxFrames \in Nat \ {0}

VARIABLES
  traded,    \* the venue's last trade, per ticker
  frames,    \* frames not read yet
  open,      \* State::Connected
  due,       \* TRADE_BUCKET_INTERVAL has passed since the last flush
  buffers,   \* trades_buffer_map
  handed,    \* the trades of all TradesReceived so far
  read       \* history: the trades read from frames and not dropped with a stream

tradeVars == <<traded, frames, open, due, buffers, handed, read>>

Trades    == Seq(1 .. MaxTrades)
NoTrades  == [t \in Tickers |-> <<>>]

TypeOKTrade ==
  /\ traded \in [Tickers -> 0 .. MaxTrades]
  /\ Len(frames) <= MaxFrames
  /\ \A i \in DOMAIN frames : frames[i].ticker \in Tickers /\ frames[i].trades \in Trades
  /\ open \in BOOLEAN /\ due \in BOOLEAN
  /\ buffers \in [Tickers -> Trades]
  /\ handed \in [Tickers -> Trades] /\ read \in [Tickers -> Trades]

-----------------------------------------------------------------------------
(* A frame of n trades; one of none is any other message.                  *)
VenueTrades(t, n) ==
  /\ open /\ Len(frames) < MaxFrames /\ traded[t] + n <= MaxTrades
  /\ traded' = [traded EXCEPT ![t] = @ + n]
  /\ frames' = Append(frames, [ticker |-> t, trades |-> [i \in 1 .. n |-> traded[t] + i]])
  /\ UNCHANGED <<open, due, buffers, handed, read>>

UnheardTrade(t) ==
  /\ ~open /\ traded[t] < MaxTrades
  /\ traded' = [traded EXCEPT ![t] = @ + 1]
  /\ UNCHANGED <<frames, open, due, buffers, handed, read>>

IntervalPasses ==
  /\ ~due /\ due' = TRUE
  /\ UNCHANGED <<traded, frames, open, buffers, handed, read>>

(* flush_trade_buffers: every ticker's.                                    *)
HandOn(b)      == handed' = [t \in Tickers |-> handed[t] \o b[t]]
FlushKept(b)   == HandOn(b) /\ buffers' = b                     \* mutant of Flush
Flush(b)       == HandOn(b) /\ buffers' = NoTrades

FrameOfTrades ==
  /\ open /\ frames # <<>>
  /\ frames' = Tail(frames)
  /\ LET f == Head(frames)
         b == [buffers EXCEPT ![f.ticker] = @ \o f.trades]
     IN  /\ read' = [read EXCEPT ![f.ticker] = @ \o f.trades]
         /\ IF due THEN Flush(b) ELSE buffers' = b /\ UNCHANGED handed
  /\ due' = FALSE
  /\ UNCHANGED <<traded, open>>

UnreadableTrades ==
  /\ open /\ frames # <<>>
  /\ frames' = Tail(frames)
  /\ IF due THEN Flush(buffers) ELSE UNCHANGED <<buffers, handed>>
  /\ due' = FALSE
  /\ UNCHANGED <<traded, open, read>>

(* Close frame or read error.                                              *)
StreamCloses ==
  /\ open /\ open' = FALSE /\ frames' = <<>>
  /\ Flush(buffers)
  /\ UNCHANGED <<traded, due, read>>

PingFails ==
  /\ open /\ open' = FALSE /\ frames' = <<>>
  /\ UNCHANGED <<traded, due, buffers, handed, read>>

(* The interval starts anew, except on MEXC.                               *)
Reconnect ==
  /\ ~open /\ open' = TRUE
  /\ due' \in {due, FALSE}
  /\ UNCHANGED <<traded, frames, buffers, handed, read>>

(* The tickers of the subscription change: a new stream, with no buffer.   *)
Resubscribe ==
  /\ open' = FALSE /\ frames' = <<>> /\ due' = FALSE
  /\ buffers' = NoTrades
  /\ read' = handed
  /\ UNCHANGED <<traded, handed>>

TradeInit ==
  /\ traded = [t \in Tickers |-> 0]
  /\ frames = <<>> /\ open = FALSE /\ due = FALSE
  /\ buffers = NoTrades /\ handed = NoTrades /\ read = NoTrades

TradeNext ==
  \/ \E t \in Tickers : UnheardTrade(t) \/ \E n \in 0 .. 2 : VenueTrades(t, n)
  \/ IntervalPasses \/ FrameOfTrades \/ UnreadableTrades
  \/ StreamCloses \/ PingFails \/ Reconnect \/ Resubscribe

TradeSpec == TradeInit /\ [][TradeNext]_tradeVars

-----------------------------------------------------------------------------
(* Whatever was read is handed on once and in the order it was traded in,  *)
(* over flushes, lost frames, closed connections and failed pings; only a  *)
(* new subscription may lose what was put aside.                           *)
TradesOnceInOrder ==
  \A t \in Tickers :
    /\ handed[t] \o buffers[t] = read[t]
    /\ \A i, j \in DOMAIN read[t] : i < j => read[t][i] < read[t][j]
=============================================================================
