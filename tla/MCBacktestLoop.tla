--------------------------- MODULE MCBacktestLoop ---------------------------
(* The loop over candles that stay, rise, fall, spike and jump, with a setting *)
(* for each rule and for the rules together, and slippages of 100 % and more. *)
EXTENDS BacktestLoop

Candle(open, high, low, close) ==
  [open |-> open, high |-> high, low |-> low, close |-> close]

MCCandles == {Candle(100, 101, 99, 100), Candle(100, 140, 100, 130),
              Candle(90, 90, 60, 70), Candle(100, 230, 40, 100),
              Candle(210, 230, 200, 220)}

Setting(fill, stop_loss, drawdown_stop, fee, slippage) ==
  [fill |-> fill, stop_loss |-> stop_loss, drawdown_stop |-> drawdown_stop,
   fee |-> fee, slippage |-> slippage]

MCSettings ==
  {Setting(fill, stop, limit, 1, 2) :
     fill \in Fills, stop \in {None, 20}, limit \in {None, 15}}
  \cup {Setting(fill, stop, None, 1, slippage) :
          fill \in Fills, stop \in {None, 20}, slippage \in {100, 150}}
=============================================================================
