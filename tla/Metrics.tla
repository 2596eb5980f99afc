------------------------------ MODULE Metrics ------------------------------
(***************************************************************************)
(* The statistics of one run of the backtest (metrics/summary.py), from the *)
(* trades and the series the engine gives.  Sharpe and Sortino ratios stand *)
(* as their signed squares, which keeps them fractions.                     *)
(***************************************************************************)
EXTENDS Integers, SequencesExt, Fractions

CONSTANTS Undefined     \* the value of a statistic that is None

RECURSIVE Gcd(_, _)
Gcd(a, b) == IF b = 0 THEN a ELSE Gcd(b, a % b)

\* In lowest terms, so that numbers stay small.
Reduced(x) ==
    LET common == Gcd(x[2], IF x[1] < 0 THEN -x[1] ELSE x[1])
    IN  <<x[1] \div common, x[2] \div common>>
Minus(x, y) == Reduced(Plus(x, Negative(y)))
Times(x, y) == Reduced(<<x[1] * y[1], x[2] * y[2]>>)
Over(x, y) == Reduced(IF y[1] < 0 THEN <<-x[1] * y[2], -x[2] * y[1]>> ELSE <<x[1] * y[2], x[2] * y[1]>>)
Greatest(S) == CHOOSE x \in S : \A y \in S : ~Less(x, y)
Least(S) == CHOOSE x \in S : \A y \in S : ~Less(y, x)

One == Num(1)
Total(values) == FoldLeft(LAMBDA sum, x : Reduced(Plus(sum, x)), Num(0), values)
Mean(values) == Over(Total(values), Num(Len(values)))

\* A wrong form: the highest equity of the whole run.
PeakOfRun(series, t) == Greatest({One} \cup {series[u].equity : u \in DOMAIN series})

\* The highest equity so far, the starting capital included.
PeakAt(series, t) == Greatest({One} \cup {series[u].equity : u \in 1..t})

Drawdown(series) ==
    [t \in DOMAIN series |-> Minus(Over(series[t].equity, PeakAt(series, t)), One)]

\* By day the equity of its last row, after the starting capital; a day that
\* starts from 0 has no return, and then no day has.
DailyReturns(series) ==
    LET last == SelectSeq([t \in DOMAIN series |-> t],
                          LAMBDA t : t = Len(series) \/ series[t + 1].day # series[t].day)
        ends == <<One>> \o [i \in DOMAIN last |-> series[last[i]].equity]
    IN  IF \E i \in DOMAIN last : Same(ends[i], Num(0)) THEN <<>>
        ELSE [i \in DOMAIN last |-> Minus(Over(ends[i + 1], ends[i]), One)]

\* mean / spread * sqrt(periods a year), squared with its sign.
Squared(mean, square, year) ==
    LET ratio == Times(Over(Times(mean, mean), square), Num(year))
    IN  IF Less(mean, Num(0)) THEN Negative(ratio) ELSE ratio

\* Spread is that of the sample: over one day less.
Sharpe(r, year) ==
    LET mean == Mean(r)
        squares == [d \in DOMAIN r |-> LET x == Minus(r[d], mean) IN Times(x, x)]
        spread == Over(Total(squares), Num(Len(r) - 1))
    IN  IF Len(r) < 2 \/ Same(Total(squares), Num(0)) THEN Undefined
        ELSE Squared(mean, spread, year)

Sortino(r, year) ==
    LET losses == [d \in DOMAIN r |-> IF Less(r[d], Num(0)) THEN Times(r[d], r[d]) ELSE Num(0)]
    IN  IF Len(r) < 2 \/ Same(Total(losses), Num(0)) THEN Undefined
        ELSE Squared(Mean(r), Mean(losses), year)

\* The close of the last of the candles the series has rows of, against the first's.
BuyAndHold(series, candles) ==
    LET held == SelectSeq(candles, LAMBDA c : \E t \in DOMAIN series : series[t].ts = c.ts)
    IN  IF held = <<>> THEN Undefined ELSE Minus(Over(held[Len(held)].close, held[1].close), One)

Share(values, Counted(_)) == Over(Num(Len(SelectSeq(values, Counted))), Num(Len(values)))

Stats(trades, series, candles, year) ==
    LET r == DailyReturns(series)
        returns == [i \in DOMAIN trades |-> trades[i].return]
        falls == {Negative(fall) : fall \in ToSet(Drawdown(series))}
        OfSeries(value) == IF series = <<>> THEN Undefined ELSE value
        OfTrades(value) == IF trades = <<>> THEN Undefined ELSE value
    IN  [total_return |-> OfSeries(Minus(series[Len(series)].equity, One)),
         max_drawdown |-> OfSeries(Greatest(falls)),
         sharpe |-> Sharpe(r, year), sortino |-> Sortino(r, year),
         num_trades |-> Len(trades),
         win_rate |-> OfTrades(Share(returns, LAMBDA x : Less(Num(0), x))),
         avg_trade_return |-> OfTrades(Mean(returns)),
         best_trade_return |-> OfTrades(Greatest(ToSet(returns))),
         worst_trade_return |-> OfTrades(Least(ToSet(returns))),
         exposure |-> OfSeries(Share(series, LAMBDA row : row.position # 0)),
         fees_paid |-> Total([i \in DOMAIN trades |-> trades[i].fees]),
         buy_and_hold_return |-> BuyAndHold(series, candles)]

-----------------------------------------------------------------------------
\* The statistics are of one run.  The maximum drawdown is the deepest fall from
\* any earlier level, the start included; the daily returns compound to the total
\* return; the ratios are defined exactly when a run has two days that differ, or
\* a losing one, and neither has another sign than the mean; whoever held the
\* asset with a capital of 1 has the buy and hold return (summary.py, stats).
StatisticsAgreeOf(trades, series, candles, year) ==
    LET s == Stats(trades, series, candles, year)
        r == DailyReturns(series)
        equity == <<One>> \o [t \in DOMAIN series |-> series[t].equity]
        falls == {Minus(One, Over(equity[e[2]], equity[e[1]])) :
                     e \in {x \in (DOMAIN equity) \X (DOMAIN equity) :
                               x[1] <= x[2] /\ ~Same(equity[x[1]], Num(0))}}
        compound == FoldLeft(LAMBDA capital, x : Times(capital, Plus(One, x)), One, r)
        bought == [i \in DOMAIN candles |->
                      [ts |-> candles[i].ts, day |-> candles[i].ts, position |-> 1,
                       equity |-> Over(candles[i].close, candles[1].close)]]
        Losing(x) == Less(x, Num(0))
    IN  /\ series # <<>> => Same(s.max_drawdown, Greatest(falls))
        /\ r # <<>> => Same(compound, Plus(One, s.total_return))
        /\ (s.sharpe # Undefined) <=> (Len(r) >= 2 /\ \E d \in DOMAIN r : ~Same(r[d], r[1]))
        /\ (s.sortino # Undefined) <=> (Len(r) >= 2 /\ \E d \in DOMAIN r : Losing(r[d]))
        /\ (s.sharpe # Undefined /\ s.sortino # Undefined) => (Losing(s.sharpe) = Losing(s.sortino))
        /\ candles # <<>> =>
               LET hold == Stats(<<>>, bought, candles, year)
               IN  Same(hold.total_return, hold.buy_and_hold_return)
=============================================================================
