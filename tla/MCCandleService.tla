-------------------------- MODULE MCCandleService --------------------------
(* Days of six base candles, months of two days and years of four; and the     *)
(* chart, whose pages are of the candles a service like it answers with, on    *)
(* its own: a behavior is of callers of the service or of a chart.             *)
EXTENDS CandleService, CandleHistory

VARIABLE charted     \* whether it is a chart

Symmetry == Permutations(Callers)

\* A pair that trades around the clock since 2, with nothing in two candles.
Pair == [sessions |-> Absent, delay |-> 0, daily |-> TRUE,
         traded |-> (2..30) \ {8, 9}, opens |-> 10]

\* A stock: a session on the first day, none on the second, a short one on the
\* third; bars before the open and a session without a trade in its last candle.
Stock == [sessions |-> <<[open |-> 1, close |-> 5], [open |-> 13, close |-> 16],
                         [open |-> 19, close |-> 23]>>,
          delay |-> 1, daily |-> FALSE,
          traded |-> {1, 2, 3, 12, 13, 15, 19, 20}, opens |-> 13]

MCMarkets == {Pair, Stock}

Period(step, start, end) == [last |-> FALSE, step |-> step, start |-> start, end |-> end, limit |-> 0]
LastOf(step, end, limit) == [last |-> TRUE, step |-> step, start |-> 0, end |-> end, limit |-> limit]

MCAsks(m) ==
    IF m = Pair
      THEN {Period(3, 4, 13), Period(6, 0, 12), Period(1, 2, 12), LastOf(3, Absent, 3), LastOf(1, 13, 2)}
      ELSE {Period(3, 1, 15), Period(6, 1, 14), Period(1, 1, 16), LastOf(3, Absent, 2), LastOf(1, 16, 4)}

-----------------------------------------------------------------------------
\* A market that always trades, one with a pause between sessions, one with outages.
MCHistories == {0..11, (0..11) \ {2, 3, 4, 5}, {1, 2, 3, 8, 9, 10}}

MCInit ==
    /\ ServiceInit /\ ChartInit /\ charted \in BOOLEAN
    /\ IF charted THEN market = Pair ELSE traded = 0..11 /\ latest.fetching /\ latest.page = Null
MCNext ==
    \/ ~charted /\ ServiceNext /\ UNCHANGED <<chart, charted>>
    \/ charted /\ ChartNext /\ UNCHANGED <<service, charted>>
MCSpec == MCInit /\ [][MCNext]_<<service, chart, charted>>
=============================================================================
