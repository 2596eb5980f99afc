------------------------------ MODULE Signals ------------------------------
(***************************************************************************)
(* From a model's predictions to the signal the engine trades on           *)
(* (candlestack.signals and cli/post_processing.py).  Each time the model  *)
(* has predicted one more candle the command is run again on the files:    *)
(* `align` puts the predictions next to the candles, calibration and `ema` *)
(* prepare them once, and each limit makes one signal by the rule,         *)
(* `long_only`, `confirm` and `min_hold`, in that order.                   *)
(*                                                                         *)
(* Numbers are exact fractions <<numerator, denominator>>, so the rounding *)
(* of float64 is left out.  A z-score stands as its signed square (the     *)
(* limits of such a run are squares too), which keeps it a fraction.  Rows *)
(* count from 1 here and from 0 in the code.                               *)
(***************************************************************************)
EXTENDS Integers, FiniteSets, SequencesExt, Fractions

CONSTANTS
    Args,           \* the options of the command that are given
    Tried(_),       \* how many predictions follow these options: a bound
    Values(_),      \* the predictions tried with these options
    CandleSets,     \* the candles there may be: sets of times
    Unset           \* an option that is not given, a value there is not yet

\* What the parser lets through: a choice is one of its words, a count is not below
\* its least value.
Counts(least) == {Unset} \cup {n \in Nat : n >= least}
ASSUME ArgsAssumption ==
    \A a \in Args :
        /\ a.rule \in {"threshold", "hysteresis", "kmeans"}
        /\ a.calibrate \in {Unset, "rank", "zscore"}
        /\ a.calibration_window \in Counts(2)
        /\ a.ema \in Counts(1) /\ a.confirm \in Counts(1) /\ a.min_hold \in Counts(1)
        /\ a.limits \in {Unset} \cup SUBSET Nat /\ a.exit \in Counts(0)
        /\ a.k \in {Unset} \cup 2..5 /\ a.kmeans_window \in Counts(2) /\ a.refit_every \in Counts(1)
ASSUME UnsetAssumption ==
    Unset \notin Int /\ Unset \notin Int \X Int /\ Unset \notin {"rank", "zscore"}
ASSUME TriedAssumption == \A a \in Args : Tried(a) \in Nat /\ Values(a) \subseteq Int
ASSUME CandlesAreTimes == \A c \in CandleSets : c \subseteq Int /\ IsFiniteSet(c)

VARIABLES
    args,           \* the options of the command
    verdict,          \* given, ready (the options make sense) or usage error
    candles,        \* the times that have a candle
    own,            \* the model's predictions, by time
    frame,          \* what align gave: rows of a time and a prediction
    signal          \* by limit, the signal of each row

signalsVars == <<args, verdict, candles, own, frame, signal>>

-----------------------------------------------------------------------------
\* Comparisons with a limit

AtLeast(x, limit) == x[1] > 0 /\ ~Less(x, limit)     \* x > 0 and x >= limit
AtMost(x, limit) == AtLeast(Negative(x), limit)      \* x < 0 and x <= -limit

-----------------------------------------------------------------------------
\* signals/alignment.py

Landed(times, predicted) == (DOMAIN predicted) \cap times

\* A wrong form: the rows go on to the last candle there is.
RowsToTheEnd(times, predicted) ==
    LET inside == {t \in times : \E a \in Landed(times, predicted) : a <= t}
    IN  [i \in 1..Cardinality(inside) |->
            CHOOSE t \in inside : Cardinality({s \in inside : s < t}) = i - 1]

\* The candles from the first to the last landed prediction, in order.
Rows(times, predicted) ==
    LET landed == Landed(times, predicted)
        inside == {t \in times : \E a, b \in landed : a <= t /\ t <= b}
    IN  [i \in 1..Cardinality(inside) |->
            CHOOSE t \in inside : Cardinality({s \in inside : s < t}) = i - 1]

Gaps(times, predicted) == ToSet(Rows(times, predicted)) \ DOMAIN predicted

AlignRefuses(times, predicted, strict) ==
    \/ Landed(times, predicted) = {}
    \/ (strict /\ DOMAIN predicted \ times # {})
    \/ (strict /\ Gaps(times, predicted) # {})

\* A row without a prediction of its own repeats the one before it.
Align(times, predicted) ==
    LET dates == Rows(times, predicted)
        filled[t \in 0..Len(dates)] ==
            IF t = 0 THEN Unset
            ELSE IF dates[t] \in DOMAIN predicted THEN predicted[dates[t]]
            ELSE filled[t - 1]
    IN  [t \in 1..Len(dates) |-> [ts |-> dates[t], prediction |-> filled[t]]]

-----------------------------------------------------------------------------
\* signals/calibration.py

\* The rows of the window that ends at t, the row itself included.
Window(t, window) == (t - window + 1)..t

\* 2r - 1 with r = (below + equal / 2) / (window - 1), as one division.
RankAt(p, t, window) ==
    LET others == Window(t, window) \ {t}
        below == {s \in others : Less(p[s], p[t])}
        equal == {s \in others : Same(p[s], p[t])}
    IN  <<2 * Cardinality(below) + Cardinality(equal) - (window - 1), window - 1>>

Rank(p, window) ==
    [t \in 1..Len(p) |-> IF t < window THEN Num(0) ELSE RankAt(p, t, window)]

\* The signed square of (p - mean) / std with the sample std: for whole
\* predictions, (w p - S)^2 (w - 1) / (w (w Q - S^2)) with S the sum and Q the
\* sum of the squares of the window.
SumOf(x) ==
    LET sum[i \in 0..Len(x)] == IF i = 0 THEN 0 ELSE sum[i - 1] + x[i]
    IN  sum[Len(x)]

ZscoreAt(p, t, window) ==
    LET value == [i \in 1..window |-> p[t - window + i][1]]
        total == SumOf(value)
        squares == SumOf([i \in 1..window |-> value[i] * value[i]])
        spread == window * squares - total * total
        away == window * p[t][1] - total
        square == away * away * (window - 1)
    IN  IF spread = 0 THEN Num(0)
        ELSE <<IF away < 0 THEN -square ELSE square, window * spread>>

Zscore(p, window) ==
    [t \in 1..Len(p) |-> IF t < window THEN Num(0) ELSE ZscoreAt(p, t, window)]

-----------------------------------------------------------------------------
\* signals/filters.py, signals/rules.py, signals/holding.py

\* e[t] = alpha p[t] + (1 - alpha) e[t-1] with alpha = 2 / (span + 1).
Averaged(average, value, span) ==
    IF average = Unset THEN value
    ELSE Plus(<<2 * value[1], (span + 1) * value[2]>>,
              <<(span - 1) * average[1], (span + 1) * average[2]>>)

Ema(p, span) ==
    LET average[t \in 0..Len(p)] ==
            IF t = 0 THEN Unset ELSE Averaged(average[t - 1], p[t], span)
    IN  [t \in 1..Len(p) |-> average[t]]

Threshold(p, limit) ==
    [t \in 1..Len(p) |-> CASE AtLeast(p[t], Num(limit)) -> 1
                           [] AtMost(p[t], Num(limit)) -> -1
                           [] OTHER -> 0]

\* The side the position is on keeps it at the exit limit, the other needs enter.
Stepped(state, value, enter, exit) ==
    CASE AtLeast(value, Num(IF state > 0 THEN exit ELSE enter)) -> 1
      [] AtMost(value, Num(IF state < 0 THEN exit ELSE enter)) -> -1
      [] OTHER -> 0

Hysteresis(p, enter, exit) ==
    LET state[t \in 0..Len(p)] ==
            IF t = 0 THEN 0 ELSE Stepped(state[t - 1], p[t], enter, exit)
    IN  [t \in 1..Len(p) |-> state[t]]

LongOnly(s) == [t \in 1..Len(s) |-> IF s[t] > 0 THEN s[t] ELSE 0]

\* One row of confirm: the value counts once it has held for the candles, and
\* the first row counts at once.
Confirmed(before, value, n) ==
    LET held == IF value = before.previous THEN before.held + 1 ELSE 1
    IN  [held |-> held, previous |-> value,
         counted |-> IF before.counted = Unset \/ held >= n THEN value ELSE before.counted]

Confirm(s, n) ==
    LET row[t \in 0..Len(s)] ==
            IF t = 0 THEN [held |-> 0, previous |-> Unset, counted |-> Unset]
            ELSE Confirmed(row[t - 1], s[t], n)
    IN  [t \in 1..Len(s) |-> row[t].counted]

\* A wrong form: the hold ends a row early.
KeptShort(before, t, value, n) ==
    LET kept == t < before.until
        starts == ~kept /\ t > 1 /\ value # 0 /\ value # before.held
    IN  [until |-> IF starts THEN t + n - 1 ELSE before.until,
         held |-> IF kept THEN before.held ELSE value]

\* Row t of min_hold: `until` is the first row after the hold.
Kept(before, t, value, n) ==
    LET kept == t < before.until
        starts == ~kept /\ t > 1 /\ value # 0 /\ value # before.held
    IN  [until |-> IF starts THEN t + n ELSE before.until,
         held |-> IF kept THEN before.held ELSE value]

MinHold(s, n) ==
    LET row[t \in 0..Len(s)] ==
            IF t = 0 THEN [until |-> 1, held |-> 0] ELSE Kept(row[t - 1], t, s[t], n)
    IN  [t \in 1..Len(s) |-> row[t].held]

-----------------------------------------------------------------------------
\* signals/clusters.py

\* The index of the first sorted value strictly nearer to high than to low, or
\* one past the end.
FirstNearer(ordered, low, high) ==
    LET n == Len(ordered)
        nearer(i) == Less(Distance(ordered[i], high), Distance(ordered[i], low))
        search[from \in 1..n + 1, to \in 1..n + 1] ==
            IF from >= to THEN from
            ELSE LET middle == (from + to) \div 2
                 IN  IF nearer(middle) THEN search[from, middle] ELSE search[middle + 1, to]
    IN  search[1, n + 1]

\* Where each group of the sorted values starts: group i is edges[i]..edges[i+1]-1.
Edges(ordered, centers) ==
    LET n == Len(ordered)
        Cut(cuts, i) ==
            <<Min({FirstNearer(ordered, centers[i], centers[i + 1]), Head(cuts)})>> \o cuts
    IN  <<1>> \o FoldLeft(Cut, <<n + 1>>, [i \in 1..Len(centers) - 1 |-> Len(centers) - i])

MeanOf(ordered, first, last) ==
    LET total == FoldLeft(Plus, Num(0), SubSeq(ordered, first, last))
    IN  <<total[1], total[2] * (last - first + 1)>>

Moved(ordered, centers) ==
    LET edges == Edges(ordered, centers)
        moved == [i \in 1..Len(centers) |->
                     IF edges[i] < edges[i + 1]
                       THEN MeanOf(ordered, edges[i], edges[i + 1] - 1)
                       ELSE centers[i]]
    IN  SortSeq(moved, Less)

\* Lloyd's rounds from the quantiles; `Rounds` of them are enough for the groups
\* of a window as small as these to stop changing.
Rounds == 6
Quantiles(ordered, k) ==
    [i \in 1..k |-> ordered[((2 * i - 1) * Len(ordered)) \div (2 * k) + 1]]
Fit(values, k) ==
    LET ordered == SortSeq(values, Less)
    IN  IF Same(Head(ordered), Last(ordered)) THEN <<>>
        ELSE FoldLeft(LAMBDA centers, round : Moved(ordered, centers),
                      Quantiles(ordered, k), [round \in 1..Rounds |-> round])

\* The nearest center, the lower one on a tie.
Nearest(value, centers) ==
    CHOOSE i \in 1..Len(centers) :
        \A j \in 1..Len(centers) :
            /\ ~Less(Distance(value, centers[j]), Distance(value, centers[i]))
            /\ j < i => Less(Distance(value, centers[i]), Distance(value, centers[j]))

Label(group, k) == IF group = 1 THEN -1 ELSE IF group = k THEN 1 ELSE 0

\* The row before which the fit of row t (t > window) was made.
RefitRow(t, window, every) == t - ((t - 1 - window) % every)

Kmeans(p, k, window, every) ==
    [t \in 1..Len(p) |->
        IF t <= window THEN 0
        ELSE LET f == RefitRow(t, window, every)
                 centers == Fit(SubSeq(p, f - window, f - 1), k)
             IN  IF centers = <<>> THEN 0 ELSE Label(Nearest(p[t], centers), k)]

-----------------------------------------------------------------------------
\* cli/post_processing.py

Given(option) == option # Unset

\* The options a rule has, and those it cannot do without.
RuleOptions(a) ==
    [threshold  |-> {"limits"},
     hysteresis |-> {"limits", "exit"},
     kmeans     |-> {"k", "kmeans_window", "refit_every"}][a.rule]
RuleNeeds(a) == RuleOptions(a) \ {"limits"}

\* The limits of the rule: --threshold, or each of --thresholds; none with kmeans.
Limits(a) == IF a.rule = "kmeans" THEN {Unset}
             ELSE IF Given(a.limits) THEN a.limits
             ELSE {0}

\* check_post_processing: what does not stop at parser.error.
Accepted(a) ==
    /\ Given(a.calibrate) <=> Given(a.calibration_window)
    /\ \A option \in {"limits", "exit", "k", "kmeans_window", "refit_every"} :
           Given(a[option]) => option \in RuleOptions(a)
    /\ \A option \in RuleNeeds(a) : Given(a[option])
    /\ a.rule = "hysteresis" => \A enter \in Limits(a) : a.exit <= enter
    /\ a.rule = "kmeans" => a.kmeans_window >= 2 * a.k

\* What the steps themselves refuse, given one of the limits.
CalibrationRefuses(a) == Given(a.calibrate) /\ ~Given(a.calibration_window)
RuleRefuses(a, limit) ==
    IF a.rule = "kmeans"
      THEN \/ ~(Given(a.k) /\ Given(a.kmeans_window) /\ Given(a.refit_every))
           \/ ~(a.k \in 2..5 /\ a.kmeans_window >= 2 * a.k /\ a.refit_every >= 1)
      ELSE \/ ~Given(limit)
           \/ limit < 0
           \/ a.rule = "hysteresis" /\ (~Given(a.exit) \/ ~(0 <= a.exit /\ a.exit <= limit))

\* A step whose option is not given is left out.
IfGiven(option, Apply(_, _), s) == IF Given(option) THEN Apply(s, option) ELSE s

Prepare(p, a) ==
    LET calibrated == CASE a.calibrate = "rank"   -> Rank(p, a.calibration_window)
                        [] a.calibrate = "zscore" -> Zscore(p, a.calibration_window)
                        [] OTHER                  -> p
    IN  IfGiven(a.ema, Ema, calibrated)

Rule(p, a, limit) ==
    CASE a.rule = "threshold"  -> Threshold(p, limit)
      [] a.rule = "hysteresis" -> Hysteresis(p, limit, a.exit)
      [] a.rule = "kmeans"     -> Kmeans(p, a.k, a.kmeans_window, a.refit_every)

Sided(p, a, limit) == LET s == Rule(p, a, limit) IN IF a.long_only THEN LongOnly(s) ELSE s
Settled(p, a, limit) == IfGiven(a.confirm, Confirm, Sided(p, a, limit))
Decided(p, a, limit) == IfGiven(a.min_hold, MinHold, Settled(p, a, limit))

Predictions(rows) == [t \in 1..Len(rows) |-> rows[t].prediction]

\* run-all: the predictions are prepared once, and each limit decides on them.
Signals(rows, a) ==
    LET prepared == Prepare(Predictions(rows), a)
    IN  [limit \in Limits(a) |-> Decided(prepared, a, limit)]

-----------------------------------------------------------------------------
SignalsInit ==
    /\ args \in Args
    /\ candles \in CandleSets
    /\ verdict = "given"
    /\ own = <<>> /\ frame = <<>> /\ signal = <<>>

\* The options are checked before any file is read.
Check ==
    /\ verdict = "given"
    /\ verdict' = IF Accepted(args) THEN "ready" ELSE "usage"
    /\ UNCHANGED <<args, candles, own, frame, signal>>

\* The model has predicted one more time, and the command runs on the files.
Predict(t, value) ==
    LET predicted == [s \in DOMAIN own \cup {t} |-> IF s = t THEN Num(value) ELSE own[s]]
    IN  /\ verdict = "ready"
        /\ t <= Tried(args)
        /\ \A s \in DOMAIN own : s < t
        /\ own' = predicted
        /\ IF AlignRefuses(candles, predicted, ~args.allow_gaps)
             THEN frame' = <<>> /\ signal' = <<>>
             ELSE /\ frame' = Align(candles, predicted)
                  /\ signal' = Signals(frame', args)
        /\ UNCHANGED <<args, verdict, candles>>

SignalsNext ==
    \/ Check
    \/ \E t \in 1..Tried(args), value \in Values(args) : Predict(t, value)

SignalsSpec == SignalsInit /\ [][SignalsNext]_signalsVars

-----------------------------------------------------------------------------
\* Correctness.

\* What was decided stays decided: with one more prediction every limit's
\* signal only grows, so no row of any step looks at a later one (signals/*.py:
\* "a value at row t comes from the values up to t only").
NoLookAhead ==
    [][/\ args.allow_gaps /\ signal # <<>> => signal' # <<>>
       /\ signal' # <<>> =>
              \A limit \in DOMAIN signal : IsPrefix(signal[limit], signal'[limit])]_signalsVars

\* Long and short are one rule: predictions turned over give the signal turned
\* over, through calibration, ema, the rule, confirm and min_hold.  (kmeans is
\* left out: its ties go to the lower center; so is long_only.)
Mirrored ==
    args.rule # "kmeans" /\ ~args.long_only =>
        LET turned == [t \in DOMAIN frame |->
                          [frame[t] EXCEPT !.prediction = Negative(@)]]
        IN  frame # <<>> =>
                \A limit \in Limits(args) :
                    Signals(turned, args)[limit] =
                        [t \in DOMAIN frame |-> -signal[limit][t]]

\* A side is on exactly when some row reached its entry limit and no row since
\* then fell below its exit limit (filters.py, hysteresis; the threshold rule is
\* the case of equal limits).
SideIsOn(p, t, enter, exit) ==
    \E s \in 1..t : /\ AtLeast(p[s], Num(enter))
                    /\ \A u \in s..t : AtLeast(p[u], Num(exit))
RuleHolds(p, s, limit) ==
    LET turned == [t \in DOMAIN p |-> Negative(p[t])]
        exit == IF args.rule = "hysteresis" THEN args.exit ELSE limit
    IN  args.rule # "kmeans" =>
            \A t \in DOMAIN p :
                /\ (s[t] = 1) <=> SideIsOn(p, t, limit, exit)
                /\ (s[t] = -1) <=> SideIsOn(turned, t, limit, exit)

\* A confirmed row shows the value that last held for enough rows in a row, and
\* until one has, the first row's (filters.py, confirm).
ConfirmWaits(s, settled, n) ==
    LET held(t) == t = 1 \/ (t >= n /\ \A u \in (t - n + 1)..t : s[u] = s[t])
    IN  Given(n) => \A t \in DOMAIN s : settled[t] = s[Max({u \in 1..t : held(u)})]

\* A position entered or turned after the first row is kept for the candles
\* asked for, and a row differs from its input only inside such a hold
\* (holding.py, min_hold).
HoldLasts(s, out, n) ==
    LET changed(t) == t > 1 /\ out[t] # 0 /\ out[t] # out[t - 1]
    IN  Given(n) =>
            /\ \A t \in DOMAIN out : changed(t) =>
                   \A u \in t..Min({t + n - 1, Len(out)}) : out[u] = out[t]
            /\ \A u \in DOMAIN out : out[u] # s[u] =>
                   \E t \in (u - n + 1)..(u - 1) : t \in DOMAIN out /\ changed(t)

\* Every row carries the latest prediction that has a candle, and the rows are
\* all the candles from the first such prediction to the last; strict mode lets
\* through only rows that match the predictions one to one (alignment.py, align).
RowsRepeatTheLatest ==
    LET landed == Landed(candles, own)
        times == {frame[t].ts : t \in DOMAIN frame}
    IN  frame # <<>> =>
            /\ times = {t \in candles : Min(landed) <= t /\ t <= Max(landed)}
            /\ \A t \in 1..Len(frame) - 1 : frame[t].ts < frame[t + 1].ts
            /\ \A t \in DOMAIN frame :
                   frame[t].prediction = own[Max({s \in landed : s <= frame[t].ts})]
            /\ ~args.allow_gaps => times = DOMAIN own

\* In the fit of every row the groups found by bisection are those of the
\* nearest center, the rounds have come to rest, and the centers are sorted
\* (clusters.py, _edges and _fit).
GroupsAre(ordered, centers, k) ==
    LET edges == Edges(ordered, centers)
    IN  centers # <<>> =>
            /\ \A i \in 1..k - 1 : ~Less(centers[i + 1], centers[i])
            /\ \A i \in 1..k : \A j \in edges[i]..edges[i + 1] - 1 : Nearest(ordered[j], centers) = i
            /\ Edges(ordered, Moved(ordered, centers)) = edges
GroupsAreNearest(p) ==
    LET w == args.kmeans_window
        Past(f) == SubSeq(p, f - w, f - 1)
    IN  args.rule = "kmeans" =>
            \A f \in {RefitRow(t, w, args.refit_every) : t \in {t \in DOMAIN p : t > w}} :
                GroupsAre(SortSeq(Past(f), Less), Fit(Past(f), args.k), args.k)

\* Options the check lets through are never refused by a step: what it does not
\* stop at parser.error can run (post_processing.py, check_post_processing).
AcceptedRuns ==
    verdict = "ready" =>
        ~CalibrationRefuses(args) /\ \A limit \in Limits(args) : ~RuleRefuses(args, limit)

\* From the prediction to the signal each step is what it says: the rows carry the
\* latest prediction, every limit's rule, confirmation and hold do what they promise,
\* long and short are one rule, and what the check accepts is refused by no step
\* (signals/, post_processing.py).
StepsKeepTheirPromise ==
    LET p == Prepare(Predictions(frame), args)
    IN  /\ AcceptedRuns /\ RowsRepeatTheLatest /\ Mirrored
        /\ frame # <<>> =>
               \A limit \in Limits(args) :
                  /\ RuleHolds(p, Rule(p, args, limit), limit)
                  /\ ConfirmWaits(Sided(p, args, limit), Settled(p, args, limit), args.confirm)
                  /\ HoldLasts(Settled(p, args, limit), signal[limit], args.min_hold)

\* In every fit the groups are the nearest and at rest.
FitsAreAtRest == frame # <<>> => GroupsAreNearest(Prepare(Predictions(frame), args))
=============================================================================
