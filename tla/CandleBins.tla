----------------------------- MODULE CandleBins -----------------------------
(***************************************************************************)
(* The bins candles are made of, and the chunks they are fetched in         *)
(* (candles.py, sessions.py, plan_periods of sources/base.py, and the       *)
(* calendar helpers of service.py).  Time is counted in base candles (1m);  *)
(* a timeframe is its length.  `sessions` is Absent for a market with fixed *)
(* bins (crypto), else a sequence of [open, close] in order (stocks).       *)
(***************************************************************************)
EXTENDS Integers, FiniteSets, SequencesExt

CONSTANTS
    Absent,         \* no sessions; no value
    Timeframes,     \* the lengths of candles there are
    Day,            \* the length of a day, the longest timeframe
    Month, Year,    \* the lengths of a month and a year
    MaxGapRanges    \* the most gaps that are listed

\* A day is of whole candles of each timeframe, months and years are of whole days.
ASSUME BinsAssumption ==
    /\ {1, Day} \subseteq Timeframes /\ Timeframes \subseteq Nat /\ IsFiniteSet(Timeframes)
    /\ \A step \in Timeframes : step \in 1..Day /\ Day % step = 0
    /\ Month \in Nat \ {0} /\ Month % Day = 0 /\ Year \in Nat \ {0} /\ Year % Day = 0
    /\ Absent \notin Int \cup [open : Nat, close : Nat] /\ MaxGapRanges \in Nat

Least(a, b) == IF a < b THEN a ELSE b
Most(a, b) == IF a < b THEN b ELSE a
CeilDiv(a, b) == -((-a) \div b)

-----------------------------------------------------------------------------
\* sessions.py

\* In the order of their dates: they open in turn and close on the day they open.
IsCalendar(sessions) ==
    /\ sessions \in Seq([open : Nat, close : Nat])
    /\ \A i \in DOMAIN sessions :
           /\ sessions[i].open < sessions[i].close
           /\ sessions[i].close <= (sessions[i].open \div Day) * Day + Day
           /\ \A j \in DOMAIN sessions : i < j => sessions[i].close <= sessions[j].open

SessionsBetween(sessions, start, end) ==
    {s \in ToSet(sessions) : s.close > start /\ s.open < end}

\* Each bin of a session: the last one ends at the close.
SessionBins(session, step) ==
    {[opens |-> o, closes |-> Least(o + step, session.close)] :
        o \in {t \in session.open..session.close - 1 : (t - session.open) % step = 0}}

\* The session that began last at or before a time, if any.
Begun(sessions, t) ==
    LET begun == {i \in DOMAIN sessions : sessions[i].open <= t}
    IN  IF begun = {} THEN Absent ELSE sessions[Max(begun)]

-----------------------------------------------------------------------------
\* candles.py

\* Opens of the bins in [start, end) that are closed by `now`.
ExpectedBins(start, end, step, sessions, now) ==
    IF sessions = Absent
      THEN {t \in start..Least(end, now - step + 1) - 1 : t % step = 0}
      ELSE {b.opens : b \in {c \in UNION {SessionBins(s, step) :
                                            s \in SessionsBetween(sessions, start, end)} :
                                start <= c.opens /\ c.opens < end /\ c.closes <= now}}

BinEnd(opens, step, sessions) ==
    LET s == IF sessions = Absent THEN Absent ELSE Begun(sessions, opens)
    IN  IF s = Absent THEN opens + step
        ELSE IF opens < s.close THEN Least(opens + step, s.close)
        ELSE opens + step

\* A frame is a function from open times to what the candle is made of, the
\* base candles in it.
Restricted(frame, times) == [t \in times |-> frame[t]]
SliceRange(frame, start, end) ==
    Restricted(frame, {t \in DOMAIN frame : start <= t /\ t < end})

\* The candle of a session ends with the session at the latest, one before the
\* first session when its time is over.
ClosedOnly(frame, step, now, sessions) ==
    LET begun(t) == IF sessions = Absent THEN Absent ELSE Begun(sessions, t)
        ends(t) == IF begun(t) = Absent THEN t + step ELSE Least(t + step, begun(t).close)
    IN  Restricted(frame, {t \in DOMAIN frame : ends(t) <= now})

\* Candles in session bins from shorter ones; those outside sessions are dropped.
ResampleSessions(frame, step, sessions) ==
    LET inside == {t \in DOMAIN frame :
                      Begun(sessions, t) # Absent /\ t < Begun(sessions, t).close}
        bin(t) == LET opened == Begun(sessions, t).open
                  IN  opened + ((t - opened) \div step) * step
    IN  [o \in {bin(t) : t \in inside} |->
            UNION {frame[t] : t \in {u \in inside : bin(u) = o}}]

\* Expected bins without a candle: neighbours in `expected` merge into a range
\* that ends where its last bin ends, and the first ranges are listed.
FindGaps(present, expected, step, sessions) ==
    LET missing == expected \ present
        after(t) == {u \in expected : u > t}
        before(t) == {u \in expected : u < t}
        starts == {t \in missing : before(t) = {} \/ Max(before(t)) \notin missing}
        lastOf(t) == CHOOSE u \in missing :
                        /\ t <= u
                        /\ \A v \in expected : t <= v /\ v <= u => v \in missing
                        /\ after(u) = {} \/ Min(after(u)) \notin missing
        listed == {t \in starts : Cardinality({u \in starts : u < t}) < MaxGapRanges}
    IN  [ranges |-> {<<t, BinEnd(lastOf(t), step, sessions)>> : t \in listed},
         total |-> Cardinality(missing)]

\* The number of a session's bins that open in [start, end).
SessionCount(session, step, start, end) ==
    LET total == CeilDiv(session.close - session.open, step)
        first == Most(0, CeilDiv(start - session.open, step))
        last == Least(total, CeilDiv(end - session.open, step))
    IN  Most(0, last - first)

\* A session that is not between them adds none.
CandleCount(start, end, step, sessions) ==
    IF end <= start THEN 0
    ELSE IF sessions = Absent THEN CeilDiv(end, step) - CeilDiv(start, step)
    ELSE FoldLeft(LAMBDA sum, s : sum + SessionCount(s, step, start, end), 0, sessions)

\* The open of the earliest of the last `count` bins that open before `end` and
\* at or after `lower` and are closed by `now`: session after session backwards.
FirstOfLast(end, now, step, count, sessions, lower) ==
    IF sessions = Absent
      THEN LET newest == (Least(end - 1, now - step) \div step) * step
           IN  IF newest < lower THEN Absent ELSE Most(lower, newest - (count - 1) * step)
      ELSE LET opens(s) == {b.opens : b \in {c \in SessionBins(s, step) :
                               lower <= c.opens /\ c.opens < end /\ c.closes <= now}}
               Back(found, s) ==
                   IF found.left = 0 \/ opens(s) = {} THEN found
                   ELSE IF Cardinality(opens(s)) >= found.left
                   THEN [left |-> 0,
                         first |-> CHOOSE t \in opens(s) :
                             Cardinality({u \in opens(s) : u >= t}) = found.left]
                   ELSE [left |-> found.left - Cardinality(opens(s)), first |-> Min(opens(s))]
           IN  FoldRight(LAMBDA s, found : Back(found, s), sessions,
                         [left |-> count, first |-> Absent]).first

\* The latest end for which [start, end) has at most `maximum` bins.
LatestEnd(start, end, step, maximum, sessions) ==
    IF sessions = Absent THEN Least(end, (CeilDiv(start, step) + maximum) * step)
    ELSE LET Past(found, s) ==
                 LET n == SessionCount(s, step, start, end)
                     first == Most(0, CeilDiv(start - s.open, step))
                 IN  IF found.end # Absent THEN found
                     ELSE IF found.left < n
                     THEN [left |-> 0, end |-> s.open + (first + found.left) * step]
                     ELSE [left |-> found.left - n, end |-> Absent]
             found == FoldLeft(Past, [left |-> maximum, end |-> Absent], sessions)
         IN  IF found.end = Absent THEN end ELSE found.end

\* What a period with too many candles is told: the smallest longer timeframe
\* that fits, if any, and the latest end that fits.
Suggest(start, end, step, maximum, sessions) ==
    LET fitting == {longer \in Timeframes :
                       longer > step /\ CandleCount(start, end, longer, sessions) <= maximum}
    IN  [timeframe |-> IF fitting = {} THEN Absent ELSE Min(fitting),
         end |-> LatestEnd(start, end, step, maximum, sessions)]

-----------------------------------------------------------------------------
\* service.py

DailyClose(now, sessions) ==
    IF sessions = Absent THEN (now \div Day) * Day
    ELSE LET ended == {i \in DOMAIN sessions : sessions[i].close <= now}
         IN  IF ended = {} THEN Absent ELSE sessions[Max(ended)].close

\* Past the end of the calendar the next session is taken to close this much later.
NextCloseFallback == 4 * Day
NextClose(closedAt, sessions) ==
    IF sessions = Absent THEN closedAt + Day
    ELSE LET following == {i \in DOMAIN sessions : sessions[i].close > closedAt}
         IN  IF following = {} THEN closedAt + NextCloseFallback
             ELSE sessions[Min(following)].close

NewestMinute(now, sessions) ==
    LET latest == IF sessions = Absent THEN Absent ELSE Begun(sessions, now - 1)
    IN  (IF latest = Absent THEN now ELSE Least(now, latest.close)) - 1

BinOpen(t, step, sessions) ==
    IF sessions = Absent THEN (t \div step) * step
    ELSE LET s == Begun(sessions, t)
         IN  IF s = Absent THEN t
             ELSE IF t >= s.close THEN t
             ELSE s.open + ((t - s.open) \div step) * step

-----------------------------------------------------------------------------
\* sources/base.py

\* The month or year of a time (they are all of one length here).
SpanOf(t, yearly) ==
    LET length == IF yearly THEN Year ELSE Month
        start == (t \div length) * length
    IN  [start |-> start, next |-> start + length]

\* The chunks that cover [start, end) at `now`: closed spans, the part of the
\* current span before today (by day, or in one), and today up to `now`.
PlanPeriods(start, end, now, yearly, daily) ==
    LET today == (now \div Day) * Day
        current == SpanOf(today, yearly).start
        spans == {SpanOf(t, yearly) : t \in SpanOf(start, yearly).start..Least(end, current) - 1}
        days == {d \in Most((start \div Day) * Day, current)..Least(end, today) - 1 : d % Day = 0}
        before ==
            IF ~(start < today /\ end > current) THEN {}
            ELSE IF daily
            THEN {[kind |-> "current", start |-> d, end |-> d + Day,
                   label |-> <<"day", d>>] : d \in days}
            ELSE IF current < today
            THEN {[kind |-> "current", start |-> current, end |-> today,
                   label |-> <<"days", current, today>>]}
            ELSE {}
    IN  {[kind |-> "closed", start |-> s.start, end |-> s.next,
          label |-> <<"span", s.start>>] : s \in spans}
        \cup before
        \cup (IF end > today
                THEN {[kind |-> "live", start |-> today, end |-> now,
                       label |-> <<"live", today>>]}
                ELSE {})
=============================================================================
