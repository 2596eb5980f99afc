--------------------------- MODULE CandleService ---------------------------
(***************************************************************************)
(* Candle requests of `DataService` (service.py, with the candles handler   *)
(* of api.py): a request looks up what it needs, is checked, reads its      *)
(* chunks from the cache or the source, and assembles its candle set.       *)
(* Every step that awaits is an action of its own, so the clock moves and   *)
(* chunks are fetched, expire and are lost between any two of them.         *)
(*                                                                          *)
(* A candle is the set of base candles in it.  The single flight of one     *)
(* chunk is SingleFlight; here a chunk is read or fetched and stored in one *)
(* step.  A chunk fetched by one request may answer another that planned    *)
(* at an earlier or a later time.                                           *)
(***************************************************************************)
EXTENDS CandleBins

CONSTANTS
    Callers,        \* requests that may run at once
    Markets,        \* the markets, one of which this is
    Asks(_),        \* what may be asked for in a market
    CandlesMax,     \* the most candles of a request
    LiveTtl,        \* how long the live chunk is cached
    ClockMax        \* bound: the last time that is looked at

ASSUME CandleServiceAssumption ==
    /\ CandlesMax \in Nat \ {0} /\ LiveTtl \in Nat /\ ClockMax \in Nat
    /\ \A m \in Markets :
           /\ m.delay \in Nat /\ m.opens \in 0..ClockMax /\ m.traded \subseteq Nat /\ m.daily \in BOOLEAN
           /\ m.sessions # Absent => IsCalendar(m.sessions)
           /\ \A ask \in Asks(m) :
                  ask \in [last : BOOLEAN, step : Timeframes, start : Int, limit : Nat,
                          end : Int \cup {Absent}]

VARIABLES
    market,         \* the market: sessions, delay, daily, traded, opens
    clock,          \* now
    cache,          \* chunks by <<base timeframe, label>>
    request         \* what each caller's request knows

service == <<market, clock, cache, request>>

-----------------------------------------------------------------------------
\* The source

\* Stocks build intraday timeframes from the shortest one and 1d from day bars.
BaseTimeframe(step) ==
    IF market.sessions = Absent \/ step = Day THEN step ELSE Min(Timeframes)

\* A wrong form: planned up to now.
PeriodsToNow(base, start, end, now) ==
    PlanPeriods(start, end, now, market.sessions # Absent /\ base = Day, market.daily)

\* Chunks are planned as of `delay` ago; day bars come in yearly chunks.
Periods(base, start, end, now) ==
    PlanPeriods(start, end, now - market.delay,
                market.sessions # Absent /\ base = Day, market.daily)

\* The base candles that traded in a bin of the source.
Traded(opens, closes) == {t \in market.traded : opens <= t /\ t < closes}

\* The bins of the base timeframe that the source has a candle for, and that
\* it serves at this time.  A stock's 1m bars are those of the extended hours
\* too; its day bars are labelled with their session's open.
SourceBins(base) ==
    IF market.sessions = Absent \/ base # Day
      THEN {[opens |-> t, closes |-> t + base] : t \in {u \in 0..ClockMax : u % base = 0}}
      ELSE {[opens |-> s.open, closes |-> s.close] : s \in ToSet(market.sessions)}
Served(base, start, end) ==
    {b \in SourceBins(base) :
        /\ start <= b.opens /\ b.opens < end
        /\ b.closes <= Least(end, clock - market.delay)
        /\ Traded(b.opens, b.closes) # {}}

\* What fetch_period gives: the closed candles of the period.
Fetched(base, period) ==
    LET bins == Served(base, period.start, period.end)
        frame == [t \in {b.opens : b \in bins} |->
                     Traded(t, (CHOOSE b \in bins : b.opens = t).closes)]
    IN  ClosedOnly(IF market.sessions = Absent THEN frame
                   ELSE ResampleSessions(frame, base, market.sessions),
                   base, period.end, market.sessions)

\* The first candle of the instrument: the open of the session for a stock.
FirstTimestamp ==
    LET opens == IF market.sessions = Absent THEN market.traded
                 ELSE {s.open : s \in {x \in ToSet(market.sessions) : Traded(x.open, x.close) # {}}}
    IN  IF opens = {} THEN Absent ELSE Min(opens)

-----------------------------------------------------------------------------
\* A request

Asked(c) == request[c].ask
Base(c) == BaseTimeframe(Asked(c).step)
Idle == [at |-> "idle"]
Fails(c, why) == request' = [request EXCEPT ![c] = [@ EXCEPT !.at = "failed", !.why = why]]

\* The handler: no end means now, and a period must not be empty.
Ask(c, ask) ==
    LET end == IF ask.end = Absent THEN clock ELSE ask.end
    IN  /\ request[c] = Idle
        /\ ~ask.last => ask.start < end
        /\ request' = [request EXCEPT ![c] =
               [at |-> "asked", ask |-> [ask EXCEPT !.end = end], why |-> "",
                now |-> Absent, first |-> Absent, start |-> ask.start,
                plan |-> {}, blobs |-> <<>>, set |-> Absent]]
        /\ UNCHANGED <<market, clock, cache>>

\* The time a request was looked up at is what it is checked and planned by.
LookUp(c) ==
    /\ request[c].at = "asked"
    /\ request' = [request EXCEPT ![c] =
           [@ EXCEPT !.at = "found", !.now = clock,
                     !.first = IF FirstTimestamp = Absent THEN Absent
                               ELSE BinOpen(FirstTimestamp, Asked(c).step, market.sessions)]]
    /\ UNCHANGED <<market, clock, cache>>

\* Too late or too early a period, or too many candles.
OutOfRange(c) ==
    LET r == request[c]
    IN  \/ r.ask.end > r.now
        \/ r.first # Absent /\ r.ask.last /\ r.ask.end <= r.first
        \/ r.first # Absent /\ ~r.ask.last /\ r.ask.start < r.first
TooMany(c) ==
    LET a == Asked(c)
    IN  IF a.last THEN a.limit > CandlesMax
        ELSE CandleCount(a.start, a.end, a.step, market.sessions) > CandlesMax

Refuse(c) ==
    /\ request[c].at = "found"
    /\ \/ OutOfRange(c) /\ Fails(c, "period")
       \/ ~OutOfRange(c) /\ TooMany(c) /\ Fails(c, "candles")
    /\ UNCHANGED <<market, clock, cache>>

Loads(r, start) ==
    [r EXCEPT !.at = "reading", !.start = start,
              !.plan = IF r.first = Absent THEN {}
                       ELSE Periods(BaseTimeframe(r.ask.step), start, r.ask.end, r.now)]

\* A period is read as it is; without any candle yet, the last ones are none.
Load(c) ==
    /\ request[c].at = "found"
    /\ ~OutOfRange(c) /\ ~TooMany(c)
    /\ ~Asked(c).last \/ request[c].first = Absent
    /\ request' = [request EXCEPT ![c] = Loads(@, IF @.ask.last THEN @.ask.end ELSE @.ask.start)]
    /\ UNCHANGED <<market, clock, cache>>

\* A chunk, from the cache or the source; a live one expires.
Key(base, period) == <<base, period.label>>
Current(key) == key \in DOMAIN cache /\ (cache[key].expires = Absent \/ clock < cache[key].expires)
Chunk(base, period) ==
    IF Current(Key(base, period)) THEN cache[Key(base, period)]
    ELSE [frame |-> Fetched(base, period), until |-> period.end,
          expires |-> IF period.kind = "live" THEN clock + LiveTtl ELSE Absent]
With(f, key, chunk) == [k \in DOMAIN f \cup {key} |-> IF k = key THEN chunk ELSE f[k]]
Knows(r, label, chunk) == [r EXCEPT !.blobs = With(@, label, chunk)]

LivePeriods(c) ==
    {p \in Periods(Base(c), Asked(c).end - 1, Asked(c).end, request[c].now) : p.kind = "live"}

\* A wrong form: counted up to the time of the lookup.
WindowStartNow(r, asOf) ==
    LET start == FirstOfLast(r.ask.end, r.now, r.ask.step, r.ask.limit, market.sessions, r.first)
    IN  IF start = Absent THEN r.ask.end ELSE start

\* The window of the last candles is counted up to what the live chunk knows.
WindowStart(r, asOf) ==
    LET start == FirstOfLast(r.ask.end, asOf, r.ask.step, r.ask.limit, market.sessions, r.first)
    IN  IF start = Absent THEN r.ask.end ELSE start

Window(c, blobs) ==
    LET r == request[c]
        asOf == Min({r.now} \cup {blobs[label].until : label \in DOMAIN blobs})
        start == WindowStart(r, asOf)
    IN  IF start # r.ask.end
           /\ CandleCount(start, Least(r.ask.end, asOf), r.ask.step, market.sessions)
                > r.ask.limit + 1
          THEN Fails(c, "bug")
          ELSE request' = [request EXCEPT ![c] = Loads([r EXCEPT !.blobs = blobs], start)]

\* The last candles: the live chunk is read first, when the period ends in it.
CountLast(c) ==
    /\ request[c].at = "found"
    /\ Asked(c).last /\ request[c].first # Absent
    /\ ~OutOfRange(c) /\ ~TooMany(c)
    /\ IF LivePeriods(c) = {} THEN Window(c, <<>>) /\ UNCHANGED cache
       ELSE LET p == CHOOSE q \in LivePeriods(c) : TRUE
            IN  /\ cache' = With(cache, Key(Base(c), p), Chunk(Base(c), p))
                /\ Window(c, With(<<>>, p.label, Chunk(Base(c), p)))
    /\ UNCHANGED <<market, clock>>

\* The chunks of a request are read in any order; a known one is not read again.
Unread(c) == {p \in request[c].plan : p.label \notin DOMAIN request[c].blobs}
Read(c) ==
    /\ request[c].at = "reading"
    /\ \E p \in Unread(c) :
           /\ cache' = With(cache, Key(Base(c), p), Chunk(Base(c), p))
           /\ request' = [request EXCEPT ![c] = Knows(@, p.label, Chunk(Base(c), p))]
    /\ UNCHANGED <<market, clock>>

\* A source that cannot be asked fails the request.
Fail(c) ==
    /\ request[c].at = "reading"
    /\ \E p \in Unread(c) : ~Current(Key(Base(c), p))
    /\ Fails(c, "source")
    /\ UNCHANGED <<market, clock, cache>>

AsOfLookup(r) == r.now      \* a wrong form: the live chunk's time is not read

\* The candles count as known up to when the live chunk was fetched.
AsOf(r) ==
    Min({r.now} \cup {r.blobs[p.label].until : p \in {q \in r.plan : q.kind = "live"}})

\* The frames of the chunks after one another.
Joined(r) ==
    LET frames == {r.blobs[p.label].frame : p \in r.plan}
    IN  [t \in UNION {DOMAIN f : f \in frames} |->
            UNION {f[t] : f \in {g \in frames : t \in DOMAIN g}}]
AssembledSet(r) ==
    LET step == r.ask.step
        base == Joined(r)
        frame == IF market.sessions # Absent /\ step # BaseTimeframe(step)
                   THEN ResampleSessions(base, step, market.sessions) ELSE base
        closed == ClosedOnly(SliceRange(frame, r.start, r.ask.end), step, AsOf(r),
                             market.sessions)
        expected == ExpectedBins(r.start, r.ask.end, step, market.sessions, AsOf(r))
    IN  [frame |-> closed, gaps |-> FindGaps(DOMAIN closed, expected, step, market.sessions)]

Assemble(c) ==
    /\ request[c].at = "reading"
    /\ Unread(c) = {}
    /\ request' = [request EXCEPT ![c] =
                      [@ EXCEPT !.at = "done", !.set = AssembledSet(request[c])]]
    /\ UNCHANGED <<market, clock, cache>>

-----------------------------------------------------------------------------
ServiceInit ==
    /\ market \in Markets
    /\ clock = market.opens
    /\ cache = <<>>
    /\ request = [c \in Callers |-> Idle]

Tick ==
    /\ clock < ClockMax
    /\ clock' = clock + 1
    /\ UNCHANGED <<market, cache, request>>

\* Redis drops a chunk: evicted, or it was restarted.
Lose(key) ==
    /\ cache' = [k \in DOMAIN cache \ {key} |-> cache[k]]
    /\ UNCHANGED <<market, clock, request>>

ServiceNext ==
    \/ Tick
    \/ \E key \in DOMAIN cache : Lose(key)
    \/ \E c \in Callers :
           \/ \E ask \in Asks(market) : Ask(c, ask)
           \/ LookUp(c) \/ Refuse(c) \/ Load(c) \/ CountLast(c)
           \/ Read(c) \/ Fail(c) \/ Assemble(c)

ServiceSpec == ServiceInit /\ [][ServiceNext]_service

-----------------------------------------------------------------------------
\* Correctness.

Done(c) == request[c].at = "done"
Expected(r) == ExpectedBins(r.start, r.ask.end, r.ask.step, market.sessions, AsOf(r))

\* A candle set holds, for every bin of its period that was closed at the time
\* its chunks were complete until, the whole candle when anything traded in it
\* and a gap when nothing did, and nothing else: whichever requests fetched its
\* chunks, and however the clock moved meanwhile (service.py, assemble).
SetIsWhole ==
    \A c \in Callers : Done(c) /\ request[c].first # Absent =>
        LET r == request[c]
            traded(t) == Traded(t, BinEnd(t, r.ask.step, market.sessions))
            missing == Expected(r) \ DOMAIN r.set.frame
        IN  /\ DOMAIN r.set.frame = {t \in Expected(r) : traded(t) # {}}
            /\ \A t \in DOMAIN r.set.frame : r.set.frame[t] = traded(t)
            /\ r.set.gaps.total = Cardinality(missing)
            /\ \A g \in r.set.gaps.ranges : \A t \in Expected(r) :
                   g[1] <= t /\ t < g[2] => t \in missing
            /\ Cardinality(r.set.gaps.ranges) < MaxGapRanges =>
                   \A t \in missing : \E g \in r.set.gaps.ranges : g[1] <= t /\ t < g[2]

\* The last candles are as many as asked for, gaps counted, or all there are
\* since the first one, and the window never comes out larger than the code
\* takes for possible (service.py, last_candles and _window).
LastAreCounted ==
    \A c \in Callers :
        /\ request[c].at = "failed" => request[c].why # "bug"
        /\ Done(c) /\ Asked(c).last /\ request[c].first # Absent =>
               LET r == request[c]
                   n == Cardinality(Expected(r))
                   older == ExpectedBins(r.first, r.start, r.ask.step, market.sessions, AsOf(r))
               IN  n = r.ask.limit \/ (n < r.ask.limit /\ older = {})

\* The chunks of a period follow one another without a hole or an overlap, up
\* to its end or what the source serves, each chunk but the live one is over,
\* and a label that two requests share names the same chunk (base.py,
\* plan_periods).
PlansCover ==
    /\ \A c \in Callers : request[c].at \in {"reading", "done"} /\ request[c].plan # {} =>
           LET r == request[c]
               known == Least(r.ask.end, r.now - market.delay)
           IN  /\ \A t \in r.start..known - 1 :
                      Cardinality({p \in r.plan : p.start <= t /\ t < p.end}) = 1
               /\ \A p \in r.plan : p.end <= r.now - market.delay
    /\ \A c, d \in Callers : request[c].at = "reading" /\ request[d].at = "reading" =>
           \A p \in request[c].plan, q \in request[d].plan :
               p.label = q.label /\ Base(c) = Base(d) =>
                   p.start = q.start /\ (p.kind # "live" => p = q)

\* The last session closed longer ago than the next one is taken to be away.
CalendarOver ==
    market.sessions # Absent /\ \A s \in ToSet(market.sessions) : s.close + NextCloseFallback <= clock

\* What is counted is what there is: the number of candles of a period that is
\* asked for is the number of its bins, a refused period is told the latest end
\* and the smallest longer timeframe that fit, and the calendar's latest close
\* and next close are on either side of now, for as long as there is a calendar
\* (candles.py, candle_count and suggest; service.py, daily_close, next_close
\* and newest_minute).
CalendarAgrees ==
    /\ \A ask \in {a \in Asks(market) : ~a.last /\ a.end # Absent} :
           LET Count(end, step) == CandleCount(ask.start, end, step, market.sessions)
               hint == Suggest(ask.start, ask.end, ask.step, CandlesMax, market.sessions)
           IN  /\ Count(ask.end, ask.step) =
                      Cardinality(ExpectedBins(ask.start, ask.end, ask.step, market.sessions,
                                               ask.end + Day))
               /\ Count(ask.end, ask.step) > CandlesMax =>
                      /\ ask.start < hint.end /\ Count(hint.end, ask.step) <= CandlesMax
                      /\ \A e \in hint.end + 1..ask.end : Count(e, ask.step) > CandlesMax
                      /\ \A step \in Timeframes : step > ask.step =>
                             (Count(ask.end, step) <= CandlesMax
                                 => hint.timeframe # Absent /\ hint.timeframe <= step)
    /\ LET close == DailyClose(clock, market.sessions)
       IN  close # Absent => close <= clock /\ (CalendarOver \/ clock < NextClose(close, market.sessions))
    /\ market.sessions # Absent /\ (\E i \in DOMAIN market.sessions : market.sessions[i].close <= market.opens) =>
           LET minute == NewestMinute(clock, market.sessions)
               closed == ExpectedBins(0, clock, Min(Timeframes), market.sessions, clock)
           IN  minute = Max(closed)

\* The chunks, the periods and the counts that are made of the schedule of a market
\* agree with each other and with it (base.py, candles.py, service.py).
ChunksFitTheCalendar == PlansCover /\ CalendarAgrees
=============================================================================
