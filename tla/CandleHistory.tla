--------------------------- MODULE CandleHistory ---------------------------
(***************************************************************************)
(* The candles of the chart (features/instrument/useCandleHistory.ts,       *)
(* bars.ts, api/candles.ts): the latest page, which moves on, the older     *)
(* pages that hang below where it began when the first of them was asked    *)
(* for (the anchor), and the bridge that fills what the latest page leaves  *)
(* behind.  Each page is a query of its own, answered by the service when   *)
(* and as it likes.  A change of a query renders the page once more.        *)
(*                                                                          *)
(* A time is the number of a candle of the market's schedule.               *)
(***************************************************************************)
EXTENDS Integers, SequencesExt, FiniteSetsExt

CONSTANTS
    Histories,      \* what may trade: sets of candles
    First,          \* the first candle the service has
    AvailableFrom,  \* the same if the source can say so, Null if not
    PageSize, BridgeSize, EmptyPages,
    Opens, MaxNow,  \* when the chart is opened; bound of the clock
    Null

\* The chart is opened when the service has a candle, or later.
ASSUME CandleHistoryAssumption ==
    /\ First \in Int /\ Opens \in Int /\ First <= Opens
    /\ PageSize \in Nat \ {0} /\ BridgeSize \in Nat \ {0}
    /\ \A history \in Histories : history \subseteq Int
    /\ Null \notin Int \cup {"failed", "refused"}
    /\ Null \notin [start : Int, end : Int, t : SUBSET Int]

VARIABLES
    now,        \* candles before it are closed
    traded,     \* those of them that have trades
    latest,     \* the queries: [end, page, fetching, error], a page [start, end, t]
    bridge,
    older,      \* newest first
    shown,      \* the latest page and the bridge as they were last ready
    restarts

chart == <<now, traded, latest, bridge, older, shown, restarts>>

-----------------------------------------------------------------------------
\* The queries

Query(end, page) == [end |-> end, page |-> page, fetching |-> page = Null, error |-> Null]
NoBridge == [end |-> Null, page |-> Null, fetching |-> FALSE, error |-> Null]

\* The last candles before an end, of those the service has.
Page(end, limit) ==
    LET start == Max({First, end - limit})
    IN  [start |-> start, end |-> end, t |-> {x \in traded : start <= x /\ x < end}]

\* An error goes when a page without data is asked for again, and else when it arrives.
AskedFor(query) == [query EXCEPT !.fetching = TRUE, !.error = IF query.page = Null THEN Null ELSE @]
Arrived(query, page) == [query EXCEPT !.page = page, !.fetching = FALSE, !.error = Null]
Failed(query, error) == [query EXCEPT !.fetching = FALSE, !.error = error]

-----------------------------------------------------------------------------
\* What is rendered

Anchor(pages) == IF pages = <<>> THEN Null ELSE pages[1].end

\* Where the bridge ends: where the latest page begins once that is above the anchor.
BridgeTo(page, pages) ==
    IF page # Null /\ pages # <<>> /\ page.start > Anchor(pages) THEN page.start ELSE Null

\* The bridge begins above the anchor, or the service cannot give its period.
TooFar(query, pages) ==
    /\ query.end # Null
    /\ \/ query.error = "refused"
       \/ query.page # Null /\ query.page.start > Anchor(pages)

\* A wrong form: the newest frame is shown at once.
ReadyAtOnce(query) == TRUE

\* No bridge is needed, or it has arrived.
Ready(query) == query.end = Null \/ query.page # Null

\* The query of the bridge is by its end: another end is another query.
BridgeFor(page, query, pages) ==
    LET end == BridgeTo(page, pages)
    IN  IF end = query.end THEN query ELSE IF end = Null THEN NoBridge ELSE Query(end, Null)

\* After a change of a query: what is shown stays until the bridge to the latest page
\* is there, and history starts over below the latest page if it never will.
Rendered(newest, query, pages) ==
    LET below == BridgeFor(newest.page, query, pages)
        frame == [latest |-> newest.page, bridge |-> below.page]
    IN  /\ latest' = newest
        /\ IF TooFar(below, pages)
             THEN /\ older' = <<>> /\ bridge' = NoBridge /\ restarts' = restarts + 1
                  /\ shown' = [latest |-> newest.page, bridge |-> Null]
             ELSE /\ older' = pages /\ bridge' = below /\ UNCHANGED restarts
                  /\ shown' = IF Ready(below) THEN frame ELSE shown
        /\ UNCHANGED traded

\* mergePages: every candle of the pages once, of the bridge those from the anchor on.
Arrivals == {i \in DOMAIN older : older[i].page # Null}
Bars ==
    IF shown.latest = Null THEN {}
    ELSE shown.latest.t
         \cup (IF shown.bridge = Null THEN {} ELSE {x \in shown.bridge.t : x >= Anchor(older)})
         \cup UNION {older[i].page.t : i \in Arrivals}

\* chainEnd: history ends with pages in a row without a candle, or with one that reaches
\* no further down.
ChainEnds ==
    \E i \in DOMAIN older :
        \/ older[i].page.start >= older[i].end
        \/ i >= EmptyPages /\ \A j \in i - EmptyPages + 1..i : older[j].page.t = {}
NextEnd ==
    CASE shown.latest = Null \/ Arrivals # DOMAIN older -> Null
      [] shown.latest # Null /\ older = <<>> -> shown.latest.start
      [] OTHER -> IF ChainEnds THEN Null ELSE Last(older).page.start
HasOlder == NextEnd # Null /\ AvailableFrom # Null /\ NextEnd > AvailableFrom

Busy == latest.fetching \/ \E i \in DOMAIN older : older[i].fetching
HasFailed == \/ latest.error # Null \/ bridge.error # Null
             \/ \E i \in DOMAIN older : older[i].error # Null

-----------------------------------------------------------------------------
\* The chart is opened, perhaps with a latest page of an earlier visit.
ChartInit ==
    /\ now = Opens
    /\ traded \in Histories
    /\ latest = Query(Null, Null)
       \/ \E end \in First + 1..Opens :
              latest \in {Query(Null, Page(end, PageSize)), AskedFor(Query(Null, Page(end, PageSize)))}
    /\ bridge = NoBridge /\ older = <<>> /\ restarts = 0
    /\ shown = [latest |-> latest.page, bridge |-> Null]

\* The user scrolls to the left edge.
LoadOlder ==
    /\ ~Busy /\ ~HasFailed /\ HasOlder
    /\ Rendered(latest, bridge, Append(older, Query(NextEnd, Null)))
    /\ UNCHANGED now

\* Retry asks again for the first that failed: the latest page, the bridge, an older one.
Retry ==
    /\ \/ latest.error # Null /\ Rendered(AskedFor(latest), bridge, older)
       \/ /\ latest.error = Null /\ bridge.error # Null
          /\ Rendered(latest, AskedFor(bridge), older)
       \/ /\ latest.error = Null /\ bridge.error = Null /\ HasFailed
          /\ LET i == Min({j \in DOMAIN older : older[j].error # Null})
             IN  Rendered(latest, bridge, [older EXCEPT ![i] = AskedFor(@)])
    /\ UNCHANGED now

\* A page that is a minute old is asked for again when the chart is looked at again.
RefreshLatest ==
    /\ ~latest.fetching
    /\ Rendered(AskedFor(latest), bridge, older)
    /\ UNCHANGED now

LatestEnds ==
    /\ latest.fetching
    /\ \E newest \in {Arrived(latest, Page(now, PageSize)), Failed(latest, "failed")} :
           Rendered(newest, bridge, older)
    /\ UNCHANGED now

\* The service may also refuse a period: too many candles, or out of range.
BridgeEnds ==
    /\ bridge.fetching
    /\ \E query \in {Arrived(bridge, Page(bridge.end, BridgeSize)),
                     Failed(bridge, "failed"), Failed(bridge, "refused")} :
           Rendered(latest, query, older)
    /\ UNCHANGED now

OlderEnds ==
    /\ \E i \in DOMAIN older :
           /\ older[i].fetching
           /\ \E query \in {Arrived(older[i], Page(older[i].end, PageSize)), Failed(older[i], "failed")} :
                  Rendered(latest, bridge, [older EXCEPT ![i] = query])
    /\ UNCHANGED now

ClockTicks ==
    /\ now < MaxNow
    /\ now' = now + 1
    /\ UNCHANGED <<traded, latest, bridge, older, shown, restarts>>

ChartNext ==
    \/ LoadOlder \/ Retry \/ RefreshLatest
    \/ LatestEnds \/ BridgeEnds \/ OlderEnds
    \/ ClockTicks

ChartSpec == ChartInit /\ [][ChartNext]_chart

-----------------------------------------------------------------------------
\* Correctness

\* Where the oldest page that arrived begins.
BarsBegin == IF Arrivals = {} THEN IF older = <<>> THEN shown.latest.start ELSE Anchor(older)
         ELSE older[Max(Arrivals)].page.start

\* However late, out of order or failed the pages are, the bars have no hole: they are
\* all the candles from the begin of the oldest page to the end of the latest page
\* shown; only the last older page can be on its way, and nothing is waited for that
\* is not asked for (useCandleHistory.ts, summarize).
BarsHaveNoHole ==
    /\ shown.latest # Null => Bars = {x \in traded : BarsBegin <= x /\ x < shown.latest.end}
    /\ \A i \in DOMAIN older : i < Len(older) => older[i].page # Null
    /\ \A query \in ToSet(older) \cup {latest, bridge} :
           query.page = Null /\ query # NoBridge => query.fetching \/ query.error # Null

\* Older pages stay and no bar goes while they are shown, unless history starts over,
\* and that only when the bridge to the latest page as it is now has just ended
\* (useCandleHistory.ts, restart).
BarsStay ==
    LET ends(pages) == [i \in DOMAIN pages |-> pages[i].end]
    IN  IF restarts' # restarts THEN bridge.fetching /\ bridge.end = latest'.page.start
        ELSE older # <<>> => Bars \subseteq Bars' /\ IsPrefix(ends(older), ends(older'))

\* The chart stays whole: no step leaves a hole in what it shows, or loses something
\* of it (useCandleHistory.ts, summarize and restart).
ChartStaysWhole == [][BarsHaveNoHole' /\ BarsStay]_chart
=============================================================================
