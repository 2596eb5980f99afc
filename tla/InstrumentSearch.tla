-------------------------- MODULE InstrumentSearch --------------------------
(***************************************************************************)
(* The search over the catalog (data/catalog.py, and search of              *)
(* data/service.py): each request takes the stats the store has, and a      *)
(* thread joins them with the catalog, ranks what matches and cuts a page.  *)
(* The join is kept for the next search with the same stats.                *)
(*                                                                          *)
(* Letters are numbers above 0 in the order of the alphabet; 0 stands for a *)
(* separator in a symbol and for the space before each word of a name.      *)
(***************************************************************************)
EXTENDS Integers, Sequences, FiniteSetsExt

CONSTANTS
    Instruments,    \* [market, exchange, symbol, base, quote, words]; base and quote <<>> for stocks
    Frames,         \* the stats one after another: by instrument [price, change, volume]
    Searches,       \* the requests
    Asks(_),        \* what a request may ask
    None

VARIABLES
    frame,      \* which stats the store has
    joined,     \* the join that is kept, and the stats it is of
    at,         \* where each search is
    asked,      \* [q, market, exchange, sort, limit, offset]
    took,       \* the stats it took
    rows,       \* the join it works on
    answer      \* [items, total]

vars == <<frame, joined, at, asked, took, rows, answer>>

-----------------------------------------------------------------------------
\* Matching

Normalised(text) == SelectSeq(text, LAMBDA letter : letter > 0)
StartsWith(text, part) == Len(part) <= Len(text) /\ SubSeq(text, 1, Len(part)) = part
Contains(text, part) == \E i \in 1..Len(text) - Len(part) + 1 : SubSeq(text, i, i + Len(part) - 1) = part

QuotePairs(x) == IF x.quote = <<>> THEN 0 ELSE Cardinality({y \in Instruments : y.quote = x.quote})

\* 0 best, None for no match, among the instruments that are searched.
Rank(x, q, among) ==
    LET key == Normalised(q)
        pairs == {y \in among : Normalised(y.base) = key}
    IN  CASE x \in pairs /\ \A y \in pairs : QuotePairs(y) <= QuotePairs(x) -> 0
          [] OTHER ->
             CASE Normalised(x.symbol) = key -> 1
               [] Normalised(x.symbol) # key /\ x \in pairs -> 2
               [] OTHER ->
                  IF StartsWith(Normalised(x.symbol), key) THEN 3
                  ELSE IF Contains(x.words, <<0>> \o q) THEN 4
                  ELSE IF Contains(Normalised(x.symbol), key) THEN 5
                  ELSE IF Contains(x.words, q) THEN 6
                  ELSE None

-----------------------------------------------------------------------------
\* Order: keys are compared one after another, each a sequence of numbers.

Lower(a, b) ==
    \E i \in 1..Len(b) :
        /\ \A j \in 1..i - 1 : j <= Len(a) /\ a[j] = b[j]
        /\ i > Len(a) \/ a[i] < b[i]
Before(a, b) ==
    \E i \in DOMAIN a : (\A j \in 1..i - 1 : a[j] = b[j]) /\ Lower(a[i], b[i])

\* The number of the chosen sort; whoever has none comes last, either way.
SortKey(row, sort) ==
    LET value == CASE sort = "symbol" \/ row.stats = None -> None
                   [] sort = "volume" /\ row.stats # None -> row.stats.volume
                   [] OTHER -> row.stats.change
    IN  IF value = None THEN <<1>> ELSE <<0, IF sort = "-change" THEN value ELSE -value>>

MarketKey(x) == IF x.market = "crypto" THEN <<0>> ELSE <<1>>

Keys(row, ask, among) ==
    LET x == row.instrument
        rank == Rank(x, ask.q, among)
        last == <<x.symbol, MarketKey(x)>>
    IN  IF ask.q = None THEN <<SortKey(row, ask.sort)>> \o last
        ELSE << <<rank>>, <<IF rank = 2 THEN -QuotePairs(x) ELSE 0>>,
                SortKey(row, ask.sort), <<Len(x.symbol)>> >> \o last

\* _filter and _matches: the rows that match, in order.
Filtered(table, ask) ==
    {row \in table : /\ ask.market \in {None, row.instrument.market}
                     /\ ask.exchange \in {None, row.instrument.exchange}}
Matches(table, ask) ==
    LET rest == Filtered(table, ask)
        among == {row.instrument : row \in rest}
        found == {row \in rest : ask.q = None \/ Rank(row.instrument, ask.q, among) # None}
        keys == [row \in found |-> Keys(row, ask, among)]
        Place(row) == 1 + Cardinality({other \in found : Before(keys[other], keys[row])})
    IN  [i \in 1..Cardinality(found) |-> CHOOSE row \in found : Place(row) = i]

Page(table, ask) ==
    LET found == Matches(table, ask)
        total == Len(found)
        start == Min({ask.offset, total})
    IN  [items |-> IF ask.limit <= 0 THEN <<>>
                   ELSE SubSeq(found, start + 1, Min({start + ask.limit, total})),
         total |-> total]

-----------------------------------------------------------------------------
WithStats(number) ==
    {[instrument |-> x, stats |-> IF x \in DOMAIN Frames[number] THEN Frames[number][x] ELSE None] :
        x \in Instruments}

Init ==
    /\ frame = 1
    /\ joined = [stats |-> None, rows |-> {}]
    /\ at = [s \in Searches |-> "ask"]
    /\ asked = [s \in Searches |-> None]
    /\ took = [s \in Searches |-> None]
    /\ rows = [s \in Searches |-> {}]
    /\ answer = [s \in Searches |-> None]

Go(s, place) == at' = [at EXCEPT ![s] = place]

\* What cannot be in the catalog is answered at once; an exchange decides the market.
MarketOf(exchange) == IF exchange = "BINANCE" THEN "crypto" ELSE "stock"
AnswersNone(ask) ==
    \/ ask.q # None /\ Normalised(ask.q) = <<>>
    \/ ask.exchange # None /\ ask.market \notin {None, MarketOf(ask.exchange)}

Ask(s, ask) ==
    /\ at[s] = "ask"
    /\ asked' = [asked EXCEPT ![s] = ask]
    /\ IF AnswersNone(ask)
         THEN Go(s, "done") /\ answer' = [answer EXCEPT ![s] = [items |-> <<>>, total |-> 0]]
         ELSE Go(s, "stats") /\ UNCHANGED answer
    /\ UNCHANGED <<frame, joined, took, rows>>

TakeStats(s) ==
    /\ at[s] = "stats"
    /\ took' = [took EXCEPT ![s] = frame]
    /\ Go(s, "join")
    /\ UNCHANGED <<frame, joined, asked, rows, answer>>

\* A wrong form: what is kept is good for any stats.
Missing(kept, stats) == kept.stats = None
Stale(kept, stats) == kept.stats # stats

\* _joined_with reads what is kept once, and writes it back later, whatever it is then.
ReadJoined(s) ==
    /\ at[s] = "join"
    /\ IF Stale(joined, took[s])
         THEN Go(s, "keep") /\ rows' = [rows EXCEPT ![s] = WithStats(took[s])]
         ELSE Go(s, "page") /\ rows' = [rows EXCEPT ![s] = joined.rows]
    /\ UNCHANGED <<frame, joined, asked, took, answer>>

KeepJoined(s) ==
    /\ at[s] = "keep"
    /\ joined' = [stats |-> took[s], rows |-> rows[s]]
    /\ Go(s, "page")
    /\ UNCHANGED <<frame, asked, took, rows, answer>>

CutPage(s) ==
    /\ at[s] = "page"
    /\ answer' = [answer EXCEPT ![s] = Page(rows[s], asked[s])]
    /\ Go(s, "done")
    /\ UNCHANGED <<frame, joined, asked, took, rows>>

\* The store has newer stats.
Refreshed ==
    /\ frame < Len(Frames)
    /\ frame' = frame + 1
    /\ UNCHANGED <<joined, at, asked, took, rows, answer>>

Next ==
    \/ Refreshed
    \/ \E s \in Searches :
           \/ \E ask \in Asks(s) : Ask(s, ask)
           \/ TakeStats(s) \/ ReadJoined(s) \/ KeepJoined(s) \/ CutPage(s)

Spec == Init /\ [][Next]_vars

-----------------------------------------------------------------------------
\* What is found: the symbol, the base asset or the name has the query in it.
Found(s) ==
    LET ask == asked[s]
    IN  {x \in Instruments :
            /\ ask.market \in {None, x.market} /\ ask.exchange \in {None, x.exchange}
            /\ \/ ask.q = None
               \/ /\ Normalised(ask.q) # <<>>
                  /\ \/ Contains(Normalised(x.symbol), Normalised(ask.q))
                     \/ Normalised(x.base) = Normalised(ask.q)
                     \/ Contains(x.words, ask.q)}

\* A pair of the base asset the query names with a rarer quote asset than another.
IsPair(x, s) == x.base # <<>> /\ Normalised(x.base) = Normalised(asked[s].q)
IsTop(x, s) == IsPair(x, s) /\ \A y \in Found(s) : IsPair(y, s) => QuotePairs(y) <= QuotePairs(x)

\* x must not come after y (catalog.py, the ranking of the module's docstring).
MustLead(x, y, s) ==
    LET q == Normalised(asked[s].q)
        Exact(z) == Normalised(z.symbol) = q
        Starts(z) == StartsWith(Normalised(z.symbol), q)
    IN  \/ IsTop(x, s) /\ ~IsTop(y, s)
        \/ ~IsTop(y, s) /\ \/ Exact(x) /\ ~Exact(y)
                           \/ ~Exact(y) /\ IsPair(x, s) /\ \/ ~IsPair(y, s)
                                                           \/ QuotePairs(x) > QuotePairs(y)
                           \/ ~Exact(y) /\ ~IsPair(y, s) /\ Starts(x) /\ ~Starts(y)

\* Searches in threads share the join that is kept, and yet every page has the
\* instruments of its place among all that match, best first, each once, with the
\* stats the search took, not those of another search's (catalog.py, _joined_with
\* and page).
PagesAreOfTheirStats ==
    \A s \in Searches : at[s] = "done" =>
        LET items == answer[s].items
            ask == asked[s]
            Of(x) == IF x \in DOMAIN Frames[took[s]] THEN Frames[took[s]][x] ELSE None
            Given(x) == ask.sort # "symbol" /\ Of(x) # None /\ (ask.sort # "volume" => Of(x).change # None)
        IN  /\ ~AnswersNone(ask) => answer[s].total = Cardinality(Found(s))
            /\ Len(items) = Max({0, Min({ask.limit, answer[s].total - ask.offset})})
            /\ \A i, j \in DOMAIN items :
                   LET x == items[i].instrument
                       y == items[j].instrument
                   IN  /\ x \in Found(s) /\ items[i].stats = Of(x)
                       /\ i # j => x # y
                       /\ ask.q = None /\ Given(x) /\ ~Given(y) => i < j
                       /\ ask.q # None /\ MustLead(x, y, s) => i < j
                       /\ ask.q = None /\ ask.sort = "volume" /\ Given(x) /\ Given(y) /\ i < j =>
                              Of(x).volume >= Of(y).volume
=============================================================================
