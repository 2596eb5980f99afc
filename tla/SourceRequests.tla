--------------------------- MODULE SourceRequests ---------------------------
(***************************************************************************)
(* Requests to a source: the budgets counted in Redis (core/ratelimit.py), *)
(* spend, get and unavailable of data/sources/base.py, request_with_retry  *)
(* of core/http.py, and the two refreshes made of many requests: stats and *)
(* daily candles in batches (data/sources/alpaca.py) and a daily candles   *)
(* request per pair (data/sources/binance.py).                             *)
(*                                                                         *)
(* One refresh competes with chart requests.  A caller is cut at each      *)
(* await: reading the clock and counting a hit are two steps, so a hit may *)
(* count in the window before the present one, whose counter expires a     *)
(* second after the turn or later.  Time is the window turning; how near a *)
(* hit is to its end (MAX_BUDGET_WAIT) is free.  A source answers as it    *)
(* likes, except that a request with a symbol it refuses is never answered *)
(* and one without is never refused.                                       *)
(***************************************************************************)
EXTENDS Naturals, FiniteSets, SequencesExt

CONSTANTS
    Charts,     \* chart requests, one HTTP request each
    Stocks,     \* the symbols a refresh asks for, in order
    Doubtful,   \* the symbols the source may refuse
    BatchSize,  \* SNAPSHOT_SYMBOLS
    Limit,      \* the whole budget of a window: ALPACA_RATE_LIMIT, BINANCE_WEIGHT_LIMIT
    Share,      \* the share of the refresh
    Weight,     \* the cost of a hit: 1, or KLINES_WEIGHT
    Attempts,   \* attempts of request_with_retry
    InARow,     \* SPARK_FAILURES_IN_A_ROW
    Pages,      \* bound on the pages of an answer (next_page_token)
    MaxFaults   \* bound on the failures of Redis and of the source

ASSUME SourceRequestsAssumption ==
    /\ "refresh" \notin Charts
    /\ Stocks \in Seq(ToSet(Stocks)) /\ IsInjective(Stocks) /\ Doubtful \subseteq ToSet(Stocks)
    /\ BatchSize \in Nat \ {0} /\ Attempts \in Nat \ {0} /\ Pages \in Nat \ {0}
    /\ MaxFaults \in Nat
    /\ Limit \in Nat /\ Share \in Nat \ {0} /\ Weight \in Nat \ {0} /\ InARow \in Nat \ {0}

VARIABLES
    source,    \* whose requests these are: "alpaca" or "binance"
    bad,       \* the symbols the source refuses
    used,      \* Redis: the counters of this window and of the one before
    renewed,   \* the counters of the window before a hit was counted in since the turn
    down,      \* _down_until: hits pass without asking Redis
    paused,    \* _paused_until: Binance's REST calls stop
    at,        \* where each caller is
    read,      \* the clock a caller read for its hit
    attempt,   \* the attempt of its request
    refresh,   \* the refresh: what is left to ask, and what it got
    admitted,  \* history, read by no action: the cost counting let through
    expired,   \* the same: the counters of the window before that expired since the turn
    faults     \* the failures so far, for the bound

callers == <<at, read, attempt>>
counters == <<used, renewed, admitted, expired>>
vars == <<source, bad, used, renewed, down, paused, at, read, attempt, refresh, admitted, expired, faults>>

Callers == Charts \cup {"refresh"}
Symbols == ToSet(Stocks)
Keys == {"share", "whole"}
Windows == {"now", "before"}

\* The window whose counter a hit counts in, once the clock is read.
Reads == {"unread"} \cup Windows

\* Stocks in batches, one after another; a pair is a batch of its own.
Batches(size) ==
    [i \in 1 .. (Len(Stocks) + size - 1) \div size |->
        SubSeq(Stocks, (i - 1) * size + 1, IF i * size < Len(Stocks) THEN i * size ELSE Len(Stocks))]

Init ==
    /\ source \in {"alpaca", "binance"}
    /\ bad \in SUBSET Doubtful
    /\ used = [k \in Keys |-> [w \in Windows |-> 0]]
    /\ admitted = [k \in Keys |-> [w \in Windows |-> 0]]
    /\ renewed = {} /\ expired = {}
    /\ down = FALSE /\ paused = FALSE /\ faults = 0
    /\ at = [c \in Callers |-> "idle"]
    /\ read = [c \in Callers |-> "unread"]
    /\ attempt = [c \in Callers |-> 0]
    /\ refresh = [phase |-> "first", asks |-> Batches(IF source = "alpaca" THEN BatchSize ELSE 1),
                  failed |-> <<>>, parts |-> <<>>, page |-> 1, inARow |-> 0, error |-> FALSE,
                  answered |-> {}, refused |-> {}, unanswered |-> {}]

-----------------------------------------------------------------------------
(* How a call of the refresh ends.                                          *)

Asked == Head(refresh.asks)

Answer(r) == [r EXCEPT !.asks = Tail(@), !.answered = @ \cup ToSet(Asked), !.page = 1, !.inARow = 0]

Fail(r, rejected) ==
    [r EXCEPT !.asks = Tail(@), !.failed = Append(@, [batch |-> Asked, rejected |-> rejected]),
              !.page = 1, !.inARow = @ + 1, !.error = TRUE]

\* A pair Binance refuses gets nothing, at once and without counting as a failure.
RefusePair(r) == [r EXCEPT !.asks = Tail(@), !.refused = @ \cup ToSet(Asked)]

Took(how) ==
    CASE how = "answered" -> Answer(refresh)
      [] how = "rejected" /\ source = "binance" -> RefusePair(refresh)
      [] OTHER -> Fail(refresh, how = "rejected")

\* The call of c returned or raised.
Ends(c, how) ==
    /\ at' = [at EXCEPT ![c] = IF c = "refresh" THEN "idle" ELSE "done"]
    /\ read' = [read EXCEPT ![c] = "unread"]
    /\ attempt' = [attempt EXCEPT ![c] = 0]
    /\ refresh' = IF c = "refresh" THEN Took(how) ELSE refresh

Goto(c, place) ==
    /\ at' = [at EXCEPT ![c] = place]
    /\ read' = [read EXCEPT ![c] = "unread"]
    /\ UNCHANGED <<attempt, refresh>>

-----------------------------------------------------------------------------
(* Budgets: hit, spend and the turn of a refresh.                           *)

\* _request and _rest up to spend: Binance's calls stop while they are paused.
Request(c) ==
    IF source = "binance" /\ paused THEN Ends(c, "retry later") ELSE Goto(c, "spend")

Send(c) ==
    /\ at' = [at EXCEPT ![c] = "sent"]
    /\ read' = [read EXCEPT ![c] = "unread"]
    /\ attempt' = [attempt EXCEPT ![c] = 1]
    /\ UNCHANGED refresh

\* n more failures, within the bound.
Faults(n) == faults + n <= MaxFaults /\ faults' = faults + n

Hitting(c) == at[c] \in {"turn", "spend", "spend again"}
KeyOf(c) == IF at[c] = "turn" THEN "share" ELSE "whole"
LimitOf(k) == IF k = "share" THEN Share ELSE Limit

\* hit returned 0: a turn goes on with the request, a request is sent.
Passes(c) == IF at[c] = "turn" THEN Request(c) ELSE Send(c)

\* hit returned the seconds left of the window: a turn waits as long as it takes,
\* a request once and only when the window is about to turn.
Waits(c) ==
    \/ /\ at[c] \in {"turn", "spend"}
       /\ at' = [at EXCEPT ![c] = IF @ = "turn" THEN "turn later" ELSE "spend later"]
       /\ UNCHANGED <<read, attempt, refresh>>
    \/ at[c] # "turn" /\ Ends(c, "retry later")

\* A counter past its limit, or what counting let through past twice of it: how far
\* does not matter.
Plus(counts, k, w, cost, most) ==
    LET sum == counts[k][w] + cost
    IN  [counts EXCEPT ![k][w] = IF sum > most THEN most + 1 ELSE sum]

\* INCRBY and EXPIRE in one transaction: a counter of the window before that was counted
\* in since the turn outlasts this window.
Incr(k, w, cost) ==
    /\ used' = Plus(used, k, w, cost, LimitOf(k))
    /\ renewed' = IF w = "before" THEN renewed \cup {k} ELSE renewed

ReadClock(c) ==
    /\ Hitting(c) /\ read[c] = "unread"
    /\ ~down /\ LimitOf(KeyOf(c)) > 0
    /\ read' = [read EXCEPT ![c] = "now"]
    /\ UNCHANGED <<source, bad, counters, down, paused, at, attempt, refresh, faults>>

\* A limit of 0 disables limiting; a Redis that failed is not asked.
HitUncounted(c) ==
    /\ Hitting(c) /\ read[c] = "unread"
    /\ down \/ LimitOf(KeyOf(c)) = 0
    /\ Passes(c)
    /\ UNCHANGED <<source, bad, counters, down, paused, faults>>

WithinBeforeIt(k, w, cost) == used[k][w] <= LimitOf(k)
Within(k, w, cost) == used[k][w] + cost <= LimitOf(k)

\* The hit is counted, once more when the reply of the first was lost.
Count(c) ==
    /\ Hitting(c) /\ read[c] # "unread"
    /\ LET k == KeyOf(c)
           w == read[c]
       IN  \E times \in 1 .. 2 :
             /\ Faults(times - 1)
             /\ Incr(k, w, times * Weight)
             /\ IF Within(k, w, times * Weight)
                  THEN Passes(c) /\ admitted' = Plus(admitted, k, w, Weight, 2 * LimitOf(k))
                  ELSE Waits(c) /\ UNCHANGED admitted
    /\ UNCHANGED <<source, bad, down, paused, expired>>

\* Redis failed, after it counted the hit or before: the hit passes, and so does
\* every hit until Redis is asked again.
HitFails(c) ==
    /\ Hitting(c) /\ read[c] # "unread"
    /\ Incr(KeyOf(c), read[c], Weight) \/ UNCHANGED <<used, renewed>>
    /\ down' = TRUE
    /\ Passes(c)
    /\ Faults(1)
    /\ UNCHANGED <<source, bad, paused, admitted, expired>>

\* The wait is over in the next window, whichever the hit counted in.
Woken(c) ==
    /\ at[c] \in {"turn later", "spend later"}
    /\ read[c] = "before"
    /\ Goto(c, IF at[c] = "turn later" THEN "turn" ELSE "spend again")
    /\ UNCHANGED <<source, bad, counters, down, paused, faults>>

-----------------------------------------------------------------------------
(* request_with_retry, and what its answers mean.                           *)

\* What a source may answer the request of c; a body that cannot be read is no answer.
Statuses(c) ==
    {"limited", "server error", "dropped", "no answer"} \cup
    IF c # "refresh" THEN {"ok", "rejected"}
    ELSE IF ToSet(Asked) \cap bad # {} THEN {"rejected"} ELSE {"ok"}

Fault(status) == Faults(IF status \in {"ok", "rejected"} THEN 0 ELSE 1)

\* 429, 5xx and dropped connections are asked again, unless the attempts are used or
\* Retry-After is too long.
Retried(c, status) == status \in {"limited", "server error", "dropped"} /\ attempt[c] < Attempts
GivenUp(c, status) == ~Retried(c, status) \/ status \in {"limited", "server error"}

Resent(c) ==
    /\ at[c] = "sent"
    /\ \E status \in Statuses(c) : Retried(c, status) /\ Fault(status)
    /\ at' = [at EXCEPT ![c] = "backoff"]
    /\ UNCHANGED <<source, bad, counters, down, paused, read, attempt, refresh>>

BackedOff(c) ==
    /\ at[c] = "backoff"
    /\ at' = [at EXCEPT ![c] = "sent"]
    /\ attempt' = [attempt EXCEPT ![c] = @ + 1]
    /\ UNCHANGED <<source, bad, counters, down, paused, read, refresh, faults>>

Outcome(status) ==
    CASE status = "ok" -> "answered"
      [] status = "rejected" -> "rejected"
      [] status = "limited" -> "retry later"
      [] OTHER -> "failed"

\* A 429 or 418 of Binance pauses its calls; so may the weight an answer reports
\* (_watch_weight), here that of a server error.
Pauses(status) ==
    IF source = "alpaca" THEN {paused}
    ELSE IF status = "limited" THEN {TRUE}
    ELSE IF status = "server error" THEN {paused, TRUE} ELSE {paused}

\* A page of a batch with another page after it.
NextPage ==
    /\ refresh.page < Pages /\ source = "alpaca"
    /\ at' = [at EXCEPT !["refresh"] = "turn"]
    /\ attempt' = [attempt EXCEPT !["refresh"] = 0]
    /\ refresh' = [refresh EXCEPT !.page = @ + 1]
    /\ UNCHANGED read

Answered(c) ==
    /\ at[c] = "sent"
    /\ \E status \in Statuses(c) :
         /\ GivenUp(c, status)
         /\ \/ Ends(c, Outcome(status))
            \/ c = "refresh" /\ status = "ok" /\ NextPage
         /\ paused' \in Pauses(status)
         /\ Fault(status)
    /\ UNCHANGED <<source, bad, counters, down>>

-----------------------------------------------------------------------------
(* Chart requests and the rounds of the refresh.                            *)

Begin(c) ==
    /\ c \in Charts /\ at[c] = "idle"
    /\ Request(c)
    /\ UNCHANGED <<source, bad, counters, down, paused, faults>>

Resting == at["refresh"] = "idle" /\ refresh.phase # "done"

\* Binance counts as down after too many failures in a row.
IsDown == source = "binance" /\ refresh.inARow >= InARow

Ask ==
    /\ Resting /\ refresh.asks # <<>> /\ ~IsDown
    /\ Goto("refresh", "turn")
    /\ UNCHANGED <<source, bad, counters, down, paused, faults>>

\* The refresh goes on as r.
Turns(r) ==
    /\ refresh' = r
    /\ UNCHANGED <<source, bad, counters, down, paused, callers, faults>>

\* The pairs left are not asked this time.
GiveUp ==
    /\ Resting /\ refresh.asks # <<>> /\ IsDown
    /\ Turns([refresh EXCEPT !.asks = <<>>,
                !.failed = @ \o [i \in DOMAIN refresh.asks |->
                                    [batch |-> refresh.asks[i], rejected |-> FALSE]]])

Over == Resting /\ refresh.asks = <<>>

\* What failed is asked once more after the rest.
AskAgain ==
    /\ Over /\ refresh.phase = "first" /\ refresh.failed # <<>>
    /\ Turns([refresh EXCEPT !.phase = "again", !.failed = <<>>, !.inARow = 0,
                !.asks = [i \in DOMAIN refresh.failed |-> refresh.failed[i].batch]])

\* What failed again: the parts to narrow, those of a part just halved first.
Narrowing ==
    /\ Over /\ refresh.phase \in {"again", "narrow"} /\ refresh.failed # <<>>
    /\ Turns([refresh EXCEPT !.phase = "narrow", !.failed = <<>>, !.parts = refresh.failed \o @])

HalvesApart(batch) ==
    LET half == Len(batch) \div 2
    IN  <<SubSeq(batch, 1, half), SubSeq(batch, half + 2, Len(batch))>>
Halves(batch) ==
    LET half == Len(batch) \div 2
    IN  <<SubSeq(batch, 1, half), SubSeq(batch, half + 1, Len(batch))>>

NarrowOn(r, part) ==
    IF ~part.rejected THEN [r EXCEPT !.unanswered = @ \cup ToSet(part.batch)]
    ELSE [r EXCEPT !.asks = Halves(part.batch)]

\* A refused part is halved down to the symbols the source refuses; the others, and
\* what Binance did not answer, keep what they had.
Narrowed(r, part) ==
    CASE ~part.rejected -> [r EXCEPT !.unanswered = @ \cup ToSet(part.batch)]
      [] part.rejected /\ Len(part.batch) = 1 -> [r EXCEPT !.refused = @ \cup ToSet(part.batch)]
      [] OTHER -> [r EXCEPT !.asks = Halves(part.batch)]

Narrow ==
    /\ Over /\ refresh.phase = "narrow" /\ refresh.failed = <<>> /\ refresh.parts # <<>>
    /\ Turns(Narrowed([refresh EXCEPT !.parts = Tail(@)], Head(refresh.parts)))

\* The refresh returns what it got, or raises when it got nothing.
Finish ==
    /\ Over /\ refresh.failed = <<>> /\ refresh.parts = <<>>
    /\ Turns([refresh EXCEPT !.phase = "done"])

-----------------------------------------------------------------------------
(* Time, and the specification.                                             *)

\* The counters at the turn of the window.  Those of the last one that no hit is to be
\* counted in any more are left out: nothing reads them.
Turned(counts) ==
    [k \in Keys |->
        [now |-> 0,
         before |-> IF \E c \in Callers : Hitting(c) /\ read[c] # "unread" /\ KeyOf(c) = k
                      THEN counts[k]["now"] ELSE 0]]

\* The window turns.  A Redis call is shorter than a window (its socket timeout).
WindowTurns ==
    /\ \A c \in Callers : Hitting(c) => read[c] # "before"
    /\ used' = Turned(used) /\ renewed' = {}
    /\ admitted' = Turned(admitted) /\ expired' = {}
    /\ read' = [c \in Callers |-> IF read[c] = "unread" THEN "unread" ELSE "before"]
    /\ UNCHANGED <<source, bad, down, paused, at, attempt, refresh, faults>>

\* EXPIRE: a counter outlasts its window by the second more and what was left of it at
\* its last hit, shorter than a Redis call may take.  A late hit then counts from 0.
CounterExpires(k) ==
    /\ used[k]["before"] > 0 /\ k \notin renewed
    /\ used' = [used EXCEPT ![k]["before"] = 0]
    /\ expired' = expired \cup {k}
    /\ UNCHANGED <<source, bad, renewed, down, paused, callers, refresh, admitted, faults>>

RedisAsked ==
    /\ down
    /\ down' = FALSE
    /\ UNCHANGED <<source, bad, counters, paused, callers, refresh, faults>>

PauseOver ==
    /\ paused
    /\ paused' = FALSE
    /\ UNCHANGED <<source, bad, counters, down, callers, refresh, faults>>

Step(c) ==
    \/ Begin(c)
    \/ ReadClock(c) \/ HitUncounted(c) \/ Count(c) \/ HitFails(c) \/ Woken(c)
    \/ Resent(c) \/ BackedOff(c) \/ Answered(c)

Rounds == Ask \/ GiveUp \/ AskAgain \/ Narrowing \/ Narrow \/ Finish
Goes == (\E c \in Callers : Step(c)) \/ Rounds
Next == Goes \/ WindowTurns \/ (\E k \in Keys : CounterExpires(k)) \/ RedisAsked \/ PauseOver

\* A task that can go on is not left waiting for ever, and windows turn; nothing makes
\* Redis come back or a pause end.
Fairness == WF_vars(Goes) /\ WF_vars(WindowTurns)

Spec == Init /\ [][Next]_vars /\ Fairness

-----------------------------------------------------------------------------
(* Properties.                                                              *)

Sequences(s) == UNION {ToSet(s[i]) : i \in DOMAIN s}
PartsOf(s) == [i \in DOMAIN s |-> s[i].batch]

TypeOK ==
    /\ source \in {"alpaca", "binance"} /\ bad \subseteq Doubtful
    /\ used \in [Keys -> [Windows -> Nat]] /\ admitted \in [Keys -> [Windows -> Nat]]
    /\ renewed \subseteq Keys /\ expired \subseteq Keys
    /\ down \in BOOLEAN /\ paused \in BOOLEAN
    /\ at \in [Callers -> {"idle", "turn", "turn later", "spend", "spend later", "spend again",
                           "sent", "backoff", "done"}]
    /\ read \in [Callers -> Reads]
    /\ attempt \in [Callers -> 0 .. Attempts]
    /\ refresh.phase \in {"first", "again", "narrow", "done"}

\* Counting lets through at most the limit in a window, for the whole budget and for the
\* share of the refresh, whoever hits at once and in whichever window a hit is counted
\* (RateLimiter.hit: the count is read and added to in one command).  The one exception:
\* where the counter expired before a hit that read its clock before the turn, the late
\* hits of that window begin again, and pass once more up to the limit and never twice.
WithinBudget ==
    \A k \in Keys : LimitOf(k) > 0 =>
        /\ admitted[k]["now"] <= LimitOf(k)
        /\ admitted[k]["before"] <= IF k \in expired THEN 2 * LimitOf(k) ELSE LimitOf(k)

\* The batches that have no outcome yet.
Left(r) == r.asks \o PartsOf(r.failed) \o PartsOf(r.parts)
Outcomes(r) == <<Sequences(Left(r)), r.answered, r.refused, r.unanswered>>

\* A refresh loses no stock and asks for none twice at a time: each is left to ask, or
\* failed, or ended in one of three ways; at the end each stock has its outcome
\* (_in_batches, _narrow and _daily_round through every failure).
BatchesAddUp ==
    /\ \A i \in DOMAIN Left(refresh) : IsInjective(Left(refresh)[i])
    /\ \A i, j \in DOMAIN Left(refresh) :
           i # j => ToSet(Left(refresh)[i]) \cap ToSet(Left(refresh)[j]) = {}
    /\ UNION ToSet(Outcomes(refresh)) = Symbols
    /\ \A i, j \in 1 .. 4 : i # j => Outcomes(refresh)[i] \cap Outcomes(refresh)[j] = {}
    /\ refresh.phase = "done" => Left(refresh) = <<>>

\* One bad symbol costs no other: only the symbols a source refuses go without, and the
\* only ones that get no answer are of requests that failed for another reason.
OnlyTheBadAreRefused == refresh.refused \subseteq bad /\ refresh.answered \cap bad = {}

\* A request of a source ends, and so does a refresh: a turn is waited for no longer than
\* a window, a request is sent and split finitely often (spend, request_with_retry, _narrow).
EveryCallEnds == <>((\A c \in Charts : at[c] = "done") /\ refresh.phase = "done")

\* A refresh accounts for its stocks: each is asked for in one batch at a time until it
\* is answered, refused or given up, and none is refused for another (alpaca.py, _narrow).
StocksAreAccountedFor == BatchesAddUp /\ OnlyTheBadAreRefused
=============================================================================
