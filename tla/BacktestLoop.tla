---------------------------- MODULE BacktestLoop ----------------------------
(***************************************************************************)
(* The loop of the backtest (engine/loop.py): one pass over the candles    *)
(* with at most one position.  On each row a pending order is filled, the  *)
(* stop of the position is checked, a change of the signal is decided, the *)
(* position is marked and the drawdown limit is checked, in that order.    *)
(* Prices, fractions and the capital are fixed-point numbers: Unit is 1.   *)
(***************************************************************************)
EXTENDS Integers, Sequences

CONSTANTS Settings,   \* the settings a run may have
          Candles,    \* the candles a row may have
          MaxRows,    \* how many rows a run may have
          Unit,       \* the fixed-point 1
          None        \* no stop, no order, no limit

Sides == {-1, 0, 1}
Fills == {"next_open", "signal_close"}
Reasons == {"signal", "stop", "gap", "end", "ruin", "drawdown"}

ASSUME UnitAssumption == Unit \in Nat \ {0}
ASSUME RowsAssumption == MaxRows \in Nat
ASSUME NoneAssumption == None \notin Int

\* What Settings may hold.  A fraction of a stop lies between 0 and 1; a slippage may be
\* 100 %, which enters a short at a price of 0, or more, which enters it below 0.
Settable == [fill : Fills, stop_loss : {None} \cup (1..Unit - 1),
             drawdown_stop : {None} \cup (1..Unit - 1),
             fee : Nat, slippage : Nat]

\* What read() lets through: prices above 0.  A low above the open is not refused.
Readable == [open : Nat \ {0}, high : Nat \ {0}, low : Nat \ {0}, close : Nat \ {0}]

ASSUME SettingsAssumption == Settings \subseteq Settable
ASSUME CandlesAssumption == Candles \subseteq Readable

Scaled(value, factor) == (value * factor) \div Unit
Ratio(value, to) ==
  IF to > 0 THEN (value * Unit) \div to ELSE (0 - value * Unit) \div (0 - to)

\* The fixed-point prices are fine enough: no fill rounds to a price of 0.
ASSUME PrecisionAssumption ==
  \A c \in Candles, s \in Settings :
    \A factor \in {Unit - s.slippage, Unit + s.slippage} \ {0} :
      Scaled(c.open, factor) # 0 /\ Scaled(c.close, factor) # 0

VARIABLES
  settings,   \* the settings of this run
  rows,       \* how many candles it has
  row,        \* the current one, from 0
  phase,      \* the next step of the loop
  candle,     \* the candle of the row
  signals,    \* the signals read so far, as a sequence
  pending,    \* a next_open order
  book,       \* the position and the capital: see Flat
  peak,       \* the highest equity recorded so far
  position,   \* what the row recorded
  equity,
  closed      \* the last closed trade

vars == <<settings, rows, row, phase, candle, signals, pending, book, peak,
          position, equity, closed>>

(***************************************************************************)
(* The position and its costs.                                             *)
(***************************************************************************)
NoTrade == [signal_row |-> 0, entry_row |-> 0, row |-> 0, side |-> 0, reason |-> None]

Flat(capital) == [side |-> 0, signal_row |-> 0, entry_row |-> 0,
                  entry_price |-> Unit, stop |-> None, capital |-> capital,
                  halted |-> FALSE]

\* What a trade of side returns whose entry was at the given price.
Return(side, entry, price) ==
  LET exit   == Scaled(price, Unit - side * settings.slippage)
      growth == Ratio(exit, entry)
  IN  side * (growth - Unit) - Scaled(settings.fee, Unit + growth)

\* _close: the capital after the trade, which a return of -1 or less ruins.
Closed(b, price) ==
  LET result == Return(b.side, b.entry_price, price)
      ruined == result <= -Unit
  IN  [b EXCEPT !.side = 0, !.stop = None,
                !.capital = IF ruined THEN 0 ELSE Scaled(b.capital, Unit + result),
                !.halted = b.halted \/ ruined]

Trade(b, at, reason) ==
  [signal_row |-> b.signal_row, entry_row |-> b.entry_row, row |-> at,
   side |-> b.side, reason |-> reason]

\* _open
Opened(b, at, signal_row, price, side) ==
  LET entry == Scaled(price, Unit + side * settings.slippage)
  IN  [b EXCEPT !.side = side, !.signal_row = signal_row, !.entry_row = at,
                !.entry_price = entry,
                !.stop = IF settings.stop_loss = None THEN None
                         ELSE Scaled(entry, Unit - side * settings.stop_loss)]

\* _drawn_down
DrawnDown(value, top) ==
  /\ settings.drawdown_stop # None
  /\ value <= Scaled(top, Unit - settings.drawdown_stop)

\* _beyond: touching counts.
Beyond(side, price, level) == IF side > 0 THEN price <= level ELSE price >= level


(***************************************************************************)
(* _fill: moves the position to the signal at the price, opening only      *)
(* before the row end.  A signal_close fill opens nothing with a capital   *)
(* at the drawdown level already.                                          *)
(***************************************************************************)
ClosesAt(b, signal) == b.side # 0 /\ b.side # signal

OpensUnlessHeld(b, signal) == signal # 0 /\ b.side = 0
OpensAt(b, signal) ==
  /\ signal # 0 /\ b.side = 0 /\ ~b.halted
  /\ settings.fill = "next_open" \/ ~DrawnDown(b.capital, peak)

Filled(b, at, signal_row, price, signal, end) ==
  LET left == IF ClosesAt(b, signal) THEN Closed(b, price) ELSE b
  IN  IF at < end /\ OpensAt(left, signal)
        THEN Opened(left, at, signal_row, price, signal) ELSE left

LastRow == rows - 1

Init ==
  /\ settings \in Settings
  /\ rows \in 0..MaxRows
  /\ row = 0
  /\ phase = "row"
  /\ candle \in Candles
  /\ signals = <<>>
  /\ pending = None
  /\ book = Flat(Unit)
  /\ peak = Unit
  /\ position = 0
  /\ equity = Unit
  /\ closed = NoTrade

(***************************************************************************)
(* run, one step of a row at a time.                                       *)
(***************************************************************************)
\* The row's candle is read, and the order decided on the row before is filled
\* at its open.
Fill ==
  /\ phase = "row" /\ row < rows /\ ~book.halted
  /\ \E c \in Candles, signal \in Sides :
       /\ candle' = c
       /\ signals' = Append(signals, signal)
       /\ IF pending = None
            THEN UNCHANGED <<book, closed>>
            ELSE /\ book' = Filled(book, row, row - 1, c.open, pending, rows)
                 /\ closed' = IF ClosesAt(book, pending)
                                THEN Trade(book, row, "signal") ELSE closed
  /\ pending' = None
  /\ phase' = "stop"
  /\ UNCHANGED <<settings, rows, row, peak, position, equity>>

\* Dividing by the entry price of a short that was entered at 0 raises.
Worthless == book.side # 0 /\ book.entry_price = 0

\* _check_stop: a gap at the open of a later row, or the level touched.
Extreme == IF book.side > 0 THEN candle.low ELSE candle.high
Gapped == row > book.entry_row /\ Beyond(book.side, candle.open, book.stop)
TouchedLater == row > book.entry_row /\ Beyond(book.side, Extreme, book.stop)
Touched == Beyond(book.side, Extreme, book.stop)

Stops == book.stop # None /\ (Gapped \/ Touched)

CheckStop ==
  /\ phase = "stop" /\ ~(Stops /\ Worthless)
  /\ IF Stops
       THEN /\ book' = Closed(book, IF Gapped THEN candle.open ELSE book.stop)
            /\ closed' = Trade(book, row, IF Gapped THEN "gap" ELSE "stop")
       ELSE UNCHANGED <<book, closed>>
  /\ phase' = "decide"
  /\ UNCHANGED <<settings, rows, row, candle, signals, pending, peak, position, equity>>

\* _decide: the first row only sets the starting signal; a change is left for the
\* next open or filled at this close, which opens nothing on the last row.
DiffersFromHeld(signal) == row > 0 /\ signal # book.side
IsChange(signal) == row > 0 /\ signal # signals[row]

Decide ==
  /\ phase = "decide"
  /\ LET signal == signals[row + 1]
     IN  IF ~IsChange(signal)
           THEN UNCHANGED <<pending, book, closed>>
         ELSE IF settings.fill = "next_open"
           THEN pending' = signal /\ UNCHANGED <<book, closed>>
         ELSE /\ book' = Filled(book, row, row, candle.close, signal, LastRow)
              /\ closed' = IF ClosesAt(book, signal)
                             THEN Trade(book, row, "signal") ELSE closed
              /\ UNCHANGED pending
  /\ phase' = "mark"
  /\ UNCHANGED <<settings, rows, row, candle, signals, peak, position, equity>>

\* _mark: the position at the row's close, its exit costs not paid yet; at or
\* below 0 it is ruined.
Marked ==
  IF book.side = 0 THEN book.capital
  ELSE Scaled(book.capital,
              Unit + book.side * (Ratio(candle.close, book.entry_price) - Unit)
                - settings.fee)

Mark ==
  /\ phase = "mark" /\ ~Worthless
  /\ LET ruined == book.side # 0 /\ Marked <= 0
     IN  /\ book' = IF ruined
                      THEN [Closed(book, candle.close) EXCEPT !.capital = 0, !.halted = TRUE]
                      ELSE book
         /\ closed' = IF ruined THEN Trade(book, row, "ruin") ELSE closed
         /\ position' = IF ruined THEN 0 ELSE book.side
         /\ equity' = IF ruined THEN 0 ELSE Marked
  /\ phase' = "drawdown"
  /\ UNCHANGED <<settings, rows, row, candle, signals, pending, peak>>

\* A ZeroDivisionError ends the run without a result: of _close, or of _mark.
Raise ==
  /\ Worthless
  /\ phase = "mark" \/ (phase = "stop" /\ Stops)
  /\ phase' = "raised"
  /\ UNCHANGED <<settings, rows, row, candle, signals, pending, book, peak,
                 position, equity, closed>>

\* _check_drawdown: the first equity at the limit halts the run.
Peak == IF equity > peak THEN equity ELSE peak

CheckDrawdown ==
  /\ phase = "drawdown"
  /\ IF book.halted
       THEN UNCHANGED <<book, closed, peak, position, equity>>
     ELSE IF ~DrawnDown(equity, Peak)
       THEN peak' = Peak /\ UNCHANGED <<book, closed, position, equity>>
     ELSE /\ peak' = Peak
          /\ position' = 0
          /\ IF book.side = 0
               THEN /\ book' = [book EXCEPT !.halted = TRUE]
                    /\ UNCHANGED <<closed, equity>>
               ELSE /\ book' = [Closed(book, candle.close) EXCEPT !.halted = TRUE]
                    /\ closed' = Trade(book, row, "drawdown")
                    /\ equity' = book'.capital
  /\ phase' = "row"
  /\ row' = row + 1
  /\ UNCHANGED <<settings, rows, candle, signals, pending>>

\* A row after the halt: flat, its equity the capital.
SkipRow ==
  /\ phase = "row" /\ row < rows /\ book.halted
  /\ \E signal \in Sides : signals' = Append(signals, signal)
  /\ position' = 0
  /\ equity' = book.capital
  /\ row' = row + 1
  /\ UNCHANGED <<settings, rows, phase, candle, pending, book, peak, closed>>

\* A position still open is closed at the last close.
End ==
  /\ phase = "row" /\ row = rows
  /\ IF book.side = 0
       THEN UNCHANGED <<book, closed, position, equity>>
       ELSE /\ book' = Closed(book, candle.close)
            /\ closed' = Trade(book, LastRow, "end")
            /\ position' = 0
            /\ equity' = book'.capital
  /\ phase' = "done"
  /\ UNCHANGED <<settings, rows, row, candle, signals, pending, peak>>

Next == Fill \/ CheckStop \/ Decide \/ Mark \/ Raise \/ CheckDrawdown \/ SkipRow \/ End

Spec == Init /\ [][Next]_vars

(***************************************************************************)
(* Correctness.                                                            *)
(***************************************************************************)
Recorded == row > 0 /\ phase \in {"row", "done"}

Books == [side : Sides, signal_row : Int, entry_row : Int,
          entry_price : Int, stop : {None} \cup Int, capital : Nat,
          halted : BOOLEAN]

\* Every variable has the type its comment says (the state of Loop), the capital and
\* the equity never below 0.
TypeOK ==
  /\ settings \in Settings
  /\ rows \in 0..MaxRows
  /\ row \in 0..rows
  /\ phase \in {"row", "stop", "decide", "mark", "drawdown", "done", "raised"}
  /\ candle \in Candles
  /\ signals \in Seq(Sides)
  /\ pending \in {None} \cup Sides
  /\ book \in Books
  /\ peak \in Nat
  /\ position \in Sides
  /\ equity \in Nat
  /\ closed \in [signal_row : Int, entry_row : Int, row : Int, side : Sides,
                 reason : {None} \cup Reasons]

\* A position that was entered at 0 does not outlive the row of its entry: the run raises.
EntriesAreDivisors == Worthless => book.entry_row = row /\ phase # "drawdown"

\* The decision in force after the first k signals: the last change since the
\* first signal, which itself decides nothing (rule 1).
Changes(k) == {i \in 2..k : signals[i] # signals[i - 1]}
Decision(k) == IF Changes(k) = {} THEN 0 ELSE signals[k]

\* The decision the row just recorded had to hold: the one of the row before
\* with next_open, its own with signal_close.
Ordered == IF settings.fill = "next_open" THEN row - 1 ELSE row

\* Rules 1 to 6: a row records the position of the decision in force, or none;
\* and none only on the last row, after the halt, or once that very decision's
\* position was stopped: no other row is missed, nothing opens without a change
\* and nothing opens again after a stop.
PositionIsDecided ==
  Recorded =>
    \/ position = Decision(Ordered)
    \/ /\ position = 0
       /\ \/ book.halted
          \/ row = rows
          \/ /\ closed.reason \in {"stop", "gap"}
             /\ closed.side = Decision(Ordered)
             /\ closed.signal_row + 1 \in Changes(Ordered)
             /\ \A i \in Changes(Ordered) : i <= closed.signal_row + 1

\* Rule 4: no position lives through a row that touched its stop: not the row of
\* its entry when it entered at the open, and never a later one.
StopsAreTaken ==
  /\ Recorded /\ phase = "row"
  /\ book.side # 0 /\ book.stop # None
  /\ settings.fill = "next_open" \/ book.entry_row < row - 1
  =>  /\ ~Beyond(book.side, IF book.side > 0 THEN candle.low ELSE candle.high, book.stop)
      /\ book.entry_row < row - 1 => ~Beyond(book.side, candle.open, book.stop)

\* Rules 7 to 9: a run that goes on has recorded no equity at 0, above its peak
\* or at the drawdown limit of it; one that is halted or at its end is flat, and
\* whoever is flat records the capital.
EquitySettles ==
  /\ Recorded /\ ~book.halted /\ phase = "row" =>
       equity <= peak /\ ~DrawnDown(equity, peak)
  /\ book.halted \/ phase = "done" => book.side = 0
  /\ Recorded => (position = 0 <=> book.side = 0)
  /\ Recorded /\ position = 0 => equity = book.capital

\* The loop keeps what the account promises: one position at a time, capital that
\* moves only when a position is closed, and a halt nothing follows.
Account == INSTANCE TradingAccount
  WITH side <- book.side, capital <- book.capital, halted <- book.halted, Start <- Unit

AccountSpec == Account!Spec
=============================================================================
