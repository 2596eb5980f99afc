--------------------------- MODULE Engine_proofs ---------------------------
(***************************************************************************)
(* Proofs about BacktestLoop, for any settings, candles and number of rows, *)
(* and about Signals, for any options, candles and predictions.            *)
(***************************************************************************)
EXTENDS BacktestLoop, Signals, FiniteSetTheorems, WellFoundedInduction, TLAPS

LEMMA ScaledInt == \A v, f \in Int : Scaled(v, f) \in Int
  BY UnitAssumption DEF Scaled

LEMMA ScaledNat == \A v, f \in Nat : Scaled(v, f) \in Nat
<1>1. SUFFICES ASSUME NEW v \in Nat, NEW f \in Nat PROVE Scaled(v, f) \in Nat
  OBVIOUS
<1>2. v * f \in Nat
  BY SMT
<1>3. \A n \in Nat, d \in Nat \ {0} : n \div d \in Nat
  BY SMT
<1> QED BY <1>2, <1>3, UnitAssumption DEF Scaled

LEMMA SettingsFacts ==
  ASSUME settings \in Settings
  PROVE  /\ settings.fill \in Fills
         /\ settings.stop_loss \in {None} \cup (1..Unit - 1)
         /\ settings.drawdown_stop \in {None} \cup (1..Unit - 1)
         /\ settings.fee \in Nat
         /\ settings.slippage \in Nat
  BY SettingsAssumption DEF Settable

LEMMA RatioInt ==
  ASSUME NEW value \in Int, NEW to \in Int, to # 0
  PROVE  Ratio(value, to) \in Int
<1>1. \A n \in Int, d \in Nat \ {0} : n \div d \in Int
  BY SMT
<1>2. value * Unit \in Int /\ 0 - value * Unit \in Int
  BY UnitAssumption
<1>3. CASE to > 0
  <2>1. to \in Nat \ {0}
    BY <1>3
  <2> QED BY <1>1, <1>2, <1>3, <2>1 DEF Ratio
<1>4. CASE ~(to > 0)
  <2>1. 0 - to \in Nat \ {0}
    BY <1>4
  <2> QED BY <1>1, <1>2, <1>4, <2>1 DEF Ratio
<1> QED BY <1>3, <1>4

LEMMA ReturnInt ==
  ASSUME settings \in Settings, NEW side \in Sides, NEW entry \in Int, entry # 0,
         NEW price \in Int
  PROVE  Return(side, entry, price) \in Int
<1> DEFINE factor == Unit - side * settings.slippage
           exit   == Scaled(price, factor)
           growth == Ratio(exit, entry)
           fees   == Scaled(settings.fee, Unit + growth)
<1>1. factor \in Int
  BY SettingsFacts, UnitAssumption DEF Sides
<1>2. exit \in Int
  BY <1>1, ScaledInt
<1>5. growth \in Int
  <2> HIDE DEF exit
  <2> QED BY <1>2, RatioInt
<1>6. fees \in Int
  <2> HIDE DEF growth
  <2>1. Unit + growth \in Int /\ settings.fee \in Int
    BY <1>5, SettingsFacts, UnitAssumption
  <2> QED BY <2>1, ScaledInt
<1>7. Return(side, entry, price) = side * (growth - Unit) - fees
  BY DEF Return
<1> HIDE DEF growth, fees
<1> QED BY <1>5, <1>6, <1>7, UnitAssumption DEF Sides

\* _close leaves no position.
LEMMA ClosedIsFlat ==
  ASSUME NEW b \in Books, NEW price
  PROVE  /\ Closed(b, price).side = 0
         /\ Closed(b, price).stop = None
         /\ Closed(b, price).entry_price = b.entry_price
  BY DEF Closed, Books

\* And a capital that is not negative, of a position that was entered at another price than 0.
LEMMA ClosedFacts ==
  ASSUME settings \in Settings, NEW b \in Books, NEW price \in Int, b.entry_price # 0
  PROVE  /\ Closed(b, price) \in Books
         /\ Closed(b, price).side = 0
         /\ Closed(b, price).stop = None
<1> DEFINE result == Return(b.side, b.entry_price, price)
           capital == IF result <= -Unit THEN 0 ELSE Scaled(b.capital, Unit + result)
<1>1. result \in Int
  BY ReturnInt DEF Books
<1>2. capital \in Nat
  <2>1. CASE result <= -Unit
    BY <2>1
  <2>2. CASE ~(result <= -Unit)
    <3>1. Unit + result \in Nat
      BY <1>1, <2>2, UnitAssumption
    <3> QED BY <2>2, <3>1, ScaledNat DEF Books
  <2> QED BY <2>1, <2>2
<1>3. Closed(b, price) =
        [b EXCEPT !.side = 0, !.stop = None, !.capital = capital,
                  !.halted = b.halted \/ result <= -Unit]
  BY DEF Closed
<1> HIDE DEF capital, result
<1> QED BY <1>2, <1>3 DEF Books, Sides

Prices == UNION {{c.open, c.close} : c \in Candles}

\* _open enters on the side of the signal and leaves the capital alone.
LEMMA OpenedFacts ==
  ASSUME settings \in Settings, NEW b \in Books, NEW at \in Int, NEW from \in Int,
         NEW price \in Prices, NEW side \in {-1, 1}
  PROVE  /\ Opened(b, at, from, price, side) \in Books
         /\ Opened(b, at, from, price, side).side = side
         /\ Opened(b, at, from, price, side).entry_row = at
         /\ Opened(b, at, from, price, side).signal_row = from
         /\ Opened(b, at, from, price, side).capital = b.capital
         /\ Opened(b, at, from, price, side).halted = b.halted
<1> DEFINE entry == Scaled(price, Unit + side * settings.slippage)
           stop == IF settings.stop_loss = None THEN None
                   ELSE Scaled(entry, Unit - side * settings.stop_loss)
<1>1. entry \in Int
  <2>1. PICK c \in Candles : price \in {c.open, c.close}
    BY DEF Prices
  <2>2. price \in Int
    BY <2>1, CandlesAssumption DEF Readable
  <2>3. settings.slippage \in Int
    BY SettingsFacts, UnitAssumption
  <2>4. entry \in Int
    <3>1. Unit + side * settings.slippage \in Int
      BY <2>3, UnitAssumption
    <3> QED BY <2>2, <3>1, ScaledInt
  <2> QED BY <2>4
<1>2. stop \in {None} \cup Int
  <2>1. CASE settings.stop_loss = None
    BY <2>1
  <2>2. CASE settings.stop_loss # None
    <3>1. settings.stop_loss \in Int
      BY <2>2, SettingsFacts, UnitAssumption
    <3>2. Unit - side * settings.stop_loss \in Int
      BY <3>1, UnitAssumption
    <3>3. stop = Scaled(entry, Unit - side * settings.stop_loss)
      BY <2>2
    <3> HIDE DEF entry, stop
    <3>4. \A w \in Int : Scaled(entry, w) \in Int
      BY <1>1, ScaledInt
    <3>5. Scaled(entry, Unit - side * settings.stop_loss) \in Int
      BY <3>2, <3>4, Zenon
    <3> QED BY <3>3, <3>5, Zenon
  <2> QED BY <2>1, <2>2
<1>3. Opened(b, at, from, price, side) =
        [b EXCEPT !.side = side, !.signal_row = from, !.entry_row = at,
                  !.entry_price = entry, !.stop = stop]
  BY DEF Opened
<1> HIDE DEF entry, stop
<1> QED BY <1>1, <1>2, <1>3 DEF Books, Sides

\* _fill either leaves the position as it was, closes it, opens one on the
\* signal's side, or does both.
Outcome(f, b, at, from, price, sign) ==
  \/ f = b /\ ~ClosesAt(b, sign)
  \/ f = Closed(b, price) /\ ClosesAt(b, sign)
  \/ /\ sign # 0 /\ f.side = sign /\ ~f.halted
     /\ f.entry_row = at /\ f.signal_row = from
     /\ \/ b.side = 0 /\ f.capital = b.capital /\ ~b.halted
        \/ ClosesAt(b, sign)

LEMMA FilledFacts ==
  ASSUME settings \in Settings, NEW b \in Books, NEW at \in Int, NEW from \in Int,
         NEW price \in Prices, NEW sign \in Sides, NEW end \in Int, b.entry_price # 0
  PROVE  /\ Filled(b, at, from, price, sign, end) \in Books
         /\ Outcome(Filled(b, at, from, price, sign, end), b, at, from, price, sign)
<1> DEFINE left == IF ClosesAt(b, sign) THEN Closed(b, price) ELSE b
           opens == at < end /\ OpensAt(left, sign)
           f == Filled(b, at, from, price, sign, end)
<1>1. price \in Int
  BY CandlesAssumption DEF Prices, Readable
<1>2. left \in Books
  BY <1>1, ClosedFacts
<1>3. f = IF opens THEN Opened(left, at, from, price, sign) ELSE left
  BY DEF Filled
<1>4. CASE ~opens
  BY <1>2, <1>3, <1>4 DEF Outcome
<1>5. CASE opens
  <2>1. sign \in {-1, 1} /\ left.side = 0 /\ ~left.halted
    BY <1>5 DEF OpensAt, Sides
  <2>2. /\ f \in Books /\ f.side = sign /\ f.entry_row = at /\ f.signal_row = from
        /\ f.capital = left.capital /\ f.halted = left.halted
    <3> HIDE DEF left, opens
    <3> QED BY <1>2, <1>3, <1>5, <2>1, OpenedFacts
  <2>3. Outcome(f, b, at, from, price, sign)
    <3> HIDE DEF f, opens
    <3> QED BY <2>1, <2>2 DEF ClosesAt, Outcome
  <2> QED BY <2>2, <2>3
<1> QED BY <1>4, <1>5

LEMMA MarkedInt ==
  ASSUME TypeOK, ~Worthless
  PROVE  /\ Marked \in Int
         /\ book.side = 0 => Marked = book.capital
<1> DEFINE change == Ratio(candle.close, book.entry_price) - Unit
           factor == Unit + book.side * change - settings.fee
<1>1. book \in Books /\ candle.close \in Int /\ settings.fee \in Int
  BY SettingsFacts, CandlesAssumption DEF TypeOK, Readable
<1>4. book.side # 0 => change \in Int
  <2> SUFFICES ASSUME book.side # 0 PROVE change \in Int
    OBVIOUS
  <2>1. book.entry_price \in Int /\ book.entry_price # 0
    BY <1>1 DEF Books, Worthless
  <2>2. Ratio(candle.close, book.entry_price) \in Int
    BY <1>1, <2>1, RatioInt
  <2> QED BY <2>2, UnitAssumption
<1>5. book.side # 0 => factor \in Int
  <2> HIDE DEF change
  <2> QED BY <1>1, <1>4, UnitAssumption DEF Books, Sides
<1>6. book.side # 0 => Scaled(book.capital, factor) \in Int
  <2> HIDE DEF factor
  <2> QED BY <1>1, <1>5, ScaledInt DEF Books
<1>7. Marked = IF book.side = 0 THEN book.capital ELSE Scaled(book.capital, factor)
  BY DEF Marked
<1> QED BY <1>1, <1>6, <1>7 DEF Books

(***************************************************************************)
(* The inductive invariant.                                                *)
(***************************************************************************)
\* Where the loop stands: the signals it has read, and the row it is at.
AtRow ==
  /\ Len(signals) = IF phase \in {"row", "done"} THEN row ELSE row + 1
  /\ phase = "done" => row = rows
  /\ phase \notin {"row", "done"} => row < rows

\* A position was entered at this row or an earlier one, and never after a halt; at a
\* price of 0 in this row only, by an order filled at its open or at its close.
InOrder ==
  /\ book.halted => book.side = 0
  /\ book.stop # None => book.side # 0
  /\ book.side # 0 => book.entry_row <= row
  /\ book.side # 0 /\ phase = "row" => book.entry_row < row
  /\ book.entry_price = 0 =>
       /\ book.side # 0 /\ book.entry_row = row
       /\ phase \in {"mark", "raised"} \/ (phase \in {"stop", "decide"} /\ settings.fill = "next_open")
  /\ pending # None => settings.fill = "next_open"

\* What Mark records.
Recording ==
  phase = "drawdown" =>
    /\ position = book.side
    /\ position = 0 => equity = book.capital

\* The stop of a position that was held at or since the open of row at was not
\* reached on it.
StopClear(at) ==
  /\ book.side # 0 /\ book.stop # None
  /\ settings.fill = "next_open" \/ book.entry_row < at
  => /\ ~Beyond(book.side, Extreme, book.stop)
     /\ book.entry_row < at => ~Beyond(book.side, candle.open, book.stop)

StopsChecked ==
  /\ phase \in {"decide", "mark", "drawdown"} => StopClear(row)
  /\ phase = "row" /\ row > 0 => StopClear(row - 1)

IInv == TypeOK /\ AtRow /\ InOrder /\ Recording /\ StopsChecked /\ EquitySettles

\* Where a position is closed or marked it was entered at another price than 0.
LEMMA Divides ==
  ASSUME IInv, \/ phase \in {"row", "drawdown"}
               \/ phase = "decide" /\ settings.fill # "next_open"
               \/ ~Worthless
  PROVE  book.entry_price # 0
  BY DEF IInv, InOrder, Worthless

\* What the candle and the costs are.
LEMMA CandleFacts ==
  ASSUME NEW c \in Candles
  PROVE  /\ c.open \in Prices /\ c.close \in Prices
         /\ c.open \in Int /\ c.high \in Int /\ c.low \in Int /\ c.close \in Int
  BY CandlesAssumption DEF Prices, Readable

LEMMA TradeFacts ==
  ASSUME NEW b \in Books, NEW at \in Int, NEW reason \in Reasons
  PROVE  Trade(b, at, reason) \in
           [signal_row : Int, entry_row : Int, row : Int, side : Sides,
            reason : {None} \cup Reasons]
  BY DEF Trade, Books

LEMMA InitIInv == Init => IInv
<1> SUFFICES ASSUME Init PROVE IInv
  OBVIOUS
<1>1. TypeOK
  <2>1. Flat(Unit) \in Books /\ Unit \in Nat
    BY UnitAssumption DEF Flat, Books, Sides
  <2>2. NoTrade \in [signal_row : Int, entry_row : Int, row : Int, side : Sides,
                     reason : {None} \cup Reasons]
    BY DEF NoTrade, Sides
  <2> QED BY <2>1, <2>2, RowsAssumption DEF Init, TypeOK, Sides
<1>2. book.side = 0 /\ book.halted = FALSE /\ book.stop = None /\ book.entry_price # 0
  BY UnitAssumption DEF Init, Flat
<1> QED BY <1>1, <1>2 DEF Init, IInv, AtRow, InOrder, Recording, StopsChecked,
           StopClear, EquitySettles, Recorded

LEMMA FillKeeps == IInv /\ Fill => IInv'
<1> SUFFICES ASSUME IInv, Fill PROVE IInv'
  OBVIOUS
<1>1. PICK c \in Candles, sign \in Sides :
        /\ candle' = c
        /\ signals' = Append(signals, sign)
        /\ IF pending = None
             THEN UNCHANGED <<book, closed>>
             ELSE /\ book' = Filled(book, row, row - 1, c.open, pending, rows)
                  /\ closed' = IF ClosesAt(book, pending)
                                 THEN Trade(book, row, "signal") ELSE closed
  BY DEF Fill
<1>2. TypeOK /\ book \in Books /\ row \in Int /\ rows \in Int
  BY RowsAssumption DEF IInv, TypeOK
<1>3. /\ book' \in Books
      /\ book'.halted => book'.side = 0
      /\ book'.stop # None => book'.side # 0
      /\ book'.side # 0 => book'.entry_row <= row
      /\ book'.entry_price = 0 =>
           book'.side # 0 /\ book'.entry_row = row /\ settings.fill = "next_open"
  <2>0. book.entry_price # 0
    BY Divides DEF Fill
  <2>1. CASE pending = None
    BY <1>1, <1>2, <2>0, <2>1 DEF IInv, InOrder
  <2>2. CASE pending # None
    <3>1. pending \in Sides
      BY <1>2, <2>2 DEF TypeOK
    <3>2. book' = Filled(book, row, row - 1, c.open, pending, rows)
      BY <1>1, <2>2
    <3>3. /\ book' \in Books
          /\ \/ book' = book
             \/ book' = Closed(book, c.open)
             \/ ~book'.halted /\ book'.entry_row = row /\ book'.side # 0
      <4>1. c.open \in Prices /\ row - 1 \in Int /\ settings \in Settings
        BY <1>2, CandleFacts DEF TypeOK
      <4>2. book' \in Books /\ Outcome(book', book, row, row - 1, c.open, pending)
        BY <1>2, <2>0, <3>1, <3>2, <4>1, FilledFacts
      <4> QED BY <4>2 DEF Outcome
    <3>4. /\ Closed(book, c.open).side = 0 /\ Closed(book, c.open).stop = None
          /\ Closed(book, c.open).entry_price # 0
      BY <1>2, <2>0, ClosedIsFlat
    <3> QED BY <1>2, <2>0, <2>2, <3>3, <3>4 DEF IInv, InOrder
  <2> QED BY <2>1, <2>2
<1>4. closed' \in [signal_row : Int, entry_row : Int, row : Int, side : Sides,
                   reason : {None} \cup Reasons]
  <2>1. Trade(book, row, "signal") \in
          [signal_row : Int, entry_row : Int, row : Int, side : Sides,
           reason : {None} \cup Reasons]
    BY <1>2, TradeFacts DEF Reasons
  <2> QED BY <1>1, <1>2, <2>1 DEF TypeOK
<1>5. TypeOK'
  BY <1>1, <1>2, <1>3, <1>4 DEF TypeOK, Fill
<1>6. AtRow'
  BY <1>1, <1>2 DEF IInv, AtRow, Fill, TypeOK
<1>7. InOrder'
  BY <1>3 DEF InOrder, Fill
<1> QED BY <1>3, <1>5, <1>6, <1>7 DEF IInv, Fill, Recording, StopsChecked, EquitySettles,
           Recorded
LEMMA CheckStopKeeps == IInv /\ CheckStop => IInv'
<1> SUFFICES ASSUME IInv, CheckStop PROVE IInv'
  OBVIOUS
<1> DEFINE exits == book.stop # None /\ (Gapped \/ Touched)
           price == IF Gapped THEN candle.open ELSE book.stop
           reason == IF Gapped THEN "gap" ELSE "stop"
<1>1. /\ IF exits THEN book' = Closed(book, price) /\ closed' = Trade(book, row, reason)
                  ELSE UNCHANGED <<book, closed>>
      /\ phase = "stop" /\ phase' = "decide"
      /\ UNCHANGED <<settings, rows, row, candle, signals, pending, peak, position, equity>>
  BY DEF CheckStop, Stops
<1>2. TypeOK /\ book \in Books /\ row \in Int /\ settings \in Settings
  BY RowsAssumption DEF IInv, TypeOK
<1>3. CASE exits
  <2>0. book.entry_price # 0
    BY <1>3, Divides DEF CheckStop, Stops
  <2>1. book.stop \in Int
    BY <1>2, <1>3 DEF Books
  <2>2. price \in Int
    BY <1>2, <2>1, CandleFacts DEF TypeOK
  <2>3. book' \in Books /\ book'.side = 0 /\ book'.stop = None /\ book'.entry_price # 0
    <3> HIDE DEF exits, price
    <3> QED BY <1>1, <1>2, <1>3, <2>0, <2>2, ClosedFacts, ClosedIsFlat
  <2>4. closed' \in [signal_row : Int, entry_row : Int, row : Int, side : Sides,
                     reason : {None} \cup Reasons]
    <3>1. reason \in Reasons
      BY DEF Reasons
    <3> HIDE DEF exits, reason
    <3> QED BY <1>1, <1>2, <1>3, <3>1, TradeFacts
  <2>5. TypeOK'
    BY <1>1, <1>2, <2>3, <2>4 DEF TypeOK
  <2> QED BY <1>1, <2>3, <2>5 DEF IInv, AtRow, InOrder, Recording, StopsChecked, StopClear,
             EquitySettles, Recorded
<1>4. CASE ~exits
  <2>1. UNCHANGED <<book, closed>>
    BY <1>1, <1>4
  <2>2. TypeOK'
    BY <1>1, <1>2, <2>1 DEF TypeOK
  <2>3. StopClear(row)
    BY <1>2, <1>4 DEF StopClear, Gapped, Touched, IInv, InOrder, Books
  <2>4. StopClear(row)'
    BY <1>1, <2>1, <2>3 DEF StopClear, Extreme, Beyond
  <2> QED BY <1>1, <2>1, <2>2, <2>4 DEF IInv, AtRow, InOrder, Recording, StopsChecked,
             EquitySettles, Recorded
<1> QED BY <1>3, <1>4

LEMMA DecideKeeps == IInv /\ Decide => IInv'
<1> SUFFICES ASSUME IInv, Decide PROVE IInv'
  OBVIOUS
<1> DEFINE sign == signals[row + 1]
<1>1. /\ \/ UNCHANGED <<pending, book, closed>>
         \/ pending' = sign /\ settings.fill = "next_open" /\ UNCHANGED <<book, closed>>
         \/ /\ settings.fill # "next_open"
            /\ book' = Filled(book, row, row, candle.close, sign, LastRow)
            /\ closed' = IF ClosesAt(book, sign) THEN Trade(book, row, "signal") ELSE closed
            /\ UNCHANGED pending
      /\ phase = "decide" /\ phase' = "mark"
      /\ UNCHANGED <<settings, rows, row, candle, signals, peak, position, equity>>
  BY DEF Decide
<1>2. TypeOK /\ book \in Books /\ row \in Nat /\ settings \in Settings /\ LastRow \in Int
  BY RowsAssumption DEF IInv, TypeOK, LastRow
<1>3. sign \in Sides
  BY <1>1, <1>2 DEF IInv, AtRow, TypeOK
<1>4. CASE UNCHANGED book /\ UNCHANGED closed
  <2>1. pending' \in {None} \cup Sides
    BY <1>1, <1>2, <1>3 DEF TypeOK
  <2>2. TypeOK'
    BY <1>1, <1>2, <1>4, <2>1 DEF TypeOK
  <2>3. StopClear(row)'
    BY <1>1, <1>4 DEF IInv, StopsChecked, StopClear, Extreme, Beyond
  <2>4. InOrder'
    BY <1>1, <1>4 DEF IInv, InOrder
  <2> QED BY <1>1, <1>4, <2>2, <2>3, <2>4 DEF IInv, AtRow, InOrder, Recording, StopsChecked,
             EquitySettles, Recorded
<1>5. CASE /\ settings.fill # "next_open"
           /\ book' = Filled(book, row, row, candle.close, sign, LastRow)
           /\ closed' = IF ClosesAt(book, sign) THEN Trade(book, row, "signal") ELSE closed
           /\ UNCHANGED pending
  <2>0. book.entry_price # 0
    BY <1>1, <1>5, Divides
  <2>1. candle.close \in Prices
    BY <1>2, CandleFacts DEF TypeOK
  <2>2. book' \in Books /\ Outcome(book', book, row, row, candle.close, sign)
    <3> HIDE DEF sign
    <3> QED BY <1>2, <1>3, <1>5, <2>0, <2>1, FilledFacts
  <2>3. /\ Closed(book, candle.close).side = 0 /\ Closed(book, candle.close).stop = None
        /\ Closed(book, candle.close).entry_price # 0
    BY <1>2, <2>0, ClosedIsFlat
  <2>4. /\ book'.entry_price = 0 => book'.side # 0 /\ book'.entry_row = row
        /\ book'.halted => book'.side = 0
        /\ book'.stop # None => book'.side # 0
        /\ book'.side # 0 => book'.entry_row <= row
        /\ book' = book \/ book'.side = 0 \/ book'.entry_row = row
    <3> HIDE DEF sign
    <3> QED BY <1>2, <2>0, <2>2, <2>3 DEF Outcome, IInv, InOrder
  <2>5. closed' \in [signal_row : Int, entry_row : Int, row : Int, side : Sides,
                     reason : {None} \cup Reasons]
    <3>1. Trade(book, row, "signal") \in
            [signal_row : Int, entry_row : Int, row : Int, side : Sides,
             reason : {None} \cup Reasons]
      BY <1>2, TradeFacts DEF Reasons
    <3> QED BY <1>2, <1>5, <3>1 DEF TypeOK
  <2>6. TypeOK'
    BY <1>1, <1>2, <1>5, <2>2, <2>5 DEF TypeOK
  <2>7. StopClear(row)'
    <3>1. CASE book' = book
      BY <1>1, <3>1 DEF IInv, StopsChecked, StopClear, Extreme, Beyond
    <3>2. CASE book'.side = 0
      BY <3>2 DEF StopClear
    <3>3. CASE book'.entry_row = row
      BY <1>1, <1>2, <1>5, <3>3 DEF StopClear
    <3> QED BY <2>4, <3>1, <3>2, <3>3
  <2>8. InOrder'
    BY <1>1, <1>5, <2>4 DEF IInv, InOrder
  <2> QED BY <1>1, <2>6, <2>7, <2>8 DEF IInv, AtRow, InOrder, Recording, StopsChecked,
             EquitySettles, Recorded
<1> QED BY <1>1, <1>4, <1>5

LEMMA MarkKeeps == IInv /\ Mark => IInv'
<1> SUFFICES ASSUME IInv, Mark PROVE IInv'
  OBVIOUS
<1> DEFINE ruined == book.side # 0 /\ Marked <= 0
<1>1. /\ IF ruined
           THEN /\ book' = [Closed(book, candle.close) EXCEPT !.capital = 0, !.halted = TRUE]
                /\ closed' = Trade(book, row, "ruin")
                /\ position' = 0 /\ equity' = 0
           ELSE /\ UNCHANGED <<book, closed>>
                /\ position' = book.side /\ equity' = Marked
      /\ phase = "mark" /\ phase' = "drawdown"
      /\ UNCHANGED <<settings, rows, row, candle, signals, pending, peak>>
  BY DEF Mark
<1>2. TypeOK /\ book \in Books /\ row \in Int /\ settings \in Settings
  BY RowsAssumption DEF IInv, TypeOK
<1>5. ~Worthless /\ book.entry_price # 0
  BY Divides DEF Mark
<1>3. CASE ruined
  <2>1. candle.close \in Int
    BY <1>2, CandleFacts DEF TypeOK
  <2>2. /\ Closed(book, candle.close) \in Books
        /\ Closed(book, candle.close).side = 0
        /\ Closed(book, candle.close).stop = None
        /\ Closed(book, candle.close).entry_price # 0
    BY <1>2, <1>5, <2>1, ClosedFacts, ClosedIsFlat
  <2>3. /\ book' \in Books /\ book'.side = 0 /\ book'.capital = 0 /\ book'.stop = None
        /\ book'.entry_price # 0
    <3>1. \A x \in Books :
            LET y == [x EXCEPT !.capital = 0, !.halted = TRUE]
            IN  /\ y \in Books /\ y.side = x.side /\ y.capital = 0 /\ y.stop = x.stop
                /\ y.entry_price = x.entry_price
      BY DEF Books
    <3> QED BY <1>1, <1>3, <2>2, <3>1
  <2>4. closed' \in [signal_row : Int, entry_row : Int, row : Int, side : Sides,
                     reason : {None} \cup Reasons]
    BY <1>1, <1>2, <1>3, TradeFacts DEF Reasons
  <2>5. TypeOK'
    BY <1>1, <1>2, <1>3, <2>3, <2>4 DEF TypeOK, Sides
  <2> QED BY <1>1, <1>3, <2>3, <2>5 DEF IInv, AtRow, InOrder, Recording, StopsChecked,
             StopClear, EquitySettles, Recorded
<1>4. CASE ~ruined
  <2>1. Marked \in Nat /\ (book.side = 0 => Marked = book.capital)
    BY <1>2, <1>4, <1>5, MarkedInt DEF Books
  <2>2. /\ UNCHANGED <<book, closed>>
        /\ position' = book.side /\ equity' = Marked
    BY <1>1, <1>4
  <2>3. TypeOK'
    BY <1>1, <1>2, <2>1, <2>2 DEF TypeOK, Books
  <2>4. StopClear(row)'
    BY <1>1, <2>2 DEF IInv, StopsChecked, StopClear, Extreme, Beyond
  <2> QED BY <1>1, <1>5, <2>1, <2>2, <2>3, <2>4 DEF IInv, AtRow, InOrder, Recording, StopsChecked,
             EquitySettles, Recorded
<1> QED BY <1>3, <1>4

LEMMA CheckDrawdownKeeps == IInv /\ CheckDrawdown => IInv'
<1> SUFFICES ASSUME IInv, CheckDrawdown PROVE IInv'
  OBVIOUS
<1>1. /\ \/ /\ book.halted /\ UNCHANGED <<book, closed, peak, position, equity>>
         \/ /\ ~book.halted /\ ~DrawnDown(equity, Peak) /\ peak' = Peak
            /\ UNCHANGED <<book, closed, position, equity>>
         \/ /\ ~book.halted /\ DrawnDown(equity, Peak) /\ peak' = Peak /\ position' = 0
            /\ \/ /\ book.side = 0
                  /\ book' = [book EXCEPT !.halted = TRUE]
                  /\ UNCHANGED <<closed, equity>>
               \/ /\ book.side # 0
                  /\ book' = [Closed(book, candle.close) EXCEPT !.halted = TRUE]
                  /\ closed' = Trade(book, row, "drawdown")
                  /\ equity' = book'.capital
      /\ phase = "drawdown" /\ phase' = "row" /\ row' = row + 1
      /\ UNCHANGED <<settings, rows, candle, signals, pending>>
  BY DEF CheckDrawdown
<1>2. TypeOK /\ book \in Books /\ row \in Nat /\ rows \in Nat /\ settings \in Settings
  BY RowsAssumption DEF IInv, TypeOK
<1>0. book.entry_price # 0
  BY <1>1, Divides
<1>3. Peak \in Nat /\ equity <= Peak
  BY <1>2 DEF Peak, TypeOK
<1>4. row' \in 0..rows
  BY <1>1, <1>2 DEF IInv, AtRow
<1>5. \A x \in Books : LET y == [x EXCEPT !.halted = TRUE]
                       IN  /\ y \in Books /\ y.side = x.side /\ y.stop = x.stop
                           /\ y.capital = x.capital /\ y.halted
                           /\ y.entry_price = x.entry_price
  BY DEF Books
<1>6. CASE /\ UNCHANGED <<book, closed, position, equity>>
           /\ \/ book.halted /\ peak' = peak
              \/ ~book.halted /\ ~DrawnDown(equity, Peak) /\ peak' = Peak
  <2>1. TypeOK'
    BY <1>1, <1>2, <1>3, <1>4, <1>6 DEF TypeOK
  <2>2. StopClear(row)
    BY <1>1 DEF IInv, StopsChecked
  <2>3. StopClear(row - 1)'
    <3>1. row' - 1 = row
      BY <1>1, <1>2
    <3> QED BY <1>1, <1>6, <2>2, <3>1 DEF StopClear, Extreme, Beyond
  <2>4. EquitySettles'
    <3>1. ~book.halted => equity <= peak' /\ ~DrawnDown(equity, peak')
      BY <1>3, <1>6
    <3> QED BY <1>1, <1>2, <1>6, <3>1
            DEF EquitySettles, Recorded, DrawnDown, Scaled, IInv, InOrder, Recording
  <2>5. AtRow' /\ InOrder' /\ Recording'
    BY <1>0, <1>1, <1>2, <1>6 DEF IInv, AtRow, InOrder, Recording, Books
  <2>6. StopsChecked'
    BY <1>1, <2>3 DEF StopsChecked
  <2> QED BY <2>1, <2>4, <2>5, <2>6 DEF IInv
<1>7. CASE /\ peak' = Peak /\ position' = 0 /\ book.side = 0
           /\ book' = [book EXCEPT !.halted = TRUE]
           /\ UNCHANGED <<closed, equity>>
  <2>1. book' \in Books /\ book'.side = 0 /\ book'.capital = book.capital /\ book'.halted
        /\ book'.stop = book.stop /\ book'.entry_price # 0
    BY <1>0, <1>2, <1>5, <1>7
  <2>2. TypeOK'
    BY <1>1, <1>2, <1>3, <1>4, <1>7, <2>1 DEF TypeOK, Sides
  <2> QED BY <1>1, <1>2, <1>7, <2>1, <2>2 DEF IInv, AtRow, InOrder, Recording, StopsChecked,
             StopClear, EquitySettles, Recorded
<1>8. CASE /\ peak' = Peak /\ position' = 0 /\ book.side # 0
           /\ book' = [Closed(book, candle.close) EXCEPT !.halted = TRUE]
           /\ closed' = Trade(book, row, "drawdown")
           /\ equity' = book'.capital
  <2>1. /\ Closed(book, candle.close) \in Books /\ Closed(book, candle.close).side = 0
        /\ Closed(book, candle.close).stop = None
        /\ Closed(book, candle.close).entry_price # 0
    BY <1>0, <1>2, ClosedFacts, ClosedIsFlat, CandleFacts DEF TypeOK
  <2>2. /\ book' \in Books /\ book'.side = 0 /\ book'.halted /\ book'.stop = None
        /\ book'.entry_price # 0
    BY <1>5, <1>8, <2>1
  <2>3. closed' \in [signal_row : Int, entry_row : Int, row : Int, side : Sides,
                     reason : {None} \cup Reasons]
    BY <1>2, <1>8, TradeFacts DEF Reasons
  <2>4. equity' \in Nat
    BY <1>8, <2>2 DEF Books
  <2>5. TypeOK'
    BY <1>1, <1>2, <1>3, <1>4, <1>8, <2>2, <2>3, <2>4 DEF TypeOK, Sides
  <2> QED BY <1>1, <1>2, <1>8, <2>2, <2>5 DEF IInv, AtRow, InOrder, Recording, StopsChecked,
             StopClear, EquitySettles, Recorded
<1> QED BY <1>1, <1>6, <1>7, <1>8

LEMMA SkipRowKeeps == IInv /\ SkipRow => IInv'
<1> SUFFICES ASSUME IInv, SkipRow PROVE IInv'
  OBVIOUS
<1>1. PICK sign \in Sides : signals' = Append(signals, sign)
  BY DEF SkipRow
<1>2. TypeOK /\ row \in Nat /\ rows \in Nat
  BY RowsAssumption DEF IInv, TypeOK
<1>3. TypeOK'
  BY <1>1, <1>2 DEF TypeOK, SkipRow, Books, Sides
<1>4. book.side = 0
  BY DEF SkipRow, IInv, InOrder
<1>6. book.entry_price # 0
  BY Divides DEF SkipRow
<1>5. AtRow'
  BY <1>1, <1>2 DEF IInv, AtRow, SkipRow, TypeOK
<1> QED BY <1>2, <1>3, <1>4, <1>5, <1>6 DEF SkipRow, IInv, InOrder, Recording, StopsChecked,
           StopClear, EquitySettles, Recorded

LEMMA EndKeeps == IInv /\ End => IInv'
<1> SUFFICES ASSUME IInv, End PROVE IInv'
  OBVIOUS
<1>1. TypeOK /\ book \in Books /\ row \in Nat /\ rows \in Nat /\ settings \in Settings
      /\ LastRow \in Int
  BY RowsAssumption DEF IInv, TypeOK, LastRow
<1>0. book.entry_price # 0
  BY Divides DEF End
<1>2. CASE book.side = 0
  <2>1. TypeOK'
    BY <1>1, <1>2 DEF End, TypeOK
  <2> QED BY <1>0, <1>1, <1>2, <2>1 DEF End, IInv, AtRow, InOrder, Recording, StopsChecked,
             EquitySettles, Recorded
<1>3. CASE book.side # 0
  <2>1. book' = Closed(book, candle.close) /\ equity' = book'.capital
        /\ closed' = Trade(book, LastRow, "end")
    BY <1>3 DEF End
  <2>2. book' \in Books /\ book'.side = 0 /\ book'.stop = None /\ book'.entry_price # 0
    BY <1>0, <1>1, <2>1, ClosedFacts, ClosedIsFlat, CandleFacts DEF TypeOK
  <2>3. closed' \in [signal_row : Int, entry_row : Int, row : Int, side : Sides,
                     reason : {None} \cup Reasons]
    BY <1>1, <2>1, TradeFacts DEF Reasons
  <2>4. equity' \in Nat
    BY <2>1, <2>2 DEF Books
  <2>5. TypeOK'
    BY <1>1, <1>3, <2>2, <2>3, <2>4 DEF End, TypeOK, Sides
  <2> QED BY <1>1, <1>3, <2>1, <2>2, <2>5 DEF End, IInv, AtRow, InOrder, Recording,
             StopsChecked, EquitySettles, Recorded
<1> QED BY <1>2, <1>3

LEMMA RaiseKeeps == IInv /\ Raise => IInv'
<1> SUFFICES ASSUME IInv, Raise PROVE IInv'
  OBVIOUS
<1>1. /\ phase \in {"stop", "mark"} /\ phase' = "raised"
      /\ UNCHANGED <<settings, rows, row, candle, signals, pending, book, peak,
                     position, equity, closed>>
  BY DEF Raise
<1>2. TypeOK' /\ AtRow' /\ InOrder'
  BY <1>1 DEF IInv, TypeOK, AtRow, InOrder
<1> QED BY <1>1, <1>2 DEF IInv, Recording, StopsChecked, EquitySettles, Recorded

LEMMA Inductive == IInv /\ [Next]_vars => IInv'
<1>1. IInv /\ UNCHANGED vars => IInv'
  BY DEF vars, IInv, TypeOK, AtRow, InOrder, Recording, StopsChecked, StopClear, Extreme,
     Beyond, EquitySettles, Recorded, DrawnDown, Scaled
<1> QED BY <1>1, FillKeeps, CheckStopKeeps, DecideKeeps, MarkKeeps, RaiseKeeps, CheckDrawdownKeeps,
           SkipRowKeeps, EndKeeps DEF Next

THEOREM Invariance == Spec => []IInv
  BY InitIInv, Inductive, PTL DEF Spec

\* The state of every run is well typed, the capital and the equity never below 0, and
\* what is divided by is an entry price other than 0, or the run raises: for any candles
\* with prices above 0 and any settings that Settings takes.
THEOREM TypeCorrect == Spec => [](TypeOK /\ EntriesAreDivisors)
<1>1. IInv => TypeOK /\ EntriesAreDivisors
  BY DEF IInv, InOrder, EntriesAreDivisors, Worthless
<1> QED BY <1>1, Invariance, PTL

\* No position lives through a row that touched its stop.
THEOREM StopsTaken == Spec => []StopsAreTaken
<1>1. IInv => StopsAreTaken
  <2> SUFFICES ASSUME IInv PROVE StopsAreTaken
    OBVIOUS
  <2>1. CASE phase = "row" /\ row > 0
    BY <2>1 DEF IInv, StopsChecked, StopClear, StopsAreTaken, Extreme
  <2>2. CASE ~(phase = "row" /\ row > 0)
    BY <2>2 DEF StopsAreTaken, Recorded
  <2> QED BY <2>1, <2>2
<1> QED BY <1>1, Invariance, PTL

\* A run that goes on is above its drawdown limit; one that ended is flat.
THEOREM EquitySettled == Spec => []EquitySettles
<1>1. IInv => EquitySettles
  BY DEF IInv
<1> QED BY <1>1, Invariance, PTL

(***************************************************************************)
(* The loop implements the account.                                        *)
(***************************************************************************)
Stays == UNCHANGED <<book.side, book.capital, book.halted>>

\* A position closed, whatever it leaves of the capital.
LEMMA ClosingCloses ==
  ASSUME book \in Books, book' \in Books, book.side # 0, ~book.halted, book'.side = 0
  PROVE  Account!Close
  BY DEF Account!Close, Books

LEMMA FillingTrades ==
  ASSUME IInv, book' \in Books, NEW at, NEW from, NEW price \in Prices, NEW sign \in Sides,
         Outcome(book', book, at, from, price, sign)
  PROVE  Account!Next \/ Stays
<1>1. /\ book \in Books /\ settings \in Settings
      /\ book.halted => book.side = 0
  BY DEF IInv, TypeOK, InOrder
<1>2. CASE book' = book
  BY <1>2 DEF Stays
<1>3. CASE book' = Closed(book, price) /\ ClosesAt(book, sign)
  <2>1. price \in Int
    BY CandlesAssumption DEF Prices, Readable
  <2>2. book'.side = 0
    BY <1>1, <1>3, ClosedIsFlat
  <2>3. book.side # 0 /\ ~book.halted
    BY <1>1, <1>3 DEF ClosesAt
  <2> QED BY <1>1, <2>2, <2>3, ClosingCloses DEF Account!Next
<1>4. CASE /\ sign # 0 /\ book'.side = sign /\ ~book'.halted
           /\ book.side = 0 /\ book'.capital = book.capital /\ ~book.halted
  BY <1>1, <1>4 DEF Account!Next, Account!Open, Books, Sides
<1>5. CASE /\ sign # 0 /\ book'.side = sign /\ ~book'.halted
           /\ ClosesAt(book, sign)
  <2>1. book'.side = 0 - book.side /\ book.side # 0 /\ ~book.halted
    BY <1>1, <1>5 DEF ClosesAt, Books, Sides
  <2>2. book'.capital \in Nat /\ book'.halted = FALSE
    BY <1>5 DEF Books
  <2> QED BY <2>1, <2>2 DEF Account!Next, Account!Flip
<1> QED BY <1>2, <1>3, <1>4, <1>5 DEF Outcome

LEMMA StepTrades == IInv /\ IInv' /\ Next => Account!Next \/ Stays
<1> SUFFICES ASSUME IInv, IInv', Next PROVE Account!Next \/ Stays
  OBVIOUS
<1>1. /\ book \in Books /\ book' \in Books /\ settings \in Settings
      /\ row \in Int /\ rows \in Int /\ LastRow \in Int /\ candle \in Candles
      /\ book.halted => book.side = 0
  BY RowsAssumption DEF IInv, TypeOK, InOrder, LastRow
<1>2. book' = book => Stays
  BY DEF Stays
<1>3. book.side # 0 /\ book'.side = 0 => Account!Next
  BY <1>1, ClosingCloses DEF Account!Next
<1>4. CASE Fill
  <2>1. PICK c \in Candles :
          \/ book' = book
          \/ /\ pending # None
             /\ book' = Filled(book, row, row - 1, c.open, pending, rows)
    BY <1>4 DEF Fill
  <2>2. CASE book' = Filled(book, row, row - 1, c.open, pending, rows) /\ pending # None
    <3>1. pending \in Sides /\ c.open \in Prices /\ row - 1 \in Int
      BY <1>1, <2>2, CandleFacts DEF IInv, TypeOK
    <3>2. Outcome(book', book, row, row - 1, c.open, pending)
      BY <1>1, <1>4, <2>2, <3>1, FilledFacts, Divides DEF Fill
    <3> QED BY <1>1, <3>1, <3>2, FillingTrades
  <2> QED BY <1>2, <2>1, <2>2
<1>5. CASE CheckStop
  <2>1. CASE book' = book
    BY <1>2, <2>1
  <2>2. CASE book' # book
    <3> DEFINE price == IF Gapped THEN candle.open ELSE book.stop
    <3>1. book' = Closed(book, price) /\ book.stop # None
      BY <1>5, <2>2 DEF CheckStop, Stops
    <3>2. price \in Int
      BY <1>1, <3>1, CandleFacts DEF Books
    <3>3. book'.side = 0
      <4> HIDE DEF price
      <4> QED BY <1>1, <3>1, ClosedIsFlat
    <3> QED BY <1>1, <1>3, <3>1, <3>3 DEF IInv, InOrder
  <2> QED BY <2>1, <2>2
<1>6. CASE Decide
  <2> DEFINE sign == signals[row + 1]
  <2>1. \/ book' = book
        \/ /\ book' = Filled(book, row, row, candle.close, sign, LastRow)
           /\ phase = "decide" /\ settings.fill # "next_open"
    BY <1>6 DEF Decide
  <2>2. sign \in Sides /\ candle.close \in Prices
    BY <1>1, <1>6, CandleFacts, RowsAssumption DEF Decide, IInv, AtRow, TypeOK
  <2>3. CASE /\ book' = Filled(book, row, row, candle.close, sign, LastRow)
             /\ phase = "decide" /\ settings.fill # "next_open"
    <3> HIDE DEF sign
    <3>1. Outcome(book', book, row, row, candle.close, sign)
      BY <1>1, <2>2, <2>3, FilledFacts, Divides
    <3> QED BY <1>1, <2>2, <3>1, FillingTrades
  <2> QED BY <1>2, <2>1, <2>3
<1>7. CASE Mark
  <2>1. \/ book' = book
        \/ book.side # 0 /\ book' = [Closed(book, candle.close) EXCEPT !.capital = 0, !.halted = TRUE]
    BY <1>7 DEF Mark
  <2>2. \A x \in Books : [x EXCEPT !.capital = 0, !.halted = TRUE].side = x.side
    BY DEF Books
  <2>3. Closed(book, candle.close) \in Books /\ Closed(book, candle.close).side = 0
    BY <1>1, <1>7, ClosedFacts, CandleFacts, Divides DEF Mark
  <2> QED BY <1>2, <1>3, <2>1, <2>2, <2>3
<1>8. CASE CheckDrawdown
  <2>1. \/ book' = book
        \/ book.side = 0 /\ ~book.halted /\ book' = [book EXCEPT !.halted = TRUE]
        \/ book.side # 0 /\ book' = [Closed(book, candle.close) EXCEPT !.halted = TRUE]
    BY <1>8 DEF CheckDrawdown
  <2>2. \A x \in Books : LET y == [x EXCEPT !.halted = TRUE]
                         IN  y.side = x.side /\ y.capital = x.capital /\ y.halted = TRUE
    BY DEF Books
  <2>3. Closed(book, candle.close) \in Books /\ Closed(book, candle.close).side = 0
    BY <1>1, <1>8, ClosedFacts, CandleFacts, Divides DEF CheckDrawdown
  <2>4. CASE book.side = 0 /\ ~book.halted /\ book' = [book EXCEPT !.halted = TRUE]
    BY <1>1, <2>2, <2>4 DEF Account!Next, Account!Halt
  <2> QED BY <1>2, <1>3, <2>1, <2>2, <2>3, <2>4
<1>9. CASE SkipRow
  BY <1>2, <1>9 DEF SkipRow
<1>10. CASE End
  <2>1. CASE book.side = 0
    BY <1>2, <1>10, <2>1 DEF End
  <2>2. CASE book.side # 0
    BY <1>1, <1>3, <1>10, <2>2, ClosedIsFlat DEF End
  <2> QED BY <2>1, <2>2
<1>11. CASE Raise
  BY <1>2, <1>11 DEF Raise
<1> QED BY <1>4, <1>5, <1>6, <1>7, <1>8, <1>9, <1>10, <1>11 DEF Next

\* The loop implements the account it promises: one position at a time, a capital
\* that moves only when a position is closed, and a halt nothing follows.
THEOREM ImplementsAccount == Spec => AccountSpec
<1>1. Init => Account!Init
  BY DEF Init, Flat, Account!Init
<1>2. IInv /\ IInv' /\ [Next]_vars => [Account!Next]_(Account!vars)
  <2>1. UNCHANGED vars => Stays
    BY DEF vars, Stays
  <2>2. Stays => UNCHANGED Account!vars
    BY DEF Stays, Account!vars
  <2> QED BY <2>1, <2>2, StepTrades
<1> QED BY <1>1, <1>2, Invariance, PTL DEF Spec, AccountSpec, Account!Spec

(***************************************************************************)
(* The position follows the decision in force.                             *)
(***************************************************************************)
IsLastChange(k, i) == i \in Changes(k) /\ \A j \in Changes(k) : j <= i

\* The position is the one of the decision after k signals, or was stopped since.
Follows(k) ==
  \/ /\ book.side = Decision(k)
     /\ book.side # 0 => IsLastChange(k, book.signal_row + 1)
  \/ /\ book.side = 0
     /\ closed.reason \in {"stop", "gap"}
     /\ closed.side = Decision(k)
     /\ IsLastChange(k, closed.signal_row + 1)

\* A change is left for the next open, with next_open only.
Waiting ==
  pending = IF /\ settings.fill = "next_open" /\ phase \notin {"stop", "decide"}
               /\ Len(signals) \in Changes(Len(signals))
            THEN signals[Len(signals)] ELSE None

\* A signal_close fill that opened nothing, at the last row or at the limit.
Passed ==
  /\ book.side = 0
  /\ \/ Len(signals) = rows
     \/ phase \in {"mark", "drawdown"} /\ DrawnDown(book.capital, peak)

Following ==
  ~book.halted /\ phase \notin {"done", "raised"} =>
    /\ Waiting
    /\ settings.fill = "next_open" => Follows(IF phase = "row" THEN row - 1 ELSE row)
    /\ settings.fill = "signal_close" =>
         IF phase \in {"stop", "decide"} THEN Follows(row)
                                         ELSE Follows(Len(signals)) \/ Passed

DInv == Following /\ (Recorded => position = book.side)

LEMMA AppendKeeps ==
  ASSUME signals \in Seq(Sides), NEW s \in Sides, signals' = Append(signals, s),
         NEW k \in Int, k <= Len(signals)
  PROVE  Changes(k)' = Changes(k) /\ Decision(k)' = Decision(k)
<1>1. \A i \in 1..Len(signals) : signals'[i] = signals[i]
  OBVIOUS
<1>2. Changes(k)' = Changes(k)
  BY <1>1 DEF Changes
<1>3. Changes(k) # {} => k \in 1..Len(signals)
  BY DEF Changes
<1> QED BY <1>1, <1>2, <1>3 DEF Decision

LEMMA NoChange ==
  ASSUME NEW k \in Int, k \notin Changes(k)
  PROVE  Changes(k) = Changes(k - 1) /\ Decision(k) = Decision(k - 1)
<1>1. Changes(k) = Changes(k - 1)
  BY DEF Changes
<1>2. Changes(k) # {} => signals[k] = signals[k - 1]
  BY DEF Changes
<1> QED BY <1>1, <1>2 DEF Decision

LEMMA AChange ==
  ASSUME NEW k \in Int, k \in Changes(k)
  PROVE  /\ Decision(k) = signals[k]
         /\ IsLastChange(k, k)
         /\ Decision(k - 1) = 0 \/ Decision(k - 1) # signals[k]
  BY DEF Changes, Decision, IsLastChange

LEMMA ScaledBelow ==
  ASSUME NEW v \in Nat, NEW f \in 0..Unit
  PROVE  Scaled(v, f) <= v
<1>1. \A n \in Nat, d \in Nat \ {0} : n \div d \in Nat /\ (n \div d) * d <= n
  BY SMT
<1>2. v * f \in Nat /\ v * f <= v * Unit
  BY UnitAssumption
<1> DEFINE q == (v * f) \div Unit
<1>3. q \in Nat /\ q * Unit <= v * Unit
  BY <1>1, <1>2, UnitAssumption
<1>4. q <= v
  <2> HIDE DEF q
  <2>1. CASE q > v
    <3>1. q * Unit > v * Unit
      BY <1>3, <2>1, UnitAssumption
    <3> QED BY <1>3, <3>1, UnitAssumption
  <2> QED BY <1>3, <2>1
<1> QED BY <1>4 DEF Scaled

\* What _fill makes of a position that followed the decision before the last change.
LEMMA FillFollows ==
  ASSUME IInv, NEW k \in Nat, k \in Changes(k), k <= Len(signals), Follows(k - 1), ~book.halted,
         book.entry_price # 0,
         NEW at \in Int, NEW price \in Prices, NEW end \in Int,
         book' = Filled(book, at, k - 1, price, signals[k], end),
         signals' = signals \/ (\E s \in Sides : signals' = Append(signals, s))
  PROVE  \/ book'.halted
         \/ Follows(k)'
         \/ /\ book'.side = 0
            /\ \/ at >= end
               \/ settings.fill # "next_open" /\ DrawnDown(book'.capital, peak)
<1> DEFINE left == IF ClosesAt(book, signals[k]) THEN Closed(book, price) ELSE book
           opens == at < end /\ OpensAt(left, signals[k])
<1>1. /\ book \in Books /\ settings \in Settings /\ signals \in Seq(Sides)
      /\ signals[k] \in Sides /\ price \in Int
  <2>1. book \in Books /\ settings \in Settings /\ signals \in Seq(Sides)
    BY DEF IInv, TypeOK
  <2>2. signals[k] \in Sides
    BY <2>1 DEF Changes
  <2>3. price \in Int
    BY CandlesAssumption DEF Prices, Readable
  <2> QED BY <2>1, <2>2, <2>3
<1>2. book' = IF opens THEN Opened(left, at, k - 1, price, signals[k]) ELSE left
  BY DEF Filled
<1>3. left \in Books
  BY <1>1, ClosedFacts
<1>4. Decision(k)' = signals[k] /\ IsLastChange(k, k)'
  <2>1. Decision(k)' = Decision(k) /\ Changes(k)' = Changes(k)
    <3>1. CASE signals' = signals
      BY <3>1 DEF Decision, Changes
    <3>2. CASE \E s \in Sides : signals' = Append(signals, s)
      BY <1>1, <3>2, AppendKeeps
    <3> QED BY <3>1, <3>2
  <2> QED BY <2>1, AChange DEF IsLastChange
<1>5. CASE opens
  <2>1. signals[k] \in {-1, 1}
    BY <1>1, <1>5 DEF OpensAt, Sides
  <2>2. book'.side = signals[k] /\ book'.signal_row = k - 1
    <3> HIDE DEF left, opens
    <3> QED BY <1>1, <1>2, <1>3, <1>5, <2>1, OpenedFacts
  <2> QED BY <1>4, <2>2 DEF Follows
<1>6. CASE ~opens
  <2>1. book' = left
    BY <1>2, <1>6
  <2>2. CASE left.side = 0
    <3>1. CASE signals[k] = 0
      BY <1>4, <2>1, <2>2, <3>1 DEF Follows
    <3>2. CASE signals[k] # 0
      <4>1. \/ left.halted \/ at >= end
            \/ settings.fill # "next_open" /\ DrawnDown(left.capital, peak)
        BY <1>6, <2>2, <3>2 DEF OpensAt
      <4>2. /\ book'.halted = left.halted /\ book'.side = left.side
            /\ book'.capital = left.capital
        BY <2>1
      <4> HIDE DEF left
      <4>3. left.halted => book'.halted
        BY <4>2
      <4>4. DrawnDown(left.capital, peak) => DrawnDown(book'.capital, peak)
        BY <4>2 DEF DrawnDown
      <4>5. book'.side = 0
        BY <2>2, <4>2
      <4> QED BY <4>1, <4>3, <4>4, <4>5
    <3> QED BY <3>1, <3>2
  <2>3. CASE left.side # 0
    <3>1. left = book /\ book.side = signals[k]
      BY <1>1, <2>3, ClosedIsFlat DEF ClosesAt
    <3>2. book.side = Decision(k - 1)
      BY <2>3, <3>1 DEF Follows
    <3>3. signals[k] # 0
      BY <2>3, <3>1
    <3>4. Decision(k - 1) = 0 \/ Decision(k - 1) # signals[k]
      BY AChange
    <3> QED BY <3>1, <3>2, <3>3, <3>4
  <2> QED BY <2>2, <2>3
<1> QED BY <1>5, <1>6

\* _fill takes a halt back for no position.
LEMMA HaltStays ==
  ASSUME IInv, book.halted, NEW at, NEW from, NEW price, NEW sign, NEW end
  PROVE  Filled(book, at, from, price, sign, end) = book
  BY DEF Filled, OpensAt, ClosesAt, IInv, InOrder

LEMMA InitDInv == Init => DInv
<1> SUFFICES ASSUME Init PROVE DInv
  OBVIOUS
<1>1. row = 0 /\ signals = <<>> /\ Len(signals) = 0 /\ book.side = 0 /\ pending = None
      /\ phase = "row"
  BY DEF Init, Flat
<1>2. \A k \in {-1, 0} : Changes(k) = {} /\ Decision(k) = 0
  BY DEF Changes, Decision
<1>3. Follows(-1) /\ Follows(0)
  BY <1>1, <1>2 DEF Follows
<1>4. Waiting
  BY <1>1, <1>2 DEF Waiting
<1> QED BY <1>1, <1>3, <1>4 DEF DInv, Following, Recorded

LEMMA FillDInv == IInv /\ DInv /\ IInv' /\ Fill => DInv'
<1> SUFFICES ASSUME IInv, DInv, IInv', Fill PROVE DInv'
  OBVIOUS
<1>1. PICK c \in Candles, s \in Sides :
        /\ signals' = Append(signals, s)
        /\ IF pending = None
             THEN UNCHANGED <<book, closed>>
             ELSE book' = Filled(book, row, row - 1, c.open, pending, rows)
  BY DEF Fill
<1>2. /\ phase = "row" /\ phase' = "stop" /\ row < rows /\ ~book.halted
      /\ pending' = None
      /\ UNCHANGED <<settings, rows, row, peak, position>>
  BY DEF Fill
<1>3. /\ row \in Nat /\ rows \in Nat /\ Len(signals) = row /\ signals \in Seq(Sides)
      /\ settings.fill \in Fills /\ c.open \in Prices
  BY <1>2, RowsAssumption, SettingsFacts, CandleFacts DEF IInv, TypeOK, AtRow
<1>4. Changes(row)' = Changes(row) /\ Decision(row)' = Decision(row)
  BY <1>1, <1>2, <1>3, AppendKeeps
<1>5. Waiting /\ (settings.fill = "next_open" => Follows(row - 1))
      /\ (settings.fill = "signal_close" => Follows(row))
  BY <1>2, <1>3 DEF DInv, Following, Passed
<1>6. book'.halted \/ Follows(row)'
  <2>1. CASE pending = None
    <3>1. Follows(row)
      <4>1. CASE settings.fill = "next_open"
        <5>1. row \notin Changes(row)
          <6>1. CASE row \in Changes(row)
            <7>1. signals[row] \in Sides
              BY <1>3, <6>1 DEF Changes
            <7> QED BY <1>2, <1>3, <1>5, <2>1, <4>1, <6>1, <7>1, NoneAssumption
                DEF Waiting, Sides
          <6> QED BY <6>1
        <5>2. Changes(row) = Changes(row - 1) /\ Decision(row) = Decision(row - 1)
          BY <1>3, <5>1, NoChange
        <5> QED BY <1>5, <4>1, <5>2 DEF Follows, IsLastChange
      <4> QED BY <1>3, <1>5, <4>1 DEF Fills
    <3>2. UNCHANGED <<book, closed>>
      BY <1>1, <2>1
    <3> QED BY <1>2, <1>4, <3>1, <3>2 DEF Follows, IsLastChange
  <2>2. CASE pending # None
    <3>1. /\ settings.fill = "next_open" /\ row \in Changes(row)
          /\ pending = signals[row]
      BY <1>2, <1>3, <1>5, <2>2 DEF Waiting
    <3>2. book' = Filled(book, row, row - 1, c.open, signals[row], rows)
      BY <1>1, <2>2, <3>1
    <3>3. book.entry_price # 0
      BY <1>2, Divides
    <3> QED BY <1>1, <1>2, <1>3, <1>5, <3>1, <3>2, <3>3, FillFollows
  <2> QED BY <2>1, <2>2
<1>7. Waiting'
  BY <1>2 DEF Waiting
<1> QED BY <1>2, <1>6, <1>7 DEF DInv, Following, Recorded

LEMMA CheckStopDInv == IInv /\ DInv /\ CheckStop => DInv'
<1> SUFFICES ASSUME IInv, DInv, CheckStop PROVE DInv'
  OBVIOUS
<1> DEFINE price == IF Gapped THEN candle.open ELSE book.stop
           reason == IF Gapped THEN "gap" ELSE "stop"
<1>1. /\ \/ UNCHANGED <<book, closed>>
         \/ /\ book.stop # None /\ book' = Closed(book, price)
            /\ closed' = Trade(book, row, reason)
      /\ phase = "stop" /\ phase' = "decide"
      /\ UNCHANGED <<settings, rows, row, signals, pending, peak>>
  BY DEF CheckStop, Stops
<1>2. settings.fill \in Fills /\ settings \in Settings /\ book \in Books
  BY SettingsFacts DEF IInv, TypeOK
<1>3. ~book.halted => Follows(row) /\ Waiting
  BY <1>1, <1>2 DEF DInv, Following, Fills
<1>4. CASE UNCHANGED <<book, closed>>
  <2>1. ~book.halted => Follows(row)' /\ Waiting'
    BY <1>1, <1>3, <1>4 DEF Follows, IsLastChange, Changes, Decision, Waiting
  <2> QED BY <1>1, <1>4, <2>1 DEF DInv, Following, Recorded
<1>5. CASE /\ book.stop # None /\ book' = Closed(book, price)
           /\ closed' = Trade(book, row, reason)
  <2>1. book.side # 0 /\ ~book.halted
    BY <1>5 DEF IInv, InOrder
  <2>2. book.side = Decision(row) /\ IsLastChange(row, book.signal_row + 1)
    BY <1>3, <2>1 DEF Follows
  <2>3. price \in Int
    BY <1>2, <1>5, CandleFacts DEF Books, IInv, TypeOK
  <2>4. book'.side = 0
    <3> HIDE DEF price
    <3> QED BY <1>2, <1>5, ClosedIsFlat
  <2>5. /\ closed'.reason \in {"stop", "gap"} /\ closed'.side = book.side
        /\ closed'.signal_row = book.signal_row
    BY <1>5 DEF Trade
  <2>6. Follows(row)' /\ Waiting'
    BY <1>1, <2>2, <2>4, <2>5, <2>1, <1>3
       DEF Follows, IsLastChange, Changes, Decision, Waiting
  <2> QED BY <1>1, <2>6 DEF DInv, Following, Recorded
<1> QED BY <1>1, <1>4, <1>5

LEMMA DecideDInv == IInv /\ DInv /\ Decide => DInv'
<1> SUFFICES ASSUME IInv, DInv, Decide PROVE DInv'
  OBVIOUS
<1> DEFINE k == row + 1
<1>1. /\ phase = "decide" /\ phase' = "mark"
      /\ UNCHANGED <<settings, rows, row, signals, peak>>
  BY DEF Decide
<1>2. /\ settings.fill \in Fills /\ row \in Nat /\ rows \in Nat /\ Len(signals) = k
      /\ signals \in Seq(Sides) /\ candle.close \in Prices
  BY <1>1, RowsAssumption, SettingsFacts, CandleFacts DEF IInv, TypeOK, AtRow
<1>3. IsChange(signals[k]) <=> k \in Changes(k)
  BY <1>2 DEF IsChange, Changes
<1>4. ~book.halted => Follows(row) /\ pending = None
  BY <1>1, <1>2 DEF DInv, Following, Fills, Waiting
<1>5. CASE settings.fill = "next_open"
  <2>1. /\ UNCHANGED <<book, closed>>
        /\ IF k \in Changes(k) THEN pending' = signals[k] ELSE pending' = pending
    BY <1>3, <1>5 DEF Decide
  <2>2. ~book.halted => Follows(row)'
    BY <1>1, <1>4, <2>1 DEF Follows, IsLastChange, Changes, Decision
  <2>3. ~book.halted => Waiting'
    BY <1>1, <1>2, <1>4, <1>5, <2>1 DEF Waiting, Changes
  <2> QED BY <1>1, <1>5, <2>1, <2>2, <2>3 DEF DInv, Following, Recorded
<1>6. CASE settings.fill = "signal_close"
  <2>1. pending' = pending
    BY <1>6 DEF Decide
  <2>2. ~book.halted => Waiting'
    BY <1>1, <1>4, <1>6, <2>1 DEF Waiting
  <2>3. ~book.halted => book'.halted \/ Follows(k)' \/ Passed'
    <3> SUFFICES ASSUME ~book.halted PROVE book'.halted \/ Follows(k)' \/ Passed'
      OBVIOUS
    <3>1. CASE k \notin Changes(k)
      <4>1. UNCHANGED <<book, closed>>
        BY <1>3, <3>1 DEF Decide
      <4>2. Changes(k) = Changes(row) /\ Decision(k) = Decision(row)
        BY <1>2, <3>1, NoChange
      <4>3. Follows(k)
        BY <1>4, <4>2 DEF Follows, IsLastChange
      <4> QED BY <1>1, <4>1, <4>3 DEF Follows, IsLastChange, Changes, Decision
    <3>2. CASE k \in Changes(k)
      <4>1. book' = Filled(book, row, row, candle.close, signals[k], LastRow)
        BY <1>3, <1>6, <3>2 DEF Decide
      <4>2. \/ book'.halted
            \/ Follows(k)'
            \/ /\ book'.side = 0
               /\ \/ row >= LastRow
                  \/ settings.fill # "next_open" /\ DrawnDown(book'.capital, peak)
        <5>1. PICK j \in Nat : j = k
          BY <1>2
        <5>2. j - 1 = row /\ j <= Len(signals) /\ LastRow \in Int /\ row \in Int
          BY <1>2, <5>1 DEF LastRow
        <5>3. Follows(j - 1) /\ j \in Changes(j)
          BY <1>4, <3>2, <5>1, <5>2
        <5>4. book' = Filled(book, row, j - 1, candle.close, signals[j], LastRow)
          BY <4>1, <5>1, <5>2
        <5>5. signals' = signals \/ (\E s \in Sides : signals' = Append(signals, s))
          BY <1>1
        <5>6. \/ book'.halted
              \/ Follows(j)'
              \/ /\ book'.side = 0
                 /\ \/ row >= LastRow
                    \/ settings.fill # "next_open" /\ DrawnDown(book'.capital, peak)
          BY <1>1, <1>2, <1>6, <5>2, <5>3, <5>4, <5>5, FillFollows, Divides
        <5>7. Follows(j)' => Follows(k)'
          <6>1. k' = j
            BY <1>1, <5>1
          <6> QED BY <6>1 DEF Follows, IsLastChange, Changes, Decision
        <5> QED BY <5>6, <5>7
      <4>3. row >= LastRow => Len(signals)' = rows'
        BY <1>1, <1>2 DEF LastRow, IInv, AtRow
      <4>4. DrawnDown(book'.capital, peak) => DrawnDown(book.capital, peak)'
        BY <1>1 DEF DrawnDown, Scaled
      <4> QED BY <1>1, <4>2, <4>3, <4>4 DEF Passed
    <3> QED BY <3>1, <3>2
  <2>4. book.halted => book'.halted
    BY <1>6, HaltStays DEF Decide, Filled
  <2> QED BY <1>1, <1>2, <1>6, <2>2, <2>3, <2>4 DEF DInv, Following, Recorded
<1> QED BY <1>2, <1>5, <1>6 DEF Fills

LEMMA MarkDInv == IInv /\ DInv /\ Mark => DInv'
<1> SUFFICES ASSUME IInv, DInv, Mark PROVE DInv'
  OBVIOUS
<1>1. /\ phase = "mark" /\ phase' = "drawdown"
      /\ UNCHANGED <<settings, rows, row, signals, pending, peak>>
  BY DEF Mark
<1>2. CASE UNCHANGED <<book, closed>>
  <2>1. \A k : Follows(k) => Follows(k)'
    BY <1>1, <1>2 DEF Follows, IsLastChange, Changes, Decision
  <2>2. Waiting => Waiting'
    BY <1>1 DEF Waiting, Changes
  <2>3. Passed => Passed'
    BY <1>1, <1>2 DEF Passed, DrawnDown, Scaled
  <2>4. Follows(Len(signals)) => Follows(Len(signals))'
    BY <1>1, <1>2 DEF Follows, IsLastChange, Changes, Decision
  <2>5. Follows(row) => Follows(row)'
    BY <1>1, <1>2 DEF Follows, IsLastChange, Changes, Decision
  <2> QED BY <1>1, <1>2, <2>2, <2>3, <2>4, <2>5 DEF DInv, Following, Recorded
<1>3. CASE book' = [Closed(book, candle.close) EXCEPT !.capital = 0, !.halted = TRUE]
  <2>1. Closed(book, candle.close) \in Books
    BY ClosedFacts, CandleFacts, Divides DEF IInv, TypeOK, Mark
  <2>2. \A x \in Books : [x EXCEPT !.capital = 0, !.halted = TRUE].halted
    BY DEF Books
  <2> QED BY <1>1, <1>3, <2>1, <2>2 DEF DInv, Following, Recorded
<1> QED BY <1>2, <1>3 DEF Mark

LEMMA CheckDrawdownDInv == IInv /\ DInv /\ CheckDrawdown => DInv'
<1> SUFFICES ASSUME IInv, DInv, CheckDrawdown PROVE DInv'
  OBVIOUS
<1>1. /\ phase = "drawdown" /\ phase' = "row" /\ row' = row + 1
      /\ UNCHANGED <<settings, rows, signals, pending>>
      /\ position = book.side
      /\ position = 0 => equity = book.capital
  BY DEF CheckDrawdown, IInv, Recording
<1>2. /\ book \in Books /\ settings \in Settings /\ settings.fill \in Fills /\ row \in Nat
      /\ peak \in Nat /\ equity \in Nat /\ position \in Sides
      /\ Len(signals) = row + 1
  BY <1>1, SettingsFacts, RowsAssumption DEF IInv, TypeOK, AtRow
<1>3. CASE book.halted
  <2>1. UNCHANGED <<book, position>>
    BY <1>3 DEF CheckDrawdown
  <2> QED BY <1>1, <1>3, <2>1 DEF DInv, Following, Recorded
<1>4. CASE ~book.halted /\ ~DrawnDown(equity, Peak)
  <2>1. UNCHANGED <<book, closed, position>>
    BY <1>4 DEF CheckDrawdown
  <2>2. Waiting'
    BY <1>1, <1>4 DEF DInv, Following, Waiting, Changes
  <2>3. row' - 1 = row /\ Len(signals)' = row' /\ Len(signals)' = Len(signals)
    BY <1>1, <1>2
  <2>4. settings.fill = "next_open" => Follows(row - 1)'
    <3>1. settings.fill = "next_open" => Follows(row)
      BY <1>1, <1>4 DEF DInv, Following
    <3> QED BY <1>1, <2>1, <2>3, <3>1 DEF Follows, IsLastChange, Changes, Decision
  <2>5. settings.fill = "signal_close" => Follows(Len(signals))' \/ Passed'
    <3> SUFFICES ASSUME settings.fill = "signal_close"
                 PROVE  Follows(Len(signals))' \/ Passed'
      OBVIOUS
    <3>1. CASE Follows(Len(signals))
      BY <1>1, <2>1, <3>1 DEF Follows, IsLastChange, Changes, Decision
    <3>2. CASE Passed
      <4>1. book.side = 0
        BY <3>2 DEF Passed
      <4>2. CASE Len(signals) = rows
        BY <1>1, <2>1, <4>1, <4>2 DEF Passed
      <4>3. CASE DrawnDown(book.capital, peak)
        <5>1. equity <= Scaled(peak, Unit - settings.drawdown_stop)
              /\ settings.drawdown_stop \in 1..Unit - 1
          BY <1>1, <1>2, <4>1, <4>3, SettingsFacts DEF DrawnDown
        <5>2. Unit - settings.drawdown_stop \in 0..Unit
          BY <5>1, UnitAssumption
        <5>3. Scaled(peak, Unit - settings.drawdown_stop) <= peak
          BY <1>2, <5>2, ScaledBelow
        <5>4. Scaled(peak, Unit - settings.drawdown_stop) \in Int
          <6> DEFINE factor == Unit - settings.drawdown_stop
          <6>1. factor \in Int /\ peak \in Int
            BY <1>2, <5>1, UnitAssumption
          <6>2. \A f \in Int : Scaled(peak, f) \in Int
            BY <6>1, ScaledInt
          <6> HIDE DEF factor
          <6>3. Scaled(peak, factor) \in Int
            BY <6>1, <6>2
          <6> QED BY <6>3 DEF factor
        <5>5. equity <= peak
          <6> DEFINE limit == Scaled(peak, Unit - settings.drawdown_stop)
          <6>1. equity <= limit /\ limit <= peak /\ limit \in Int
            BY <5>1, <5>3, <5>4
          <6> HIDE DEF limit
          <6> QED BY <1>2, <6>1
        <5>6. Peak = peak
          BY <1>2, <5>5 DEF Peak
        <5>7. equity = book.capital
          BY <1>1, <4>1
        <5> QED BY <1>4, <4>3, <5>6, <5>7 DEF DrawnDown
      <4> QED BY <3>2, <4>2, <4>3 DEF Passed
    <3> QED BY <1>1, <1>4, <3>1, <3>2 DEF DInv, Following
  <2> QED BY <1>1, <2>1, <2>2, <2>4, <2>5 DEF DInv, Following, Recorded
<1>5. CASE ~book.halted /\ DrawnDown(equity, Peak)
  <2>1. /\ position' = 0
        /\ \/ book.side = 0 /\ book' = [book EXCEPT !.halted = TRUE]
           \/ book' = [Closed(book, candle.close) EXCEPT !.halted = TRUE]
    BY <1>5 DEF CheckDrawdown
  <2>2. Closed(book, candle.close) \in Books /\ Closed(book, candle.close).side = 0
    BY ClosedFacts, CandleFacts, Divides DEF IInv, TypeOK, CheckDrawdown
  <2>3. \A x \in Books : LET y == [x EXCEPT !.halted = TRUE]
                         IN  y.halted /\ y.side = x.side
    BY DEF Books
  <2>4. book'.halted /\ book'.side = 0
    BY <1>2, <2>1, <2>2, <2>3
  <2> QED BY <1>1, <2>1, <2>4 DEF DInv, Following, Recorded
<1> QED BY <1>3, <1>4, <1>5

LEMMA RestDInv == IInv /\ DInv /\ (Raise \/ SkipRow \/ End \/ UNCHANGED vars) => DInv'
<1> SUFFICES ASSUME IInv, DInv, Raise \/ SkipRow \/ End \/ UNCHANGED vars PROVE DInv'
  OBVIOUS
<1>1. CASE SkipRow
  BY <1>1 DEF SkipRow, IInv, InOrder, DInv, Following, Recorded
<1>2. CASE End
  <2>1. phase' = "done" /\ phase = "row" /\ row' = row
    BY <1>2 DEF End
  <2>2. row' > 0 => position' = book'.side
    <3>1. CASE book.side = 0
      BY <1>2, <2>1, <3>1 DEF End, DInv, Recorded
    <3>2. CASE book.side # 0
      <4>1. book' = Closed(book, candle.close) /\ position' = 0
        BY <1>2, <3>2 DEF End
      <4>2. book'.side = 0
        BY <4>1, ClosedIsFlat DEF IInv, TypeOK
      <4> QED BY <4>1, <4>2
    <3> QED BY <3>1, <3>2
  <2> QED BY <2>1, <2>2 DEF DInv, Following, Recorded
<1>3. CASE UNCHANGED vars
  <2>1. Follows(row) => Follows(row)'
    BY <1>3 DEF vars, Follows, IsLastChange, Changes, Decision
  <2>2. Follows(row - 1) => Follows(row - 1)'
    BY <1>3 DEF vars, Follows, IsLastChange, Changes, Decision
  <2>3. Follows(Len(signals)) => Follows(Len(signals))'
    BY <1>3 DEF vars, Follows, IsLastChange, Changes, Decision
  <2>4. (Waiting => Waiting') /\ (Passed => Passed')
    BY <1>3 DEF vars, Waiting, Changes, Passed, DrawnDown, Scaled
  <2> QED BY <1>3, <2>1, <2>2, <2>3, <2>4 DEF vars, DInv, Following, Recorded
<1>4. CASE Raise
  BY <1>4 DEF Raise, DInv, Following, Recorded
<1> QED BY <1>1, <1>2, <1>3, <1>4

\* A row records the position of the decision in force, for any number of rows.
THEOREM PositionsDecided == Spec => []PositionIsDecided
<1>1. Init => IInv /\ DInv
  BY InitIInv, InitDInv
<1>2. IInv /\ DInv /\ [Next]_vars => IInv' /\ DInv'
  BY Inductive, FillDInv, CheckStopDInv, DecideDInv, MarkDInv, CheckDrawdownDInv, RestDInv
     DEF Next
<1>3. IInv /\ DInv => PositionIsDecided
  <2> SUFFICES ASSUME IInv, DInv, Recorded PROVE PositionIsDecided
    BY DEF PositionIsDecided
  <2>1. /\ position = book.side /\ settings.fill \in Fills /\ row \in Nat /\ rows \in Nat
        /\ (book.halted => book.side = 0)
        /\ (phase = "done" => row = rows /\ book.side = 0)
    BY SettingsFacts, RowsAssumption DEF DInv, IInv, TypeOK, InOrder, AtRow, EquitySettles
  <2>2. CASE book.halted \/ phase = "done"
    BY <2>1, <2>2 DEF PositionIsDecided
  <2>3. CASE ~book.halted /\ phase = "row"
    <3>1. Len(signals) = row
      BY <2>3 DEF IInv, AtRow
    <3>2. Follows(Ordered) \/ (row = rows /\ position = 0)
      BY <2>1, <2>3, <3>1 DEF DInv, Following, Ordered, Passed, Fills
    <3> QED BY <2>1, <3>2 DEF PositionIsDecided, Follows, IsLastChange
  <2> QED BY <2>2, <2>3 DEF Recorded
<1> QED BY <1>1, <1>2, <1>3, PTL DEF Spec

-----------------------------------------------------------------------------
(***************************************************************************)
(* The signals.                                                            *)
(***************************************************************************)

LEMMA SmallestOfNat ==
  ASSUME NEW S, S \subseteq Nat, S # {}
  PROVE  \E n \in S : \A m \in S : n <= m
<1>1. \E n \in S : \A m \in S : <<m, n>> \notin OpToRel(<, Nat)
  BY NatLessThanWellFounded, WFMin
<1>2. ASSUME NEW n \in S, NEW m \in S, <<m, n>> \notin OpToRel(<, Nat)
      PROVE  n <= m
  BY <1>2 DEF OpToRel
<1> QED BY <1>1, <1>2

\* A sequence of n rows, and one that goes on where another ends.
IsRows(p, n) == n \in Nat /\ p = [t \in 1..n |-> p[t]]

Grows(p, q) ==
  \E n, m \in Nat : /\ n <= m /\ IsRows(p, n) /\ IsRows(q, m)
                    /\ \A t \in 1..n : p[t] = q[t]

LEMMA LenIs == ASSUME NEW p, NEW n, IsRows(p, n)
  PROVE Len(p) = n /\ DOMAIN p = 1..n
  BY DEF IsRows

LEMMA RowsAreSeq == ASSUME NEW p, NEW n, IsRows(p, n), NEW S, \A t \in 1..n : p[t] \in S
  PROVE p \in Seq(S)
  BY DEF IsRows

LEMMA GrowsIsPrefix == ASSUME NEW p, NEW q, Grows(p, q) PROVE IsPrefix(p, q)
<1>1. PICK n, m \in Nat : /\ n <= m /\ IsRows(p, n) /\ IsRows(q, m)
                          /\ \A t \in 1..n : p[t] = q[t]
  BY DEF Grows
<1> DEFINE S == {q[t] : t \in 1..m}
<1>2. p \in Seq(S) /\ q \in Seq(S) /\ Len(p) = n /\ Len(q) = m
  <2>1. \A t \in 1..n : p[t] \in S
    BY <1>1, SMT
  <2>2. \A t \in 1..m : q[t] \in S
    BY <1>1, SMT
  <2> QED BY <2>1, <2>2, <1>1, RowsAreSeq, LenIs
<1> HIDE DEF S
<1>3. SubSeq(p, 1, n) = [t \in 1..n |-> p[t]]
  BY <1>1, <1>2
<1>4. SubSeq(q, 1, n) = [t \in 1..n |-> q[t]]
  BY <1>1, <1>2
<1> QED BY <1>1, <1>2, <1>3, <1>4 DEF IsPrefix

LEMMA NoneIsEmpty == ASSUME NEW f, NEW S, f = [x \in S |-> f[x]], f # <<>> PROVE S # {}
  OBVIOUS

\* A step that carries a value from row to row is a recursive function over 0..n.
\* All of them are one chain, told apart by its kind, so that what holds of a chain
\* is proved once: it exists, and two chains over equal rows are equal so far.
Beginning(kind) ==
  CASE kind = "fill" -> Unset
    [] kind = "sum" -> 0
    [] kind = "ema" -> Unset
    [] kind = "hysteresis" -> 0
    [] kind = "confirm" -> [held |-> 0, previous |-> Unset, counted |-> Unset]
    [] kind = "hold" -> [until |-> 1, held |-> 0]

Stepping(kind, option, p, t, before) ==
  CASE kind = "fill" -> IF p[t] \in DOMAIN option THEN option[p[t]] ELSE before
    [] kind = "sum" -> before + p[t]
    [] kind = "ema" -> Averaged(before, p[t], option)
    [] kind = "hysteresis" -> Stepped(before, p[t], option[1], option[2])
    [] kind = "confirm" -> Confirmed(before, p[t], option)
    [] kind = "hold" -> Kept(before, t, p[t], option)

Chain(f, kind, option, p, n) ==
  f = [t \in 0..n |-> IF t = 0 THEN Beginning(kind)
                                ELSE Stepping(kind, option, p, t, f[t - 1])]
Chained(kind, option, p, n) == CHOOSE f : Chain(f, kind, option, p, n)

LEMMA ChainGoesOn ==
  ASSUME NEW kind, NEW option, NEW p, NEW n \in Nat, NEW f, Chain(f, kind, option, p, n)
  PROVE  \E h : Chain(h, kind, option, p, n + 1)
<1> DEFINE h == [t \in 0..n + 1 |-> IF t = n + 1 THEN Stepping(kind, option, p, n + 1, f[n])
                                    ELSE f[t]]
<1>1. \A t \in 0..n : f[t] = IF t = 0 THEN Beginning(kind)
                             ELSE Stepping(kind, option, p, t, f[t - 1])
  BY DEF Chain
<1>2. /\ h = [t \in 0..n + 1 |-> h[t]]
      /\ \A t \in 0..n : h[t] = f[t]
      /\ h[n + 1] = Stepping(kind, option, p, n + 1, f[n])
  OBVIOUS
<1> HIDE DEF h
<1>3. \A t \in 0..n + 1 : h[t] = IF t = 0 THEN Beginning(kind)
                                 ELSE Stepping(kind, option, p, t, h[t - 1])
  <2> TAKE t \in 0..n + 1
  <2>1. CASE t = n + 1
    <3>1. t # 0 /\ t - 1 = n /\ n \in 0..n
      BY <2>1
    <3> QED BY <3>1, <2>1, <1>2
  <2>2. CASE t # n + 1
    <3>1. t \in 0..n /\ (t # 0 => t - 1 \in 0..n)
      BY <2>2
    <3> QED BY <3>1, <1>1, <1>2
  <2> QED BY <2>1, <2>2
<1>4. Chain(h, kind, option, p, n + 1)
  BY <1>2, <1>3, Zenon DEF Chain
<1> QED BY <1>4

LEMMA ChainsAre ==
  ASSUME NEW kind, NEW option, NEW p, NEW n \in Nat
  PROVE  Chain(Chained(kind, option, p, n), kind, option, p, n)
<1> DEFINE Gone(i) == \E f : Chain(f, kind, option, p, i)
<1>1. Gone(0)
  <2> DEFINE f == [t \in 0..0 |-> Beginning(kind)]
  <2>1. Chain(f, kind, option, p, 0)
    BY DEF Chain
  <2> QED BY <2>1
<1>2. \A i \in Nat : Gone(i) => Gone(i + 1)
  BY ChainGoesOn
<1> HIDE DEF Gone
<1>3. SUFFICES ASSUME ~Gone(n) PROVE FALSE
  BY DEF Gone, Chained
<1> DEFINE S == {i \in Nat : ~Gone(i)}
<1>4. PICK least \in S : \A i \in S : least <= i
  <2>1. S \subseteq Nat /\ S # {}
    BY <1>3
  <2> HIDE DEF S
  <2> QED BY <2>1, SmallestOfNat
<1>5. least \in Nat /\ ~Gone(least) /\ least # 0
  BY <1>1
<1>6. least - 1 \in Nat /\ least - 1 \notin S
  BY <1>4, <1>5
<1>7. Gone(least - 1)
  BY <1>6
<1>8. Gone((least - 1) + 1)
  BY <1>2, <1>6, <1>7
<1> QED BY <1>5, <1>8

LEMMA ChainsAgree ==
  ASSUME NEW kind, NEW opt1, NEW opt2, NEW p, NEW q, NEW n \in Nat, NEW m \in Nat, n <= m,
         \A t \in 1..n : \A before :
             Stepping(kind, opt1, p, t, before) = Stepping(kind, opt2, q, t, before)
  PROVE  \A t \in 0..n : Chained(kind, opt1, p, n)[t] = Chained(kind, opt2, q, m)[t]
<1> DEFINE f == Chained(kind, opt1, p, n)
           h == Chained(kind, opt2, q, m)
           Off(i) == i \in 0..n /\ f[i] # h[i]
<1>1. Chain(f, kind, opt1, p, n) /\ Chain(h, kind, opt2, q, m)
  BY ChainsAre
<1> HIDE DEF f, h
<1>2. SUFFICES ASSUME NEW i \in 0..n, f[i] # h[i] PROVE FALSE
  BY DEF f, h
<1>3. PICK least \in Nat : Off(least) /\ \A j \in 0..least - 1 : ~Off(j)
  <2> DEFINE S == {j \in Nat : Off(j)}
  <2>1. i \in S
    BY <1>2
  <2>2. S \subseteq Nat
    OBVIOUS
  <2>3. PICK least \in S : \A j \in S : least <= j
    <3> HIDE DEF S
    <3> QED BY <2>1, <2>2, SmallestOfNat
  <2> QED BY <2>3
<1>4. f[0] = h[0] /\ least # 0
  BY <1>1, <1>3 DEF Chain
<1>5. f[least - 1] = h[least - 1]
  BY <1>3, <1>4
<1>6. /\ f[least] = Stepping(kind, opt1, p, least, f[least - 1])
      /\ h[least] = Stepping(kind, opt2, q, least, h[least - 1])
  BY <1>1, <1>3, <1>4 DEF Chain
<1> QED BY <1>3, <1>4, <1>5, <1>6

EmaChain(f, p, n, span) ==
  f = [t \in 0..n |-> IF t = 0 THEN Unset ELSE Averaged(f[t - 1], p[t], span)]

LEMMA EmaIs ==
  ASSUME NEW p, NEW n, IsRows(p, n), NEW span
  PROVE  Ema(p, span) = [t \in 1..n |-> Chained("ema", span, p, n)[t]]
<1>1. Len(p) = n
  BY LenIs
<1>2. Ema(p, span) = [t \in 1..n |-> (CHOOSE f : EmaChain(f, p, n, span))[t]]
  BY <1>1 DEF Ema, EmaChain
<1>3. ASSUME NEW f
      PROVE  EmaChain(f, p, n, span) <=> Chain(f, "ema", span, p, n)
  BY DEF EmaChain, Chain, Beginning, Stepping
<1>4. (CHOOSE f : EmaChain(f, p, n, span)) = Chained("ema", span, p, n)
  BY <1>3, Zenon DEF Chained
<1> QED BY <1>2, <1>4

HysteresisChain(f, p, n, enter, exit) ==
  f = [t \in 0..n |-> IF t = 0 THEN 0 ELSE Stepped(f[t - 1], p[t], enter, exit)]

LEMMA HysteresisIs ==
  ASSUME NEW p, NEW n, IsRows(p, n), NEW enter, NEW exit
  PROVE  Hysteresis(p, enter, exit) = [t \in 1..n |-> Chained("hysteresis", <<enter, exit>>, p, n)[t]]
<1>1. Len(p) = n
  BY LenIs
<1>2. Hysteresis(p, enter, exit) = [t \in 1..n |-> (CHOOSE f : HysteresisChain(f, p, n, enter, exit))[t]]
  BY <1>1 DEF Hysteresis, HysteresisChain
<1>3. ASSUME NEW f
      PROVE  HysteresisChain(f, p, n, enter, exit) <=> Chain(f, "hysteresis", <<enter, exit>>, p, n)
  BY DEF HysteresisChain, Chain, Beginning, Stepping
<1>4. (CHOOSE f : HysteresisChain(f, p, n, enter, exit)) = Chained("hysteresis", <<enter, exit>>, p, n)
  BY <1>3, Zenon DEF Chained
<1> QED BY <1>2, <1>4

ConfirmChain(f, p, n, count) ==
  f = [t \in 0..n |-> IF t = 0 THEN [held |-> 0, previous |-> Unset, counted |-> Unset] ELSE Confirmed(f[t - 1], p[t], count)]

LEMMA ConfirmIs ==
  ASSUME NEW p, NEW n, IsRows(p, n), NEW count
  PROVE  Confirm(p, count) = [t \in 1..n |-> Chained("confirm", count, p, n)[t].counted]
<1>1. Len(p) = n
  BY LenIs
<1>2. Confirm(p, count) = [t \in 1..n |-> (CHOOSE f : ConfirmChain(f, p, n, count))[t].counted]
  BY <1>1 DEF Confirm, ConfirmChain
<1>3. ASSUME NEW f
      PROVE  ConfirmChain(f, p, n, count) <=> Chain(f, "confirm", count, p, n)
  BY DEF ConfirmChain, Chain, Beginning, Stepping
<1>4. (CHOOSE f : ConfirmChain(f, p, n, count)) = Chained("confirm", count, p, n)
  BY <1>3, Zenon DEF Chained
<1> QED BY <1>2, <1>4

MinHoldChain(f, p, n, count) ==
  f = [t \in 0..n |-> IF t = 0 THEN [until |-> 1, held |-> 0] ELSE Kept(f[t - 1], t, p[t], count)]

LEMMA MinHoldIs ==
  ASSUME NEW p, NEW n, IsRows(p, n), NEW count
  PROVE  MinHold(p, count) = [t \in 1..n |-> Chained("hold", count, p, n)[t].held]
<1>1. Len(p) = n
  BY LenIs
<1>2. MinHold(p, count) = [t \in 1..n |-> (CHOOSE f : MinHoldChain(f, p, n, count))[t].held]
  BY <1>1 DEF MinHold, MinHoldChain
<1>3. ASSUME NEW f
      PROVE  MinHoldChain(f, p, n, count) <=> Chain(f, "hold", count, p, n)
  BY DEF MinHoldChain, Chain, Beginning, Stepping
<1>4. (CHOOSE f : MinHoldChain(f, p, n, count)) = Chained("hold", count, p, n)
  BY <1>3, Zenon DEF Chained
<1> QED BY <1>2, <1>4

FillChain(f, p, n, predicted) ==
  f = [t \in 0..n |-> IF t = 0 THEN Unset
                      ELSE IF p[t] \in DOMAIN predicted THEN predicted[p[t]]
                      ELSE f[t - 1]]

LEMMA AlignIs ==
  ASSUME NEW times, NEW predicted, NEW n, IsRows(Rows(times, predicted), n)
  PROVE  Align(times, predicted) =
           [t \in 1..n |-> [ts |-> Rows(times, predicted)[t],
                            prediction |-> Chained("fill", predicted, Rows(times, predicted), n)[t]]]
<1> DEFINE p == Rows(times, predicted)
<1>1. Len(p) = n
  BY LenIs
<1>2. Align(times, predicted) =
        [t \in 1..n |-> [ts |-> p[t], prediction |-> (CHOOSE f : FillChain(f, p, n, predicted))[t]]]
  BY <1>1 DEF Align, FillChain
<1> HIDE DEF p
<1>3. ASSUME NEW f
      PROVE  FillChain(f, p, n, predicted) <=> Chain(f, "fill", predicted, p, n)
  BY DEF FillChain, Chain, Beginning, Stepping
<1>4. (CHOOSE f : FillChain(f, p, n, predicted)) = Chained("fill", predicted, p, n)
  BY <1>3, Zenon DEF Chained
<1>5. Align(times, predicted) =
        [t \in 1..n |-> [ts |-> p[t], prediction |-> Chained("fill", predicted, p, n)[t]]]
  BY <1>2, <1>4
<1> QED BY <1>5 DEF p

LEMMA StepsAgree ==
  ASSUME NEW kind \in {"ema", "hysteresis", "confirm", "hold"}, NEW option, NEW p, NEW q,
         NEW n \in Nat, NEW m \in Nat, n <= m, \A t \in 1..n : p[t] = q[t]
  PROVE  \A t \in 1..n : Chained(kind, option, p, n)[t] = Chained(kind, option, q, m)[t]
<1>1. \A t \in 1..n : \A before :
          Stepping(kind, option, p, t, before) = Stepping(kind, option, q, t, before)
  BY DEF Stepping
<1> QED BY <1>1, ChainsAgree

LEMMA EmaGrows ==
  ASSUME NEW p, NEW q, Grows(p, q), NEW span
  PROVE  Grows(Ema(p, span), Ema(q, span))
<1>1. PICK n, m \in Nat : /\ n <= m /\ IsRows(p, n) /\ IsRows(q, m)
                          /\ \A t \in 1..n : p[t] = q[t]
  BY DEF Grows
<1>2. /\ Ema(p, span) = [t \in 1..n |-> Chained("ema", span, p, n)[t]]
      /\ Ema(q, span) = [t \in 1..m |-> Chained("ema", span, q, m)[t]]
  BY <1>1, EmaIs
<1>3. \A t \in 1..n : Chained("ema", span, p, n)[t] = Chained("ema", span, q, m)[t]
  BY <1>1, StepsAgree
<1> DEFINE a == Ema(p, span)
           b == Ema(q, span)
<1>4. a = [t \in 1..n |-> a[t]] /\ b = [t \in 1..m |-> b[t]] /\ \A t \in 1..n : a[t] = b[t]
  BY <1>1, <1>2, <1>3
<1> HIDE DEF a, b
<1>5. IsRows(a, n) /\ IsRows(b, m)
  BY <1>1, <1>4 DEF IsRows
<1>6. Grows(a, b)
  BY <1>1, <1>4, <1>5 DEF Grows
<1> QED BY <1>6 DEF a, b

LEMMA HysteresisGrows ==
  ASSUME NEW p, NEW q, Grows(p, q), NEW enter, NEW exit
  PROVE  Grows(Hysteresis(p, enter, exit), Hysteresis(q, enter, exit))
<1>1. PICK n, m \in Nat : /\ n <= m /\ IsRows(p, n) /\ IsRows(q, m)
                          /\ \A t \in 1..n : p[t] = q[t]
  BY DEF Grows
<1> DEFINE both == <<enter, exit>>
<1>2. /\ Hysteresis(p, enter, exit) = [t \in 1..n |-> Chained("hysteresis", both, p, n)[t]]
      /\ Hysteresis(q, enter, exit) = [t \in 1..m |-> Chained("hysteresis", both, q, m)[t]]
  BY <1>1, HysteresisIs
<1> HIDE DEF both
<1>3. \A t \in 1..n : Chained("hysteresis", both, p, n)[t] = Chained("hysteresis", both, q, m)[t]
  BY <1>1, StepsAgree
<1> DEFINE a == Hysteresis(p, enter, exit)
           b == Hysteresis(q, enter, exit)
<1>4. a = [t \in 1..n |-> a[t]] /\ b = [t \in 1..m |-> b[t]] /\ \A t \in 1..n : a[t] = b[t]
  BY <1>1, <1>2, <1>3
<1> HIDE DEF a, b
<1>5. IsRows(a, n) /\ IsRows(b, m)
  BY <1>1, <1>4 DEF IsRows
<1>6. Grows(a, b)
  BY <1>1, <1>4, <1>5 DEF Grows
<1> QED BY <1>6 DEF a, b

LEMMA ConfirmGrows ==
  ASSUME NEW p, NEW q, Grows(p, q), NEW count
  PROVE  Grows(Confirm(p, count), Confirm(q, count))
<1>1. PICK n, m \in Nat : /\ n <= m /\ IsRows(p, n) /\ IsRows(q, m)
                          /\ \A t \in 1..n : p[t] = q[t]
  BY DEF Grows
<1>2. /\ Confirm(p, count) = [t \in 1..n |-> Chained("confirm", count, p, n)[t].counted]
      /\ Confirm(q, count) = [t \in 1..m |-> Chained("confirm", count, q, m)[t].counted]
  BY <1>1, ConfirmIs
<1>3. \A t \in 1..n : Chained("confirm", count, p, n)[t] = Chained("confirm", count, q, m)[t]
  BY <1>1, StepsAgree
<1> DEFINE a == Confirm(p, count)
           b == Confirm(q, count)
<1>4. a = [t \in 1..n |-> a[t]] /\ b = [t \in 1..m |-> b[t]] /\ \A t \in 1..n : a[t] = b[t]
  BY <1>1, <1>2, <1>3
<1> HIDE DEF a, b
<1>5. IsRows(a, n) /\ IsRows(b, m)
  BY <1>1, <1>4 DEF IsRows
<1>6. Grows(a, b)
  BY <1>1, <1>4, <1>5 DEF Grows
<1> QED BY <1>6 DEF a, b

LEMMA MinHoldGrows ==
  ASSUME NEW p, NEW q, Grows(p, q), NEW count
  PROVE  Grows(MinHold(p, count), MinHold(q, count))
<1>1. PICK n, m \in Nat : /\ n <= m /\ IsRows(p, n) /\ IsRows(q, m)
                          /\ \A t \in 1..n : p[t] = q[t]
  BY DEF Grows
<1>2. /\ MinHold(p, count) = [t \in 1..n |-> Chained("hold", count, p, n)[t].held]
      /\ MinHold(q, count) = [t \in 1..m |-> Chained("hold", count, q, m)[t].held]
  BY <1>1, MinHoldIs
<1>3. \A t \in 1..n : Chained("hold", count, p, n)[t] = Chained("hold", count, q, m)[t]
  BY <1>1, StepsAgree
<1> DEFINE a == MinHold(p, count)
           b == MinHold(q, count)
<1>4. a = [t \in 1..n |-> a[t]] /\ b = [t \in 1..m |-> b[t]] /\ \A t \in 1..n : a[t] = b[t]
  BY <1>1, <1>2, <1>3
<1> HIDE DEF a, b
<1>5. IsRows(a, n) /\ IsRows(b, m)
  BY <1>1, <1>4 DEF IsRows
<1>6. Grows(a, b)
  BY <1>1, <1>4, <1>5 DEF Grows
<1> QED BY <1>6 DEF a, b

-----------------------------------------------------------------------------
\* Each step gives the same rows as before, and more, when its input grows.

LEMMA ThresholdGrows ==
  ASSUME NEW p, NEW q, Grows(p, q), NEW limit
  PROVE  Grows(Threshold(p, limit), Threshold(q, limit))
<1>1. PICK n, m \in Nat : /\ n <= m /\ IsRows(p, n) /\ IsRows(q, m)
                          /\ \A t \in 1..n : p[t] = q[t]
  BY DEF Grows
<1>2. Len(p) = n /\ Len(q) = m
  BY <1>1, LenIs
<1> DEFINE a == Threshold(p, limit)
           b == Threshold(q, limit)
<1>3. a = [t \in 1..n |-> a[t]] /\ b = [t \in 1..m |-> b[t]]
  BY <1>2 DEF Threshold
<1>4. \A t \in 1..n : a[t] = b[t]
  BY <1>1, <1>2 DEF Threshold
<1> HIDE DEF a, b
<1>5. IsRows(a, n) /\ IsRows(b, m)
  BY <1>1, <1>3 DEF IsRows
<1>6. \A t \in 1..n : a[t] = b[t]
  BY <1>4
<1>7. Grows(a, b)
  BY <1>1, <1>5, <1>6 DEF Grows
<1> QED BY <1>7 DEF a, b

LEMMA LongOnlyGrows ==
  ASSUME NEW p, NEW q, Grows(p, q)
  PROVE  Grows(LongOnly(p), LongOnly(q))
<1>1. PICK n, m \in Nat : /\ n <= m /\ IsRows(p, n) /\ IsRows(q, m)
                          /\ \A t \in 1..n : p[t] = q[t]
  BY DEF Grows
<1>2. Len(p) = n /\ Len(q) = m
  BY <1>1, LenIs
<1> DEFINE a == LongOnly(p)
           b == LongOnly(q)
<1>3. a = [t \in 1..n |-> a[t]] /\ b = [t \in 1..m |-> b[t]]
  BY <1>2 DEF LongOnly
<1>4. \A t \in 1..n : a[t] = b[t]
  BY <1>1, <1>2 DEF LongOnly
<1> HIDE DEF a, b
<1>5. IsRows(a, n) /\ IsRows(b, m)
  BY <1>1, <1>3 DEF IsRows
<1>6. \A t \in 1..n : a[t] = b[t]
  BY <1>4
<1>7. Grows(a, b)
  BY <1>1, <1>5, <1>6 DEF Grows
<1> QED BY <1>7 DEF a, b

\* A window of rows that are the same has the same rank.
LEMMA RankAtAgrees ==
  ASSUME NEW p, NEW q, NEW t \in Nat, NEW window \in Nat \ {0}, window <= t,
         \A s \in 1..t : p[s] = q[s]
  PROVE  RankAt(p, t, window) = RankAt(q, t, window)
<1> DEFINE others == Window(t, window) \ {t}
<1>1. \A s \in others : p[s] = q[s] /\ p[t] = q[t]
  BY DEF Window
<1> HIDE DEF others
<1>2. /\ {s \in others : Less(p[s], p[t])} = {s \in others : Less(q[s], q[t])}
      /\ {s \in others : Same(p[s], p[t])} = {s \in others : Same(q[s], q[t])}
  BY <1>1
<1> QED BY <1>2 DEF RankAt, others

LEMMA RankGrows ==
  ASSUME NEW p, NEW q, Grows(p, q), NEW window \in Nat \ {0}
  PROVE  Grows(Rank(p, window), Rank(q, window))
<1>1. PICK n, m \in Nat : /\ n <= m /\ IsRows(p, n) /\ IsRows(q, m)
                          /\ \A t \in 1..n : p[t] = q[t]
  BY DEF Grows
<1>2. Len(p) = n /\ Len(q) = m
  BY <1>1, LenIs
<1> DEFINE a == Rank(p, window)
           b == Rank(q, window)
<1>3. a = [t \in 1..n |-> a[t]] /\ b = [t \in 1..m |-> b[t]]
  BY <1>2 DEF Rank
<1>4. ASSUME NEW t \in 1..n PROVE a[t] = b[t]
  <2>1. /\ a[t] = IF t < window THEN Num(0) ELSE RankAt(p, t, window)
        /\ b[t] = IF t < window THEN Num(0) ELSE RankAt(q, t, window)
    BY <1>1, <1>2 DEF Rank
  <2>2. ~(t < window) => RankAt(p, t, window) = RankAt(q, t, window)
    <3>1. \A s \in 1..t : p[s] = q[s]
      BY <1>1
    <3> QED BY <3>1, RankAtAgrees
  <2> QED BY <2>1, <2>2
<1> HIDE DEF a, b
<1>5. IsRows(a, n) /\ IsRows(b, m)
  BY <1>1, <1>3 DEF IsRows
<1>6. \A t \in 1..n : a[t] = b[t]
  BY <1>4
<1>7. Grows(a, b)
  BY <1>1, <1>5, <1>6 DEF Grows
<1> QED BY <1>7 DEF a, b

LEMMA ZscoreAtAgrees ==
  ASSUME NEW p, NEW q, NEW t \in Nat, NEW window \in Nat \ {0}, window <= t,
         \A s \in 1..t : p[s] = q[s]
  PROVE  ZscoreAt(p, t, window) = ZscoreAt(q, t, window)
<1>1. \A i \in 1..window : p[t - window + i][1] = q[t - window + i][1]
  OBVIOUS
<1>2. [i \in 1..window |-> p[t - window + i][1]] = [i \in 1..window |-> q[t - window + i][1]]
  BY <1>1
<1>3. p[t] = q[t]
  OBVIOUS
<1> QED BY <1>2, <1>3, Zenon DEF ZscoreAt

LEMMA ZscoreGrows ==
  ASSUME NEW p, NEW q, Grows(p, q), NEW window \in Nat \ {0}
  PROVE  Grows(Zscore(p, window), Zscore(q, window))
<1>1. PICK n, m \in Nat : /\ n <= m /\ IsRows(p, n) /\ IsRows(q, m)
                          /\ \A t \in 1..n : p[t] = q[t]
  BY DEF Grows
<1>2. Len(p) = n /\ Len(q) = m
  BY <1>1, LenIs
<1> DEFINE a == Zscore(p, window)
           b == Zscore(q, window)
<1>3. a = [t \in 1..n |-> a[t]] /\ b = [t \in 1..m |-> b[t]]
  BY <1>2 DEF Zscore
<1>4. ASSUME NEW t \in 1..n PROVE a[t] = b[t]
  <2>1. /\ a[t] = IF t < window THEN Num(0) ELSE ZscoreAt(p, t, window)
        /\ b[t] = IF t < window THEN Num(0) ELSE ZscoreAt(q, t, window)
    BY <1>1, <1>2 DEF Zscore
  <2>2. ~(t < window) => ZscoreAt(p, t, window) = ZscoreAt(q, t, window)
    <3>1. \A s \in 1..t : p[s] = q[s]
      BY <1>1
    <3> QED BY <3>1, ZscoreAtAgrees
  <2> QED BY <2>1, <2>2
<1> HIDE DEF a, b
<1>5. IsRows(a, n) /\ IsRows(b, m)
  BY <1>1, <1>3 DEF IsRows
<1>6. \A t \in 1..n : a[t] = b[t]
  BY <1>4
<1>7. Grows(a, b)
  BY <1>1, <1>5, <1>6 DEF Grows
<1> QED BY <1>7 DEF a, b

LEMMA PartsAgree ==
  ASSUME NEW p, NEW q, NEW n \in Nat, NEW m \in Nat, n <= m, IsRows(p, n), IsRows(q, m),
         \A t \in 1..n : p[t] = q[t], NEW a \in 1..n, NEW b \in Nat, b <= n
  PROVE  SubSeq(p, a, b) = SubSeq(q, a, b)
<1> DEFINE S == {q[t] : t \in 1..m}
<1>1. \A t \in 1..m : q[t] \in S
  BY SMT
<1>2. p \in Seq(S) /\ q \in Seq(S) /\ Len(p) = n /\ Len(q) = m
  <2>1. \A t \in 1..n : p[t] \in S
    BY <1>1
  <2> HIDE DEF S
  <2> QED BY <1>1, <2>1, RowsAreSeq, LenIs
<1> HIDE DEF S
<1>3. CASE a <= b
  <2>1. /\ SubSeq(p, a, b) = [i \in 1..(b - a + 1) |-> p[a + i - 1]]
        /\ SubSeq(q, a, b) = [i \in 1..(b - a + 1) |-> q[a + i - 1]]
    BY <1>2, <1>3
  <2>2. \A i \in 1..(b - a + 1) : p[a + i - 1] = q[a + i - 1]
    BY <1>3
  <2> QED BY <2>1, <2>2
<1>4. CASE b < a
  BY <1>2, <1>4
<1> QED BY <1>3, <1>4

LEMMA RefitRowIs ==
  ASSUME NEW t \in Nat, NEW window \in Nat, NEW every \in Nat \ {0}, t > window
  PROVE  RefitRow(t, window, every) \in window + 1..t
<1> DEFINE since == t - 1 - window
<1>1. since \in Nat
  OBVIOUS
<1> HIDE DEF since
<1>2. since % every \in 0..since
  BY <1>1
<1> QED BY <1>2 DEF since, RefitRow

LEMMA KmeansGrows ==
  ASSUME NEW p, NEW q, Grows(p, q), NEW k, NEW window \in Nat \ {0}, NEW every \in Nat \ {0}
  PROVE  Grows(Kmeans(p, k, window, every), Kmeans(q, k, window, every))
<1>1. PICK n, m \in Nat : /\ n <= m /\ IsRows(p, n) /\ IsRows(q, m)
                          /\ \A t \in 1..n : p[t] = q[t]
  BY DEF Grows
<1>2. Len(p) = n /\ Len(q) = m
  BY <1>1, LenIs
<1> DEFINE a == Kmeans(p, k, window, every)
           b == Kmeans(q, k, window, every)
<1>3. a = [t \in 1..n |-> a[t]] /\ b = [t \in 1..m |-> b[t]]
  BY <1>2 DEF Kmeans
<1>4. ASSUME NEW t \in 1..n PROVE a[t] = b[t]
  <2> DEFINE f == RefitRow(t, window, every)
             Grouped(r, values) ==
               IF Fit(values, k) = <<>> THEN 0 ELSE Label(Nearest(r[t], Fit(values, k)), k)
  <2>1. /\ a[t] = IF t <= window THEN 0 ELSE Grouped(p, SubSeq(p, f - window, f - 1))
        /\ b[t] = IF t <= window THEN 0 ELSE Grouped(q, SubSeq(q, f - window, f - 1))
    BY <1>1, <1>2 DEF Kmeans
  <2>2. ASSUME t > window
        PROVE  SubSeq(p, f - window, f - 1) = SubSeq(q, f - window, f - 1)
    <3>1. f \in window + 1..t
      BY <2>2, RefitRowIs
    <3> HIDE DEF f
    <3>2. f - window \in 1..n /\ f - 1 \in Nat /\ f - 1 <= n
      BY <3>1
    <3> QED BY <1>1, <3>2, PartsAgree
  <2>3. p[t] = q[t]
    BY <1>1
  <2>4. \A values : Grouped(p, values) = Grouped(q, values)
    BY <2>3
  <2> HIDE DEF f, Grouped, a, b
  <2>5. CASE t <= window
    BY <2>1, <2>5
  <2>6. CASE t > window
    <3>1. ~(t <= window)
      BY <2>6
    <3> QED BY <2>1, <2>2, <2>4, <2>6, <3>1
  <2> QED BY <2>5, <2>6
<1> HIDE DEF a, b
<1>5. IsRows(a, n) /\ IsRows(b, m)
  BY <1>1, <1>3 DEF IsRows
<1>6. \A t \in 1..n : a[t] = b[t]
  BY <1>4
<1>7. Grows(a, b)
  BY <1>1, <1>5, <1>6 DEF Grows
<1> QED BY <1>7 DEF a, b

LEMMA PrepareGrows ==
  ASSUME NEW a \in Args, Accepted(a), NEW p, NEW q, Grows(p, q)
  PROVE  Grows(Prepare(p, a), Prepare(q, a))
<1> DEFINE Calibrated(s) == CASE a.calibrate = "rank"   -> Rank(s, a.calibration_window)
                              [] a.calibrate = "zscore" -> Zscore(s, a.calibration_window)
                              [] OTHER                  -> s
<1>1. Grows(Calibrated(p), Calibrated(q))
  <2>1. CASE a.calibrate \in {"rank", "zscore"}
    <3>1. a.calibration_window \in Nat \ {0}
      BY <2>1, ArgsAssumption, UnsetAssumption DEF Accepted, Given, Counts
    <3> QED BY <2>1, <3>1, RankGrows, ZscoreGrows
  <2>2. CASE a.calibrate \notin {"rank", "zscore"}
    BY <2>2
  <2> QED BY <2>1, <2>2
<1>2. \A s : Prepare(s, a) = IF Given(a.ema) THEN Ema(Calibrated(s), a.ema) ELSE Calibrated(s)
  BY DEF Prepare, IfGiven
<1> HIDE DEF Calibrated
<1> QED BY <1>1, <1>2, EmaGrows

LEMMA RuleGrows ==
  ASSUME NEW a \in Args, Accepted(a), NEW p, NEW q, Grows(p, q), NEW limit
  PROVE  Grows(Rule(p, a, limit), Rule(q, a, limit))
<1>1. CASE a.rule = "threshold"
  BY <1>1, ThresholdGrows DEF Rule
<1>2. CASE a.rule = "hysteresis"
  BY <1>2, HysteresisGrows DEF Rule
<1>3. CASE a.rule = "kmeans"
  <2>1. Given(a.kmeans_window) /\ Given(a.refit_every)
    BY <1>3 DEF Accepted, RuleNeeds, RuleOptions
  <2>2. a.kmeans_window \in Nat \ {0} /\ a.refit_every \in Nat \ {0}
    BY <2>1, ArgsAssumption DEF Given, Counts
  <2> QED BY <1>3, <2>2, KmeansGrows DEF Rule
<1> QED BY <1>1, <1>2, <1>3, ArgsAssumption

LEMMA DecidedGrows ==
  ASSUME NEW a \in Args, Accepted(a), NEW p, NEW q, Grows(p, q), NEW limit
  PROVE  Grows(Decided(p, a, limit), Decided(q, a, limit))
<1>1. Grows(Sided(p, a, limit), Sided(q, a, limit))
  BY RuleGrows, LongOnlyGrows DEF Sided
<1>2. Grows(Settled(p, a, limit), Settled(q, a, limit))
  BY <1>1, ConfirmGrows DEF Settled, IfGiven
<1> QED BY <1>2, MinHoldGrows DEF Decided, IfGiven

-----------------------------------------------------------------------------
\* The rows of align: the candles by their place in time.

Below(S, x) == {s \in S : s < x}

\* The places in a finite set of numbers are 1 up to its size, each once.
LEMMA PlacesDiffer ==
  ASSUME NEW S, S \subseteq Int, IsFiniteSet(S), NEW x \in S, NEW y \in S, x < y
  PROVE  Cardinality(Below(S, x)) < Cardinality(Below(S, y))
<1>0. x \in Int /\ y \in Int /\ \A s \in S : s < x => s < y
  OBVIOUS
<1>1. Below(S, x) \in SUBSET Below(S, y) /\ x \in Below(S, y) /\ x \notin Below(S, x)
  <2>1. \A s \in Below(S, x) : s \in S /\ s < x
    BY DEF Below
  <2>2. \A s \in S : s < y => s \in Below(S, y)
    BY DEF Below
  <2>3. \A s \in Below(S, x) : s \in Below(S, y)
    BY <1>0, <2>1, <2>2
  <2>4. ~(x < x)
    BY <1>0
  <2> QED BY <2>1, <2>2, <2>3, <2>4
<1>2. IsFiniteSet(Below(S, y))
  BY FS_Subset DEF Below
<1>3. /\ Cardinality(Below(S, x)) <= Cardinality(Below(S, y))
      /\ Cardinality(Below(S, x)) # Cardinality(Below(S, y))
  BY <1>1, <1>2, FS_Subset
<1>4. Cardinality(Below(S, x)) \in Nat /\ Cardinality(Below(S, y)) \in Nat
  BY <1>1, <1>2, FS_Subset, FS_CardinalityType
<1> QED BY <1>3, <1>4

LEMMA PlacesCount ==
  ASSUME NEW S, S \subseteq Int, IsFiniteSet(S)
  PROVE  /\ Cardinality(S) \in Nat
         /\ \A i \in 1..Cardinality(S) : \E x \in S : Cardinality(Below(S, x)) = i - 1
         /\ \A x, y \in S : Cardinality(Below(S, x)) = Cardinality(Below(S, y)) => x = y
<1> DEFINE n == Cardinality(S)
           place == [x \in S |-> Cardinality(Below(S, x))]
<1>1. n \in Nat
  BY FS_CardinalityType
<1>2. \A x, y \in S : Cardinality(Below(S, x)) = Cardinality(Below(S, y)) => x = y
  <2> SUFFICES ASSUME NEW x \in S, NEW y \in S, x # y
               PROVE  Cardinality(Below(S, x)) # Cardinality(Below(S, y))
    OBVIOUS
  <2>1. /\ Cardinality(Below(S, x)) \in Nat /\ Cardinality(Below(S, y)) \in Nat
    <3>1. IsFiniteSet(Below(S, x)) /\ IsFiniteSet(Below(S, y))
      BY FS_Subset DEF Below
    <3> QED BY <3>1, FS_CardinalityType
  <2>2. x < y \/ y < x
    OBVIOUS
  <2>3. CASE x < y
    <3>1. Cardinality(Below(S, x)) < Cardinality(Below(S, y))
      BY <2>3, PlacesDiffer
    <3> QED BY <2>1, <3>1
  <2>4. CASE y < x
    <3>1. Cardinality(Below(S, y)) < Cardinality(Below(S, x))
      BY <2>4, PlacesDiffer
    <3> QED BY <2>1, <3>1
  <2> QED BY <2>2, <2>3, <2>4
<1>3. ASSUME NEW x \in S PROVE Cardinality(Below(S, x)) \in 0..(n - 1)
  <2>1. Below(S, x) \in SUBSET (S \ {x})
    BY DEF Below
  <2>2. IsFiniteSet(S \ {x}) /\ Cardinality(S \ {x}) = n - 1
    BY FS_RemoveElement
  <2>3. IsFiniteSet(Below(S, x)) /\ Cardinality(Below(S, x)) <= n - 1
    BY <2>1, <2>2, FS_Subset
  <2>4. Cardinality(Below(S, x)) \in Nat
    BY <2>3, FS_CardinalityType
  <2> QED BY <1>1, <2>3, <2>4
<1>4. place \in Injection(S, 0..(n - 1))
  BY <1>2, <1>3 DEF Injection, IsInjective
<1>5. IsFiniteSet(0..(n - 1)) /\ Cardinality(0..(n - 1)) = n
  <2>1. 0 \in Int /\ n - 1 \in Int
    BY <1>1
  <2>2. Cardinality(0..(n - 1)) = IF 0 > n - 1 THEN 0 ELSE (n - 1) - 0 + 1
    BY <2>1, FS_Interval
  <2> QED BY <1>1, <2>1, <2>2, FS_Interval
<1>6. place \in Surjection(S, 0..(n - 1))
  <2> HIDE DEF place
  <2> QED BY <1>4, <1>5, FS_Injection
<1>7. \A i \in 1..n : \E x \in S : Cardinality(Below(S, x)) = i - 1
  <2> TAKE i \in 1..n
  <2>1. i - 1 \in 0..(n - 1)
    BY <1>1
  <2> QED BY <1>6, <2>1 DEF Surjection
<1> QED BY <1>1, <1>2, <1>7

\* The candle of row i, and the candles that have a row.
RowAt(S, i) == CHOOSE x \in S : Cardinality({s \in S : s < x}) = i - 1
Inside(times, predicted) ==
  {t \in times : \E a, b \in Landed(times, predicted) : a <= t /\ t <= b}

LEMMA RowsAre ==
  ASSUME NEW times, NEW predicted
  PROVE  Rows(times, predicted) =
           [i \in 1..Cardinality(Inside(times, predicted)) |-> RowAt(Inside(times, predicted), i)]
  BY DEF Rows, RowAt, Inside

\* More rows at the end leave the earlier ones where they are.
LEMMA RowsStay ==
  ASSUME NEW S, NEW T, T \subseteq Int, IsFiniteSet(T), S \subseteq T,
         \A x \in S, y \in T \ S : x < y
  PROVE  /\ Cardinality(S) \in Nat /\ Cardinality(T) \in Nat /\ Cardinality(S) <= Cardinality(T)
         /\ \A i \in 1..Cardinality(S) : RowAt(S, i) \in S /\ RowAt(S, i) = RowAt(T, i)
<1>1. IsFiniteSet(S) /\ S \subseteq Int /\ Cardinality(S) <= Cardinality(T)
  BY FS_Subset
<1>2. Cardinality(S) \in Nat /\ Cardinality(T) \in Nat
  BY <1>1, FS_CardinalityType
<1>3. ASSUME NEW i \in 1..Cardinality(S)
      PROVE  RowAt(S, i) \in S /\ RowAt(S, i) = RowAt(T, i)
  <2> DEFINE x == RowAt(S, i)
  <2>0. \E y \in S : Cardinality(Below(S, y)) = i - 1
    BY <1>1, PlacesCount
  <2>1. x \in S /\ Cardinality(Below(S, x)) = i - 1
    BY <2>0 DEF RowAt, Below
  <2> HIDE DEF x
  <2>2. \A s \in T : s < x => s \in S
    BY <1>1, <2>1
  <2>3. Below(T, x) = Below(S, x)
    BY <2>2 DEF Below
  <2>4. x \in T /\ Cardinality(Below(T, x)) = i - 1
    BY <2>1, <2>3
  <2>5. \A y \in T : Cardinality(Below(T, y)) = i - 1 => y = x
    BY <2>4, PlacesCount
  <2>6. RowAt(T, i) = x
    BY <2>4, <2>5 DEF RowAt, Below
  <2> QED BY <2>1, <2>6 DEF x
<1> QED BY <1>1, <1>2, <1>3

LEMMA AlignGrows ==
  ASSUME NEW times, times \subseteq Int, IsFiniteSet(times),
         NEW before, DOMAIN before \subseteq Int, NEW t \in Int, \A s \in DOMAIN before : s < t,
         NEW after, DOMAIN after = DOMAIN before \cup {t},
         \A s \in DOMAIN before : after[s] = before[s]
  PROVE  Grows(Predictions(Align(times, before)), Predictions(Align(times, after)))
<1> DEFINE S == Inside(times, before)
           T == Inside(times, after)
           n == Cardinality(S)
           m == Cardinality(T)
           p == Rows(times, before)
           q == Rows(times, after)
<1>1. T \subseteq Int /\ IsFiniteSet(T)
  BY FS_Subset DEF Inside
<1>2. \A x \in S : x < t /\ x \in T
  BY DEF Inside, Landed
<1>3. ASSUME NEW x \in S, NEW y \in T \ S PROVE x < y
  <2>1. PICK a, b \in Landed(times, before) : a <= x /\ x <= b
    BY DEF Inside
  <2>2. PICK c, d \in Landed(times, after) : c <= y /\ y <= d
    BY DEF Inside
  <2>3. /\ x \in Int /\ y \in Int /\ y \in times
        /\ b \in Int /\ b < t /\ c \in Int /\ (c = t \/ c \in Landed(times, before))
    BY <1>1 DEF Inside, Landed
  <2>4. SUFFICES ASSUME y <= x PROVE FALSE
    BY <2>3
  <2>5. c \in Landed(times, before) => y \in S
    BY <2>1, <2>2, <2>3, <2>4 DEF Inside
  <2> QED BY <2>1, <2>2, <2>3, <2>4, <2>5
<1>4. /\ n \in Nat /\ m \in Nat /\ n <= m
      /\ \A i \in 1..n : RowAt(S, i) \in S /\ RowAt(S, i) = RowAt(T, i)
  <2>1. S \subseteq T
    BY <1>2
  <2> HIDE DEF S, T
  <2> QED BY <1>1, <1>3, <2>1, RowsStay
<1>5. p = [i \in 1..n |-> RowAt(S, i)] /\ q = [i \in 1..m |-> RowAt(T, i)]
  BY RowsAre
<1> DEFINE fills == Chained("fill", before, p, n)
           filled == Chained("fill", after, q, m)
           a0 == Align(times, before)
           b0 == Align(times, after)
<1>6. IsRows(p, n) /\ IsRows(q, m)
  <2> HIDE DEF n, m, p, q
  <2> QED BY <1>4, <1>5 DEF IsRows
<1>7. /\ a0 = [i \in 1..n |-> [ts |-> p[i], prediction |-> fills[i]]]
      /\ b0 = [i \in 1..m |-> [ts |-> q[i], prediction |-> filled[i]]]
  BY <1>6, AlignIs
<1>8. \A i \in 1..n : \A given : Stepping("fill", before, p, i, given) = Stepping("fill", after, q, i, given)
  <2>1. TAKE i \in 1..n
  <2>2. p[i] = q[i] /\ p[i] \in S
    <3> HIDE DEF n, m, S, T, p, q
    <3> QED BY <1>4, <1>5
  <2>3. p[i] # t
    <3> HIDE DEF p, S
    <3> QED BY <1>2, <2>2
  <2> HIDE DEF p, q
  <2> QED BY <2>2, <2>3 DEF Stepping
<1> HIDE DEF n, m, p, q, S, T
<1>9. \A i \in 0..n : fills[i] = filled[i]
  BY <1>4, <1>8, ChainsAgree
<1> HIDE DEF fills, filled, a0, b0
<1>10. IsRows(a0, n) /\ IsRows(b0, m)
  BY <1>4, <1>7 DEF IsRows
<1>11. Len(a0) = n /\ Len(b0) = m
  BY <1>10, LenIs
<1>12. /\ Predictions(a0) = [i \in 1..n |-> fills[i]]
       /\ Predictions(b0) = [i \in 1..m |-> filled[i]]
  BY <1>4, <1>7, <1>11 DEF Predictions
<1> DEFINE e == Predictions(a0)
           g == Predictions(b0)
<1>13. e = [i \in 1..n |-> e[i]] /\ g = [i \in 1..m |-> g[i]] /\ \A i \in 1..n : e[i] = g[i]
  BY <1>4, <1>9, <1>12
<1> HIDE DEF e, g
<1>14. IsRows(e, n) /\ IsRows(g, m)
  BY <1>4, <1>13 DEF IsRows
<1>15. Grows(e, g)
  BY <1>4, <1>13, <1>14 DEF Grows
<1> QED BY <1>15 DEF e, g, a0, b0

------------------------------------------------------------------------
-----------------------------------------------------------------------------
\* The frame: in order, complete, and each row with the latest prediction.

Rationals == Int \X (Nat \ {0})

\* A finite set of numbers has a least and a greatest one.
LEMMA FiniteHas ==
  ASSUME NEW S, S \subseteq Int, IsFiniteSet(S), S # {}
  PROVE  /\ Min(S) \in S /\ \A y \in S : Min(S) <= y
         /\ Max(S) \in S /\ \A y \in S : y <= Max(S)
<1> DEFINE n == Cardinality(S)
<1>1. n \in Nat \ {0}
  BY FS_CardinalityType, FS_EmptySet
<1>2. PICK x \in S : Cardinality(Below(S, x)) = 1 - 1
  <2> HIDE DEF n
  <2>1. 1 \in 1..n
    BY <1>1
  <2> QED BY <2>1, PlacesCount DEF n
<1>3. PICK z \in S : Cardinality(Below(S, z)) = n - 1
  <2> HIDE DEF n
  <2>1. n \in 1..n
    BY <1>1
  <2> QED BY <2>1, PlacesCount DEF n
<1>4. ASSUME NEW y \in S PROVE x <= y /\ y <= z
  <2>1. y \in Int /\ x \in Int /\ z \in Int
    OBVIOUS
  <2>2. Cardinality(Below(S, y)) \in Nat /\ Cardinality(Below(S, y)) <= n - 1
    <3>1. Below(S, y) \in SUBSET (S \ {y})
      BY <2>1 DEF Below
    <3>2. IsFiniteSet(S \ {y}) /\ Cardinality(S \ {y}) = n - 1
      BY FS_RemoveElement
    <3>3. IsFiniteSet(Below(S, y)) /\ Cardinality(Below(S, y)) <= n - 1
      BY <3>1, <3>2, FS_Subset
    <3> QED BY <3>3, FS_CardinalityType
  <2> HIDE DEF n
  <2>3. y < x => Cardinality(Below(S, y)) < Cardinality(Below(S, x))
    BY PlacesDiffer
  <2>4. z < y => Cardinality(Below(S, z)) < Cardinality(Below(S, y))
    BY PlacesDiffer
  <2> QED BY <1>1, <1>2, <1>3, <2>1, <2>2, <2>3, <2>4
<1>5. Min(S) \in S /\ \A y \in S : Min(S) <= y
  BY <1>4 DEF Min
<1>6. \A y \in S : z >= y
  BY <1>4
<1>7. Max(S) \in S /\ \A y \in S : Max(S) >= y
  BY <1>6 DEF Max
<1> QED BY <1>5, <1>7

LEMMA GreatestIs ==
  ASSUME NEW S, S \subseteq Int, NEW x \in S, \A y \in S : y <= x
  PROVE  Max(S) = x
<1>1. \E z \in S : \A y \in S : z >= y
  OBVIOUS
<1>2. Max(S) \in S /\ \A y \in S : Max(S) >= y
  BY <1>1 DEF Max
<1>3. Max(S) \in Int /\ x \in Int /\ Max(S) >= x /\ Max(S) <= x
  BY <1>2
<1> QED BY <1>3

LEMMA RowsAreInOrder ==
  ASSUME NEW S, S \subseteq Int, IsFiniteSet(S)
  PROVE  /\ Cardinality(S) \in Nat
         /\ \A i \in 1..Cardinality(S) : RowAt(S, i) \in S
         /\ \A i, j \in 1..Cardinality(S) : i < j => RowAt(S, i) < RowAt(S, j)
         /\ \A x \in S : \E i \in 1..Cardinality(S) : x = RowAt(S, i)
<1> DEFINE n == Cardinality(S)
<1>1. n \in Nat
  BY FS_CardinalityType
<1>2. ASSUME NEW i \in 1..n
      PROVE  RowAt(S, i) \in S /\ Cardinality(Below(S, RowAt(S, i))) = i - 1
  <2>1. \E x \in S : Cardinality(Below(S, x)) = i - 1
    BY PlacesCount
  <2> QED BY <2>1 DEF RowAt, Below
<1>3. ASSUME NEW i \in 1..n, NEW j \in 1..n, i < j PROVE RowAt(S, i) < RowAt(S, j)
  <2> DEFINE x == RowAt(S, i)
             y == RowAt(S, j)
  <2>1. /\ x \in S /\ y \in S /\ x \in Int /\ y \in Int
        /\ Cardinality(Below(S, x)) = i - 1 /\ Cardinality(Below(S, y)) = j - 1
    BY <1>2
  <2> HIDE DEF x, y, n
  <2>2. x # y
    BY <1>1, <1>3, <2>1
  <2>3. ~(y < x)
    <3>1. y < x => Cardinality(Below(S, y)) < Cardinality(Below(S, x))
      BY <2>1, PlacesDiffer
    <3> QED BY <1>1, <1>3, <2>1, <3>1
  <2>4. x < y
    BY <2>1, <2>2, <2>3
  <2> QED BY <2>4 DEF x, y
<1>4. ASSUME NEW x \in S PROVE \E i \in 1..n : x = RowAt(S, i)
  <2>1. Cardinality(Below(S, x)) \in 0..(n - 1)
    <3>1. Below(S, x) \in SUBSET (S \ {x})
      BY DEF Below
    <3>2. IsFiniteSet(S \ {x}) /\ Cardinality(S \ {x}) = n - 1
      BY FS_RemoveElement
    <3>3. IsFiniteSet(Below(S, x)) /\ Cardinality(Below(S, x)) <= n - 1
      BY <3>1, <3>2, FS_Subset
    <3>4. Cardinality(Below(S, x)) \in Nat
      BY <3>3, FS_CardinalityType
    <3> QED BY <1>1, <3>3, <3>4
  <2>2. PICK i \in 1..n : i - 1 = Cardinality(Below(S, x))
    <3> DEFINE i == Cardinality(Below(S, x)) + 1
    <3>1. i \in 1..n /\ i - 1 = Cardinality(Below(S, x))
      BY <1>1, <2>1
    <3> QED BY <3>1
  <2>3. RowAt(S, i) \in S /\ Cardinality(Below(S, RowAt(S, i))) = Cardinality(Below(S, x))
    BY <1>2, <2>2
  <2>4. RowAt(S, i) = x
    BY <2>3, PlacesCount
  <2> QED BY <2>4
<1> QED BY <1>1, <1>2, <1>3, <1>4

\* The rows of align, each with the latest prediction that has a candle.
LEMMA FrameIs ==
  ASSUME NEW times, times \subseteq Int, IsFiniteSet(times), NEW predicted,
         Landed(times, predicted) # {}
  PROVE  LET L == Landed(times, predicted)
             a == Align(times, predicted)
             n == Cardinality(Inside(times, predicted))
         IN  /\ IsRows(a, n)
             /\ IsRows(Rows(times, predicted), n)
             /\ \A t \in 1..n : a[t].ts = Rows(times, predicted)[t]
             /\ {a[t].ts : t \in 1..n} = Inside(times, predicted)
             /\ \A t, u \in 1..n : t < u => a[t].ts < a[u].ts
             /\ \A t \in 1..n : LET past == {s \in L : s <= a[t].ts}
                                IN  /\ a[t].prediction = predicted[Max(past)]
                                    /\ Max(past) \in L
<1> DEFINE L == Landed(times, predicted)
           a == Align(times, predicted)
           S == Inside(times, predicted)
           n == Cardinality(S)
           p == Rows(times, predicted)
           fills == Chained("fill", predicted, p, n)
           Past(t) == {s \in L : s <= p[t]}
<1>1. S \subseteq Int /\ IsFiniteSet(S) /\ n \in Nat /\ L \subseteq S /\ S \subseteq times
  <2>1. S \subseteq times
    BY DEF Inside
  <2>2. IsFiniteSet(S) /\ S \subseteq Int
    BY <2>1, FS_Subset
  <2>5. \A x \in times : x <= x
    OBVIOUS
  <2>3. \A x \in L : x \in times /\ x <= x
    BY <2>5, Zenon DEF Landed
  <2>4. L \subseteq S
    BY <2>3 DEF Inside
  <2> QED BY <2>1, <2>2, <2>4, FS_CardinalityType
<1>2. p = [i \in 1..n |-> RowAt(S, i)]
  BY RowsAre
<1>3. /\ \A i \in 1..n : p[i] \in S
      /\ \A i, j \in 1..n : i < j => p[i] < p[j]
      /\ \A x \in S : \E i \in 1..n : x = p[i]
  <2> HIDE DEF S, n, p
  <2>1. /\ \A i \in 1..n : RowAt(S, i) \in S
        /\ \A i, j \in 1..n : i < j => RowAt(S, i) < RowAt(S, j)
        /\ \A x \in S : \E i \in 1..n : x = RowAt(S, i)
    BY <1>1, RowsAreInOrder DEF n
  <2> QED BY <1>2, <2>1
<1>4. IsRows(p, n)
  <2> HIDE DEF S, n, p
  <2> QED BY <1>1, <1>2 DEF IsRows
<1>5. a = [t \in 1..n |-> [ts |-> p[t], prediction |-> fills[t]]]
  BY <1>4, AlignIs
<1>6. Chain(fills, "fill", predicted, p, n)
  BY <1>1, ChainsAre
<1>7. \A t \in 1..n : fills[t] = IF p[t] \in DOMAIN predicted THEN predicted[p[t]] ELSE fills[t - 1]
  <2> HIDE DEF fills, p, n
  <2> QED BY <1>1, <1>6 DEF Chain, Stepping
<1>8. \A x \in L : x \in DOMAIN predicted /\ x \in times
  BY DEF Landed
<1>9. \A x \in times : x \in DOMAIN predicted => x \in L
  BY DEF Landed
<1>10. S # {} => \E x \in L : \A t \in 1..n : x <= p[t] \/ t # 1
  <2>1. ASSUME 1 \in 1..n PROVE \E x \in L : x <= p[1]
    <3>1. p[1] \in S
      BY <1>3, <2>1
    <3> QED BY <3>1 DEF Inside
  <2>2. S # {} => 1 \in 1..n
    <3> SUFFICES ASSUME NEW x \in S PROVE 1 \in 1..n
      OBVIOUS
    <3>1. PICK i \in 1..n : x = p[i]
      BY <1>3
    <3> HIDE DEF S, n, p
    <3> QED BY <1>1, <3>1
  <2>3. S # {} => \E x \in L : x <= p[1]
    BY <2>1, <2>2
  <2> HIDE DEF S, n, p, L
  <2> QED BY <2>3
<1> HIDE DEF S, n, p, fills, L, a
<1>11. L # {} /\ S # {}
  BY <1>1 DEF L
<1>12. ASSUME NEW t \in 1..n
       PROVE  fills[t] = predicted[Max(Past(t))] /\ Max(Past(t)) \in L
  <2> DEFINE Right(i) == fills[i] = predicted[Max(Past(i))] /\ Max(Past(i)) \in L
             Wrong == {i \in 1..n : ~Right(i)}
  <2>1. SUFFICES ASSUME Wrong # {} PROVE FALSE
    OBVIOUS
  <2>2. PICK i \in Wrong : \A j \in Wrong : i <= j
    <3>1. Wrong \subseteq Nat
      BY <1>1
    <3> HIDE DEF Wrong
    <3> QED BY <2>1, <3>1, SmallestOfNat
  <2>3. i \in 1..n /\ ~Right(i) /\ p[i] \in S /\ p[i] \in Int /\ p[i] \in times
    BY <1>1, <1>3
  <2>4. CASE p[i] \in DOMAIN predicted
    <3>1. p[i] \in L
      BY <1>9, <2>3, <2>4
    <3>4. L \subseteq Int /\ p[i] <= p[i]
      BY <1>1, <2>3
    <3>2. Past(i) \subseteq Int /\ p[i] \in Past(i) /\ \A s \in Past(i) : s <= p[i]
      BY <3>1, <3>4
    <3>3. Max(Past(i)) = p[i]
      <4> HIDE DEF Past
      <4> QED BY <3>2, GreatestIs
    <3> HIDE DEF Past
    <3> QED BY <1>7, <2>3, <2>4, <3>1, <3>3
  <2>5. CASE p[i] \notin DOMAIN predicted
    <3>1. p[i] \notin L
      BY <1>8, <2>5
    <3>2. \A s \in L : s <= p[i] => \E j \in 1..n : j < i /\ s = p[j]
      <4> TAKE s \in L
      <4>1. PICK j \in 1..n : s = p[j]
        BY <1>1, <1>3
      <4>2. s # p[i]
        BY <3>1
      <4>3. i < j => p[i] < p[j]
        BY <1>3, <2>3
      <4>4. p[j] \in Int
        BY <1>1, <1>3
      <4> QED BY <1>1, <2>3, <4>1, <4>2, <4>3, <4>4
    <3>3. i # 1
      BY <1>1, <1>10, <1>11, <2>3, <3>2
    <3>4. i - 1 \in 1..n /\ i - 1 \notin Wrong
      BY <1>1, <2>2, <2>3, <3>3
    <3>5. Right(i - 1)
      BY <3>4
    <3>10. i - 1 < i
      BY <1>1, <2>3
    <3>6. p[i - 1] < p[i] /\ p[i - 1] \in Int
      BY <1>1, <1>3, <2>3, <3>4, <3>10
    <3>7. \A s \in L : s <= p[i] <=> s <= p[i - 1]
      <4> TAKE s \in L
      <4>1. s \in Int
        BY <1>1
      <4>2. ASSUME NEW j \in 1..n, j < i, s = p[j] PROVE s <= p[i - 1]
        <5>1. j < i - 1 \/ j = i - 1
          BY <1>1, <2>3, <4>2
        <5>2. j < i - 1 => p[j] < p[i - 1]
          BY <1>3, <3>4
        <5> QED BY <3>6, <4>1, <4>2, <5>1, <5>2
      <4> QED BY <2>3, <3>2, <3>6, <4>1, <4>2
    <3>8. Past(i) = Past(i - 1)
      BY <3>7
    <3>9. fills[i] = fills[i - 1]
      BY <1>7, <2>3, <2>5
    <3> HIDE DEF Past
    <3> QED BY <2>3, <3>5, <3>8, <3>9
  <2> QED BY <2>4, <2>5
<1>13. /\ IsRows(a, n)
       /\ \A t \in 1..n : a[t].ts = p[t] /\ a[t].prediction = fills[t]
  BY <1>1, <1>5 DEF IsRows
<1>14. \A t \in 1..n : {s \in L : s <= a[t].ts} = Past(t)
  BY <1>13
<1>15. {a[t].ts : t \in 1..n} = S
  BY <1>3, <1>13
<1>16. \A t, u \in 1..n : t < u => a[t].ts < a[u].ts
  BY <1>3, <1>13
<1>17. \A t \in 1..n : /\ a[t].prediction = predicted[Max({s \in L : s <= a[t].ts})]
                       /\ Max({s \in L : s <= a[t].ts}) \in L
  <2> HIDE DEF Past
  <2> QED BY <1>12, <1>13, <1>14
<1> QED BY <1>4, <1>13, <1>15, <1>16, <1>17 DEF S, n, p, a, L
-----------------------------------------------------------------------------
\* The inductive invariant: what is decided is what the predictions so far give,
\* by options that were accepted.
SignalsInv ==
  /\ args \in Args
  /\ candles \in CandleSets
  /\ DOMAIN own \subseteq Int
  /\ \A s \in DOMAIN own : own[s] \in Rationals
  /\ verdict = "ready" => Accepted(args)
  /\ \/ frame = <<>> /\ signal = <<>>
     \/ /\ verdict = "ready"
        /\ ~AlignRefuses(candles, own, ~args.allow_gaps)
        /\ frame = Align(candles, own)
        /\ signal = Signals(frame, args)

\* The step of NoLookAhead.
SignalsGrow ==
  /\ args.allow_gaps /\ signal # <<>> => signal' # <<>>
  /\ signal' # <<>> => \A limit \in DOMAIN signal : IsPrefix(signal[limit], signal'[limit])

LEMMA InvAtFirst == SignalsInit => SignalsInv
  BY DEF SignalsInit, SignalsInv

LEMMA PredictedAre ==
  ASSUME SignalsInv, NEW t \in 1..Tried(args), NEW value \in Values(args), Predict(t, value)
  PROVE  \E predicted :
            /\ t \in Int /\ \A s \in DOMAIN own : s < t
            /\ DOMAIN predicted = DOMAIN own \cup {t}
            /\ \A s \in DOMAIN own : predicted[s] = own[s]
            /\ \A s \in DOMAIN predicted : predicted[s] \in Rationals
            /\ own' = predicted
            /\ IF AlignRefuses(candles, predicted, ~args.allow_gaps)
                 THEN frame' = <<>> /\ signal' = <<>>
                 ELSE /\ frame' = Align(candles, predicted)
                      /\ signal' = Signals(frame', args)
<1> DEFINE predicted == [s \in DOMAIN own \cup {t} |-> IF s = t THEN Num(value) ELSE own[s]]
<1>1. t \in Int /\ Tried(args) \in Nat
  BY TriedAssumption DEF SignalsInv
<1>2. /\ \A s \in DOMAIN own : s < t
      /\ own' = predicted
      /\ IF AlignRefuses(candles, predicted, ~args.allow_gaps)
           THEN frame' = <<>> /\ signal' = <<>>
           ELSE /\ frame' = Align(candles, predicted)
                /\ signal' = Signals(frame', args)
  BY DEF Predict
<1>3. DOMAIN predicted = DOMAIN own \cup {t} /\ \A s \in DOMAIN own : s # t => predicted[s] = own[s]
  OBVIOUS
<1>4. \A s \in DOMAIN own : s # t
  BY <1>1, <1>2 DEF SignalsInv
<1>5. \A s \in DOMAIN predicted : predicted[s] \in Rationals
  <2>1. value \in Int
    BY TriedAssumption DEF SignalsInv
  <2>2. Num(value) \in Rationals
    BY <2>1 DEF Num, Rationals
  <2>3. \A s \in DOMAIN own : own[s] \in Rationals
    BY DEF SignalsInv
  <2> QED BY <1>3, <2>2, <2>3
<1> HIDE DEF predicted
<1> QED BY <1>1, <1>2, <1>3, <1>4, <1>5

LEMMA PredictKeeps ==
  ASSUME SignalsInv, NEW t \in 1..Tried(args), NEW value \in Values(args), Predict(t, value)
  PROVE  SignalsInv' /\ SignalsGrow
<1>1. PICK predicted :
            /\ t \in Int /\ \A s \in DOMAIN own : s < t
            /\ DOMAIN predicted = DOMAIN own \cup {t}
            /\ \A s \in DOMAIN own : predicted[s] = own[s]
            /\ \A s \in DOMAIN predicted : predicted[s] \in Rationals
            /\ own' = predicted
            /\ IF AlignRefuses(candles, predicted, ~args.allow_gaps)
                 THEN frame' = <<>> /\ signal' = <<>>
                 ELSE /\ frame' = Align(candles, predicted)
                      /\ signal' = Signals(frame', args)
  BY PredictedAre
<1>2. /\ verdict = "ready" /\ Accepted(args)
      /\ args' = args /\ candles' = candles /\ verdict' = verdict
  BY DEF Predict, SignalsInv
<1>3. signal' # <<>> => /\ Landed(candles, predicted) # {}
                        /\ frame' = Align(candles, predicted)
                        /\ signal' = Signals(frame', args)
  BY <1>1 DEF AlignRefuses
<1>4. SignalsInv'
  <2>1. DOMAIN own' \subseteq Int /\ \A s \in DOMAIN own' : own'[s] \in Rationals
    BY <1>1 DEF SignalsInv
  <2>2. /\ args' \in Args /\ candles' \in CandleSets
        /\ verdict' = "ready" => Accepted(args')
    BY <1>2 DEF SignalsInv
  <2>3. \/ frame' = <<>> /\ signal' = <<>>
        \/ /\ verdict' = "ready"
           /\ ~AlignRefuses(candles', own', ~args'.allow_gaps)
           /\ frame' = Align(candles', own')
           /\ signal' = Signals(frame', args')
    BY <1>1, <1>2
  <2> QED BY <2>1, <2>2, <2>3 DEF SignalsInv
<1>5. CASE signal = <<>>
  <2>1. DOMAIN signal = {}
    BY <1>5
  <2> QED BY <1>4, <1>5, <2>1, Zenon DEF SignalsGrow
<1>6. CASE signal # <<>>
  <2>1. /\ Landed(candles, own) # {}
        /\ frame = Align(candles, own)
        /\ signal = Signals(frame, args)
    BY <1>6 DEF SignalsInv, AlignRefuses
  <2>2. \A r : /\ DOMAIN Signals(r, args) = Limits(args)
               /\ \A limit \in Limits(args) :
                     Signals(r, args)[limit] = Decided(Prepare(Predictions(r), args), args, limit)
               /\ Signals(r, args) = [limit \in Limits(args) |-> Signals(r, args)[limit]]
    BY DEF Signals
  <2>3. Limits(args) # {}
    BY <1>6, <2>1, <2>2, NoneIsEmpty
  <2>4. args.allow_gaps => signal' # <<>>
    <3>1. Landed(candles, predicted) # {}
      BY <1>1, <2>1 DEF Landed
    <3>2. args.allow_gaps => signal' = Signals(frame', args)
      BY <1>1, <3>1 DEF AlignRefuses
    <3>3. DOMAIN <<>> = {}
      OBVIOUS
    <3> QED BY <2>2, <2>3, <3>2, <3>3
  <2>5. Grows(Predictions(Align(candles, own)), Predictions(Align(candles, predicted)))
    <3>1. candles \subseteq Int /\ IsFiniteSet(candles) /\ DOMAIN own \subseteq Int
      BY CandlesAreTimes DEF SignalsInv
    <3> QED BY <1>1, <3>1, AlignGrows
  <2>6. ASSUME signal' # <<>>, NEW limit \in DOMAIN signal
        PROVE  IsPrefix(signal[limit], signal'[limit])
    <3>1. limit \in Limits(args) /\ args \in Args
      BY <2>1, <2>2 DEF SignalsInv
    <3> DEFINE p == Prepare(Predictions(Align(candles, own)), args)
               q == Prepare(Predictions(Align(candles, predicted)), args)
    <3>2. Grows(p, q)
      BY <1>2, <2>5, <3>1, PrepareGrows
    <3> HIDE DEF p, q
    <3>3. Grows(Decided(p, args, limit), Decided(q, args, limit))
      BY <1>2, <3>1, <3>2, DecidedGrows
    <3>4. signal[limit] = Decided(p, args, limit) /\ signal'[limit] = Decided(q, args, limit)
      BY <1>3, <2>1, <2>2, <2>6, <3>1 DEF p, q
    <3> QED BY <3>3, <3>4, GrowsIsPrefix
  <2>7. signal' # <<>> => \A limit \in DOMAIN signal : IsPrefix(signal[limit], signal'[limit])
    BY <2>6
  <2> QED BY <1>4, <2>4, <2>7, Zenon DEF SignalsGrow
<1> QED BY <1>5, <1>6

LEMMA SignalsStep == SignalsInv /\ [SignalsNext]_signalsVars => SignalsInv'
<1> SUFFICES ASSUME SignalsInv, [SignalsNext]_signalsVars PROVE SignalsInv'
  OBVIOUS
<1>1. CASE Check
  BY <1>1 DEF Check, SignalsInv
<1>2. ASSUME NEW t \in 1..Tried(args), NEW value \in Values(args), Predict(t, value)
      PROVE  SignalsInv'
  BY <1>2, PredictKeeps
<1>3. CASE UNCHANGED signalsVars
  BY <1>3 DEF signalsVars, SignalsInv
<1> QED BY <1>1, <1>2, <1>3 DEF SignalsNext

\* What was decided for a row stays decided when the model predicts on: align,
\* calibration, ema, the rules, confirm and min_hold look at no later row
\* (signals/*.py, cli/post_processing.py).
THEOREM NeverAhead == SignalsSpec => NoLookAhead
<1>1. SignalsInv /\ [SignalsNext]_signalsVars => [SignalsGrow]_signalsVars
  <2> SUFFICES ASSUME SignalsInv, SignalsNext PROVE SignalsGrow
    OBVIOUS
  <2>1. CASE Check
    BY <2>1 DEF Check, SignalsInv, SignalsGrow
  <2>2. ASSUME NEW t \in 1..Tried(args), NEW value \in Values(args), Predict(t, value)
        PROVE  SignalsGrow
    BY <2>2, PredictKeeps
  <2> QED BY <2>1, <2>2 DEF SignalsNext
<1> QED BY <1>1, InvAtFirst, SignalsStep, PTL DEF SignalsSpec, NoLookAhead, SignalsGrow

-----------------------------------------------------------------------------
\* What the check accepts runs, and the rows are the candles they should be.

LEMMA NumbersAreGiven == ASSUME NEW i \in Int PROVE Given(i)
  BY UnsetAssumption DEF Given

LEMMA LimitsAre ==
  ASSUME NEW a \in Args, a.rule # "kmeans"
  PROVE  \A limit \in Limits(a) : limit \in Nat
<1>1. Given(a.limits) => a.limits \subseteq Nat
  BY ArgsAssumption DEF Given
<1> QED BY <1>1 DEF Limits

LEMMA ExitIs ==
  ASSUME NEW a \in Args, Accepted(a), a.rule = "hysteresis", NEW limit \in Limits(a)
  PROVE  Given(a.exit) /\ a.exit \in Nat /\ a.exit <= limit
<1>1. Given(a.exit)
  BY DEF Accepted, RuleNeeds, RuleOptions
<1>2. a.exit \in Nat
  BY <1>1, ArgsAssumption DEF Given, Counts
<1> QED BY <1>1, <1>2 DEF Accepted

LEMMA AcceptedAreRun ==
  ASSUME NEW a \in Args, Accepted(a)
  PROVE  ~CalibrationRefuses(a) /\ \A limit \in Limits(a) : ~RuleRefuses(a, limit)
<1>1. ~CalibrationRefuses(a)
  BY DEF Accepted, CalibrationRefuses
<1>2. ASSUME NEW limit \in Limits(a) PROVE ~RuleRefuses(a, limit)
  <2>1. CASE a.rule = "kmeans"
    <3>1. Given(a.k) /\ Given(a.kmeans_window) /\ Given(a.refit_every)
      BY <2>1 DEF Accepted, RuleNeeds, RuleOptions
    <3>2. a.k \in 2..5 /\ a.kmeans_window \in Nat /\ a.refit_every \in Nat /\ a.refit_every >= 1
      BY <3>1, ArgsAssumption DEF Given, Counts
    <3>3. a.kmeans_window >= 2 * a.k
      BY <2>1 DEF Accepted
    <3> QED BY <2>1, <3>1, <3>2, <3>3 DEF RuleRefuses
  <2>2. CASE a.rule # "kmeans"
    <3>1. limit \in Nat /\ Given(limit)
      BY <2>2, LimitsAre, NumbersAreGiven
    <3>2. a.rule = "hysteresis" => Given(a.exit) /\ 0 <= a.exit /\ a.exit <= limit
      BY ExitIs
    <3> QED BY <2>2, <3>1, <3>2 DEF RuleRefuses
  <2> QED BY <2>1, <2>2
<1> QED BY <1>1, <1>2

\* The rows are the candles from the first landed prediction to the last.
LEMMA RowsRepeat == SignalsInv => RowsRepeatTheLatest
<1> SUFFICES ASSUME SignalsInv, frame # <<>> PROVE RowsRepeatTheLatest
  BY DEF RowsRepeatTheLatest
<1> DEFINE L == Landed(candles, own)
           S == Inside(candles, own)
           n == Cardinality(S)
<1>1. /\ ~AlignRefuses(candles, own, ~args.allow_gaps) /\ L # {}
      /\ frame = Align(candles, own)
  BY DEF SignalsInv, AlignRefuses
<1>2. candles \subseteq Int /\ IsFiniteSet(candles)
  BY CandlesAreTimes DEF SignalsInv
<1>3. /\ IsRows(frame, n) /\ IsRows(Rows(candles, own), n)
      /\ \A t \in 1..n : frame[t].ts = Rows(candles, own)[t]
      /\ {frame[t].ts : t \in 1..n} = S
      /\ \A t, u \in 1..n : t < u => frame[t].ts < frame[u].ts
      /\ \A t \in 1..n : frame[t].prediction = own[Max({s \in L : s <= frame[t].ts})]
  <2>1. LET f == Align(candles, own)
        IN  /\ IsRows(f, n)
            /\ IsRows(Rows(candles, own), n)
            /\ \A t \in 1..n : f[t].ts = Rows(candles, own)[t]
            /\ {f[t].ts : t \in 1..n} = S
            /\ \A t, u \in 1..n : t < u => f[t].ts < f[u].ts
            /\ \A t \in 1..n : LET past == {s \in L : s <= f[t].ts}
                               IN  /\ f[t].prediction = own[Max(past)]
                                   /\ Max(past) \in L
    BY <1>1, <1>2, FrameIs, Zenon
  <2> HIDE DEF L, n, S
  <2> QED BY <1>1, <2>1
<1>4. L \subseteq Int /\ IsFiniteSet(L)
  BY <1>2, FS_Subset DEF Landed
<1>5. Min(L) \in L /\ Max(L) \in L /\ \A y \in L : Min(L) <= y /\ y <= Max(L)
  <2> HIDE DEF L
  <2> QED BY <1>1, <1>4, FiniteHas
<1>6. S = {t \in candles : Min(L) <= t /\ t <= Max(L)}
  <2>1. ASSUME NEW t \in candles
        PROVE  (\E a, b \in L : a <= t /\ t <= b) <=> (Min(L) <= t /\ t <= Max(L))
    <3>1. t \in Int /\ Min(L) \in Int /\ Max(L) \in Int
      BY <1>2, <1>4, <1>5
    <3>2. ASSUME NEW a \in L, NEW b \in L, a <= t, t <= b PROVE Min(L) <= t /\ t <= Max(L)
      <4>1. a \in Int /\ b \in Int /\ Min(L) <= a /\ b <= Max(L)
        BY <1>4, <1>5
      <4> QED BY <3>1, <3>2, <4>1
    <3> QED BY <1>5, <3>2
  <2> QED BY <2>1 DEF Inside
<1>7. DOMAIN frame = 1..n /\ Len(frame) = n
  BY <1>3, LenIs
<1>8. n \in Nat
  BY <1>3 DEF IsRows
<1>9. \A t \in 1..n - 1 : frame[t].ts < frame[t + 1].ts
  <2> HIDE DEF n
  <2>1. \A t \in 1..n - 1 : t \in 1..n /\ t + 1 \in 1..n /\ t < t + 1
    BY <1>8
  <2> QED BY <1>3, <2>1
<1>10. ~args.allow_gaps => S = DOMAIN own
  <2> SUFFICES ASSUME ~args.allow_gaps PROVE S = DOMAIN own
    OBVIOUS
  <2>1. DOMAIN own \subseteq candles /\ \A x \in ToSet(Rows(candles, own)) : x \in DOMAIN own
    BY <1>1 DEF AlignRefuses, Gaps
  <2>2. DOMAIN Rows(candles, own) = 1..n
    BY <1>3, LenIs
  <2>3. ToSet(Rows(candles, own)) = {Rows(candles, own)[t] : t \in 1..n}
    BY <2>2 DEF ToSet
  <2>4. \A t \in 1..n : frame[t].ts \in DOMAIN own
    BY <1>3, <2>1, <2>3
  <2>5. \A x \in S : x \in DOMAIN own
    BY <1>3, <2>4
  <2>6. ASSUME NEW x \in DOMAIN own PROVE x \in S
    <3>1. x \in L /\ x \in candles
      BY <2>1 DEF Landed
    <3>2. Min(L) <= x /\ x <= Max(L)
      BY <1>5, <3>1
    <3> QED BY <1>6, <3>1, <3>2
  <2> QED BY <2>5, <2>6
<1> HIDE DEF n, S
<1>11. {frame[t].ts : t \in DOMAIN frame} = S
  BY <1>3, <1>7
<1> QED BY <1>3, <1>6, <1>7, <1>9, <1>10, <1>11 DEF RowsRepeatTheLatest

-----------------------------------------------------------------------------
\* What a chain of steps keeps, and sums.

\* Induction over the rows, for a set of them.
LEMMA UpTo ==
  ASSUME NEW n \in Nat, NEW I, 0 \in I, \A t \in 1..n : t - 1 \in I => t \in I
  PROVE  \A t \in 0..n : t \in I
<1> SUFFICES ASSUME NEW u \in 0..n, u \notin I PROVE FALSE
  OBVIOUS
<1> DEFINE S == {t \in 0..n : t \notin I}
<1>1. S \subseteq Nat /\ S # {}
  OBVIOUS
<1>2. PICK least \in S : \A m \in S : least <= m
  <2> HIDE DEF S
  <2> QED BY <1>1, SmallestOfNat
<1>3. least \in 1..n /\ least \notin I
  OBVIOUS
<1>4. least - 1 \in 0..n /\ least - 1 \notin S
  BY <1>2, <1>3
<1> QED BY <1>3, <1>4

LEMMA ChainIs ==
  ASSUME NEW kind, NEW option, NEW p, NEW n \in Nat
  PROVE  LET f == Chained(kind, option, p, n)
         IN  /\ f[0] = Beginning(kind)
             /\ \A t \in 1..n : f[t] = Stepping(kind, option, p, t, f[t - 1])
<1> DEFINE f == Chained(kind, option, p, n)
<1>1. Chain(f, kind, option, p, n)
  BY ChainsAre
<1> HIDE DEF f
<1>2. /\ f[0] = Beginning(kind)
      /\ \A t \in 1..n : f[t] = Stepping(kind, option, p, t, f[t - 1])
  BY <1>1 DEF Chain
<1> QED BY <1>2 DEF f

SumChain(f, x, n) == f = [i \in 0..n |-> IF i = 0 THEN 0 ELSE f[i - 1] + x[i]]

LEMMA SumIs ==
  ASSUME NEW x, NEW n, IsRows(x, n)
  PROVE  SumOf(x) = Chained("sum", 0, x, n)[n]
<1>1. Len(x) = n
  BY LenIs
<1>2. SumOf(x) = (CHOOSE f : SumChain(f, x, n))[n]
  BY <1>1 DEF SumOf, SumChain
<1>3. ASSUME NEW f
      PROVE  SumChain(f, x, n) <=> Chain(f, "sum", 0, x, n)
  BY DEF SumChain, Chain, Beginning, Stepping
<1>4. (CHOOSE f : SumChain(f, x, n)) = Chained("sum", 0, x, n)
  BY <1>3, Zenon DEF Chained
<1> QED BY <1>2, <1>4

LEMMA SumsRun ==
  ASSUME NEW x, NEW n \in Nat, \A i \in 1..n : x[i] \in Int
  PROVE  LET f == Chained("sum", 0, x, n)
         IN  /\ \A i \in 0..n : f[i] \in Int
             /\ f[0] = 0
             /\ \A i \in 1..n : f[i] = f[i - 1] + x[i]
<1> DEFINE f == Chained("sum", 0, x, n)
<1>1. f[0] = 0 /\ \A i \in 1..n : f[i] = f[i - 1] + x[i]
  BY ChainIs DEF Beginning, Stepping
<1> HIDE DEF f
<1> DEFINE I == {i \in 0..n : f[i] \in Int}
<1>2. 0 \in I
  BY <1>1
<1>3. ASSUME NEW t \in 1..n, t - 1 \in I PROVE t \in I
  BY <1>1, <1>3
<1>4. \A t \in 0..n : t \in I
  <2> HIDE DEF I
  <2> QED BY <1>2, <1>3, UpTo
<1>5. \A t \in 0..n : f[t] \in Int
  BY <1>4
<1> QED BY <1>1, <1>5 DEF f

\* The product of the window and the sum of squares is not below the square of the sum.
LEMMA OneMoreSquare ==
  ASSUME NEW w \in Int, NEW a \in Int, NEW i \in Int, NEW f \in Int, NEW h \in Int, NEW v \in Int
  PROVE  w * w * (h + v * v) - 2 * w * a * (f + v) + (i + 1) * a * a
           = (w * w * h - 2 * w * a * f + i * a * a) + (w * v - a) * (w * v - a)
  OBVIOUS

LEMMA SquareIsNotNegative == ASSUME NEW x \in Int PROVE x * x >= 0 /\ x * x \in Int
<1>1. CASE x >= 0
  BY <1>1
<1>2. CASE x < 0
  BY <1>2
<1> QED BY <1>1, <1>2

LEMMA FactorOut ==
  ASSUME NEW w \in Nat \ {0}, NEW a \in Int, NEW h \in Int,
         w * w * h - 2 * w * a * a + w * a * a >= 0
  PROVE  w * h - a * a >= 0
<1>1. w * w * h - 2 * w * a * a + w * a * a = w * (w * h - a * a)
  OBVIOUS
<1> DEFINE d == w * h - a * a
<1>2. d \in Int /\ w * d >= 0
  BY <1>1
<1> HIDE DEF d
<1>3. d >= 0
  BY <1>2
<1> QED BY <1>3 DEF d

LEMMA SpreadIsNotNegative ==
  ASSUME NEW w \in Nat \ {0}, NEW v, IsRows(v, w), \A i \in 1..w : v[i] \in Int,
         NEW q, IsRows(q, w), \A i \in 1..w : q[i] = v[i] * v[i]
  PROVE  /\ SumOf(v) \in Int /\ SumOf(q) \in Int
         /\ w * SumOf(q) - SumOf(v) * SumOf(v) >= 0
<1> DEFINE f == Chained("sum", 0, v, w)
           h == Chained("sum", 0, q, w)
<1>1. /\ \A i \in 0..w : f[i] \in Int
      /\ f[0] = 0
      /\ \A i \in 1..w : f[i] = f[i - 1] + v[i]
  BY SumsRun
<1>2. /\ \A i \in 0..w : h[i] \in Int
      /\ h[0] = 0
      /\ \A i \in 1..w : h[i] = h[i - 1] + q[i]
  <2>1. \A i \in 1..w : q[i] \in Int
    OBVIOUS
  <2> QED BY <2>1, SumsRun
<1>3. SumOf(v) = f[w] /\ SumOf(q) = h[w]
  BY SumIs
<1> HIDE DEF f, h
<1> DEFINE a == f[w]
           D(i) == w * w * h[i] - 2 * w * a * f[i] + i * a * a
           I == {i \in 0..w : D(i) >= 0}
<1>4. a \in Int /\ w \in Int
  BY <1>1
<1> HIDE DEF a
<1>5. 0 \in I
  <2>1. w * w * 0 - 2 * w * a * 0 + 0 * a * a = 0
    BY <1>4
  <2>2. D(0) = 0
    BY <1>1, <1>2, <2>1
  <2> HIDE DEF D
  <2> QED BY <2>2
<1>6. ASSUME NEW t \in 1..w, t - 1 \in I PROVE t \in I
  <2>1. /\ f[t] = f[t - 1] + v[t] /\ h[t] = h[t - 1] + v[t] * v[t]
        /\ f[t - 1] \in Int /\ h[t - 1] \in Int /\ v[t] \in Int /\ t - 1 \in Int
    BY <1>1, <1>2
  <2>2. D(t) = D(t - 1) + (w * v[t] - a) * (w * v[t] - a)
    <3>1. t = (t - 1) + 1
      OBVIOUS
    <3> QED BY <1>4, <2>1, <3>1, OneMoreSquare
  <2>3. w * v[t] - a \in Int
    BY <1>4, <2>1
  <2>4. (w * v[t] - a) * (w * v[t] - a) >= 0 /\ (w * v[t] - a) * (w * v[t] - a) \in Int
    BY <2>3, SquareIsNotNegative
  <2>5. D(t - 1) >= 0
    BY <1>6
  <2>6. D(t - 1) \in Int
    BY <1>4, <2>1
  <2> HIDE DEF D
  <2>7. D(t) >= 0
    BY <2>2, <2>4, <2>5, <2>6
  <2> QED BY <2>7
<1>7. D(w) >= 0
  <2>1. w \in I
    <3> HIDE DEF I
    <3>1. \A t \in 0..w : t \in I
      BY <1>5, <1>6, UpTo
    <3>2. w \in 0..w
      OBVIOUS
    <3> QED BY <3>1, <3>2
  <2> QED BY <2>1
<1>8. w * w * h[w] - 2 * w * a * a + w * a * a >= 0
  BY <1>7 DEF a
<1>9. h[w] \in Int
  BY <1>2
<1>10. w * h[w] - a * a >= 0
  BY <1>4, <1>8, <1>9, FactorOut
<1> QED BY <1>3, <1>4, <1>9, <1>10 DEF a

-----------------------------------------------------------------------------
\* What is prepared is a fraction in every row, and turns over with its input.

\* A prediction in every row, and the predictions turned over.
Numbers(p, n) == IsRows(p, n) /\ \A t \in 1..n : p[t] \in Rationals
Opposite(p) == [t \in DOMAIN p |-> Negative(p[t])]

LEMMA RationalIs ==
  ASSUME NEW x \in Rationals
  PROVE  x[1] \in Int /\ x[2] \in Nat /\ x[2] > 0 /\ x = <<x[1], x[2]>>
  BY DEF Rationals

LEMMA IsRational == ASSUME NEW a \in Int, NEW b \in Nat, b > 0 PROVE <<a, b>> \in Rationals
  BY DEF Rationals

LEMMA NegativeIs ==
  ASSUME NEW x \in Rationals
  PROVE  /\ Negative(x) \in Rationals /\ Negative(Negative(x)) = x
         /\ Negative(x)[1] = -x[1] /\ Negative(x)[2] = x[2]
<1>1. x[1] \in Int /\ x[2] \in Nat /\ x[2] > 0 /\ x = <<x[1], x[2]>>
  BY RationalIs
<1>2. Negative(x) = <<-x[1], x[2]>> /\ -x[1] \in Int /\ -(-x[1]) = x[1]
  BY <1>1 DEF Negative
<1>3. Negative(x) \in Rationals
  BY <1>1, <1>2, IsRational
<1>4. Negative(Negative(x)) = <<-(-x[1]), x[2]>>
  BY <1>2 DEF Negative
<1> QED BY <1>1, <1>2, <1>3, <1>4

LEMMA ZeroIs == Num(0) \in Rationals /\ Negative(Num(0)) = Num(0) /\ Num(0)[1] = 0
<1>1. Num(0) = <<0, 1>>
  BY DEF Num
<1>2. Num(0)[1] = 0 /\ Num(0)[2] = 1
  BY <1>1
<1>3. Num(0) \in Rationals
  BY <1>1, IsRational
<1>4. Negative(Num(0)) = <<-Num(0)[1], Num(0)[2]>>
  BY DEF Negative
<1>5. -Num(0)[1] = 0
  BY <1>2
<1> QED BY <1>1, <1>2, <1>3, <1>4, <1>5

LEMMA OppositeIs ==
  ASSUME NEW p, NEW n \in Nat, Numbers(p, n)
  PROVE  /\ Numbers(Opposite(p), n) /\ Opposite(Opposite(p)) = p
         /\ \A t \in 1..n : Opposite(p)[t] = Negative(p[t])
<1>1. IsRows(p, n) /\ DOMAIN p = 1..n
  BY LenIs DEF Numbers
<1>2. \A t \in 1..n : Negative(p[t]) \in Rationals /\ Negative(Negative(p[t])) = p[t]
  BY NegativeIs DEF Numbers
<1>3. Opposite(p) = [t \in 1..n |-> Negative(p[t])]
  BY <1>1 DEF Opposite
<1>4. IsRows(Opposite(p), n) /\ DOMAIN Opposite(p) = 1..n
  BY <1>3 DEF IsRows
<1>6. Opposite(Opposite(p)) = [t \in 1..n |-> Negative(Opposite(p)[t])]
  BY <1>4 DEF Opposite
<1>7. Opposite(Opposite(p)) = [t \in 1..n |-> p[t]]
  BY <1>2, <1>3, <1>6
<1> QED BY <1>1, <1>2, <1>3, <1>4, <1>7 DEF Numbers, IsRows

LEMMA OppositeLess ==
  ASSUME NEW x \in Rationals, NEW y \in Rationals
  PROVE  /\ Less(Negative(x), Negative(y)) <=> Less(y, x)
         /\ Same(Negative(x), Negative(y)) <=> Same(x, y)
         /\ Same(x, y) <=> ~Less(x, y) /\ ~Less(y, x)
         /\ ~(Less(x, y) /\ Less(y, x))
<1>1. x[1] \in Int /\ x[2] \in Int /\ y[1] \in Int /\ y[2] \in Int
  BY RationalIs
<1>2. /\ Negative(x)[1] = -x[1] /\ Negative(x)[2] = x[2]
      /\ Negative(y)[1] = -y[1] /\ Negative(y)[2] = y[2]
  BY NegativeIs
<1> DEFINE a == x[1] * y[2]
           b == y[1] * x[2]
<1>3. a \in Int /\ b \in Int /\ (-x[1]) * y[2] = -a /\ (-y[1]) * x[2] = -b
  BY <1>1
<1>4. /\ Less(x, y) <=> a < b
      /\ Less(y, x) <=> b < a
      /\ Same(x, y) <=> a = b
      /\ Less(Negative(x), Negative(y)) <=> (-x[1]) * y[2] < (-y[1]) * x[2]
      /\ Same(Negative(x), Negative(y)) <=> (-x[1]) * y[2] = (-y[1]) * x[2]
  BY <1>2 DEF Less, Same
<1> HIDE DEF a, b
<1> QED BY <1>3, <1>4

\* Three parts of a finite set add up to it.
LEMMA ThreeParts ==
  ASSUME NEW O, IsFiniteSet(O), NEW A, NEW B, NEW C, A \cup B \cup C = O,
         A \cap B = {}, A \cap C = {}, B \cap C = {}
  PROVE  /\ Cardinality(A) \in Nat /\ Cardinality(B) \in Nat /\ Cardinality(C) \in Nat
         /\ Cardinality(A) + Cardinality(B) + Cardinality(C) = Cardinality(O)
<1>1. IsFiniteSet(A) /\ IsFiniteSet(B) /\ IsFiniteSet(C)
  BY FS_Subset
<1>2. Cardinality(A) \in Nat /\ Cardinality(B) \in Nat /\ Cardinality(C) \in Nat
  BY <1>1, FS_CardinalityType
<1>3. IsFiniteSet(A \cup B)
  BY <1>1, FS_Union
<1>4. Cardinality(A \cup B) = Cardinality(A) + Cardinality(B) - Cardinality(A \cap B)
  BY <1>1, FS_Union
<1>5. Cardinality((A \cup B) \cup C) = Cardinality(A \cup B) + Cardinality(C) - Cardinality((A \cup B) \cap C)
  BY <1>1, <1>3, FS_Union
<1>6. (A \cup B) \cap C = {} /\ (A \cup B) \cup C = O
  OBVIOUS
<1>7. Cardinality({}) = 0
  BY FS_EmptySet
<1>8. Cardinality(A \cap B) = 0 /\ Cardinality((A \cup B) \cap C) = 0
  BY <1>6, <1>7, Zenon
<1>9. Cardinality(A \cup B) = Cardinality(A) + Cardinality(B)
  BY <1>2, <1>4, <1>8
<1>10. Cardinality(O) = Cardinality(A \cup B) + Cardinality(C)
  <2>1. Cardinality((A \cup B) \cup C) = Cardinality(O)
    BY <1>6, Zenon
  <2> QED BY <1>2, <1>5, <1>9, <1>8, <2>1
<1> QED BY <1>2, <1>9, <1>10

LEMMA RankAtIs ==
  ASSUME NEW p, NEW n \in Nat, Numbers(p, n), NEW t \in 1..n, NEW w \in Nat, w >= 2, w <= t
  PROVE  RankAt(p, t, w) \in Rationals /\ RankAt(Opposite(p), t, w) = Negative(RankAt(p, t, w))
<1> DEFINE O == Window(t, w) \ {t}
           q == Opposite(p)
           A == {s \in O : Less(p[s], p[t])}
           B == {s \in O : Same(p[s], p[t])}
           C == {s \in O : Less(p[t], p[s])}
<1>1. IsFiniteSet(O) /\ Cardinality(O) = w - 1 /\ O \subseteq 1..n
  <2>1. t - w + 1 \in Int /\ t \in Int
    OBVIOUS
  <2>2. /\ IsFiniteSet((t - w + 1)..t)
        /\ Cardinality((t - w + 1)..t) = IF t - w + 1 > t THEN 0 ELSE t - (t - w + 1) + 1
    BY <2>1, FS_Interval
  <2>3. Cardinality((t - w + 1)..t) = w /\ t \in (t - w + 1)..t
    BY <2>2
  <2>4. (t - w + 1)..t = Window(t, w)
    BY DEF Window
  <2>5. Window(t, w) \subseteq 1..n
    BY DEF Window
  <2> QED BY <2>2, <2>3, <2>4, <2>5, FS_RemoveElement
<1>2. \A s \in 1..n : p[s] \in Rationals /\ q[s] = Negative(p[s])
  BY OppositeIs DEF Numbers
<1>3. \A s \in O : /\ Less(q[s], q[t]) <=> Less(p[t], p[s])
                   /\ Same(q[s], q[t]) <=> Same(p[s], p[t])
                   /\ Same(p[s], p[t]) <=> ~Less(p[s], p[t]) /\ ~Less(p[t], p[s])
                   /\ ~(Less(p[s], p[t]) /\ Less(p[t], p[s]))
  <2> HIDE DEF O, q
  <2> QED BY <1>1, <1>2, OppositeLess
<1>4. A \cup B \cup C = O /\ A \cap B = {} /\ A \cap C = {} /\ B \cap C = {}
  <2> HIDE DEF O
  <2> QED BY <1>3
<1>5. C = {s \in O : Less(q[s], q[t])} /\ B = {s \in O : Same(q[s], q[t])}
  <2> HIDE DEF O, q
  <2> QED BY <1>3
<1> DEFINE a == Cardinality(A)
           b == Cardinality(B)
           c == Cardinality(C)
<1>6. /\ RankAt(p, t, w) = <<2 * a + b - (w - 1), w - 1>>
      /\ RankAt(q, t, w) = <<2 * c + b - (w - 1), w - 1>>
  <2>1. RankAt(p, t, w) = <<2 * a + b - (w - 1), w - 1>>
    BY DEF RankAt
  <2>2. RankAt(q, t, w) = <<2 * Cardinality({s \in O : Less(q[s], q[t])})
                              + Cardinality({s \in O : Same(q[s], q[t])}) - (w - 1), w - 1>>
    BY DEF RankAt
  <2> HIDE DEF A, B, C, O, q
  <2> QED BY <1>5, <2>1, <2>2
<1> HIDE DEF A, B, C, O
<1>7. a \in Nat /\ b \in Nat /\ c \in Nat /\ a + b + c = w - 1
  <2>1. /\ Cardinality(A) \in Nat /\ Cardinality(B) \in Nat /\ Cardinality(C) \in Nat
        /\ Cardinality(A) + Cardinality(B) + Cardinality(C) = Cardinality(O)
    <3>1. IsFiniteSet(O)
      BY <1>1
    <3>2. A \cup B \cup C = O
      BY <1>4
    <3>3. A \cap B = {}
      BY <1>4
    <3>4. A \cap C = {}
      BY <1>4
    <3>5. B \cap C = {}
      BY <1>4
    <3> QED BY <3>1, <3>2, <3>3, <3>4, <3>5, ThreeParts
  <2> QED BY <1>1, <2>1
<1> HIDE DEF a, b, c
<1>8. 2 * a + b - (w - 1) \in Int /\ w - 1 \in Nat /\ w - 1 > 0
      /\ 2 * c + b - (w - 1) = -(2 * a + b - (w - 1))
  BY <1>7
<1>9. RankAt(p, t, w) \in Rationals
  BY <1>6, <1>8, IsRational
<1> HIDE DEF q
<1>10. RankAt(q, t, w) = Negative(RankAt(p, t, w))
  BY <1>6, <1>8 DEF Negative
<1> QED BY <1>9, <1>10 DEF q

LEMMA RankIs ==
  ASSUME NEW p, NEW n \in Nat, Numbers(p, n), NEW w \in Nat, w >= 2
  PROVE  Numbers(Rank(p, w), n) /\ Rank(Opposite(p), w) = Opposite(Rank(p, w))
<1> DEFINE q == Opposite(p)
           a == Rank(p, w)
<1>1. Numbers(q, n)
  BY OppositeIs
<1>2. Len(p) = n /\ Len(q) = n
  BY <1>1, LenIs DEF Numbers
<1>3. /\ a = [t \in 1..n |-> IF t < w THEN Num(0) ELSE RankAt(p, t, w)]
      /\ Rank(q, w) = [t \in 1..n |-> IF t < w THEN Num(0) ELSE RankAt(q, t, w)]
  BY <1>2 DEF Rank
<1>4. ASSUME NEW t \in 1..n
      PROVE  a[t] \in Rationals /\ Rank(q, w)[t] = Negative(a[t])
  <2>1. CASE t < w
    BY <1>3, <2>1, ZeroIs
  <2>2. CASE ~(t < w)
    <3>1. w <= t
      BY <2>2
    <3>2. RankAt(p, t, w) \in Rationals /\ RankAt(q, t, w) = Negative(RankAt(p, t, w))
      BY <3>1, RankAtIs
    <3> HIDE DEF q, a
    <3> QED BY <1>3, <2>2, <3>2
  <2> QED BY <2>1, <2>2
<1> HIDE DEF q, a
<1>5. Numbers(a, n) /\ DOMAIN a = 1..n
  BY <1>3, <1>4 DEF Numbers, IsRows
<1>6. Rank(q, w) = [t \in 1..n |-> Rank(q, w)[t]]
  BY <1>3
<1>7. Rank(q, w) = [t \in 1..n |-> Negative(a[t])]
  BY <1>4, <1>6, Zenon
<1>8. Opposite(a) = [t \in 1..n |-> Negative(a[t])]
  BY <1>5 DEF Opposite
<1> QED BY <1>5, <1>7, <1>8 DEF q, a

LEMMA SumOfNegatives ==
  ASSUME NEW w \in Nat, NEW v, IsRows(v, w), \A i \in 1..w : v[i] \in Int,
         NEW u, IsRows(u, w), \A i \in 1..w : u[i] = -v[i]
  PROVE  SumOf(v) \in Int /\ SumOf(u) = -SumOf(v)
<1> DEFINE f == Chained("sum", 0, v, w)
           h == Chained("sum", 0, u, w)
<1>1. /\ \A i \in 0..w : f[i] \in Int
      /\ f[0] = 0
      /\ \A i \in 1..w : f[i] = f[i - 1] + v[i]
  BY SumsRun
<1>2. /\ \A i \in 0..w : h[i] \in Int
      /\ h[0] = 0
      /\ \A i \in 1..w : h[i] = h[i - 1] + u[i]
  <2>1. \A i \in 1..w : u[i] \in Int
    OBVIOUS
  <2> QED BY <2>1, SumsRun
<1>3. SumOf(v) = f[w] /\ SumOf(u) = h[w]
  BY SumIs
<1> HIDE DEF f, h
<1> DEFINE I == {i \in 0..w : h[i] = -f[i]}
<1>4. 0 \in I
  BY <1>1, <1>2
<1>5. ASSUME NEW t \in 1..w, t - 1 \in I PROVE t \in I
  <2>1. /\ f[t] = f[t - 1] + v[t] /\ h[t] = h[t - 1] + (-v[t])
        /\ f[t - 1] \in Int /\ v[t] \in Int /\ h[t - 1] = -f[t - 1]
    BY <1>1, <1>2, <1>5
  <2> QED BY <2>1
<1>6. \A t \in 0..w : t \in I
  <2> HIDE DEF I
  <2> QED BY <1>4, <1>5, UpTo
<1>7. w \in 0..w
  OBVIOUS
<1>8. h[w] = -f[w] /\ f[w] \in Int
  BY <1>1, <1>6, <1>7
<1> QED BY <1>3, <1>8

\* The signed square away from the mean, over the window times the spread.
ScoreOf(window, spread, away) ==
  IF spread = 0 THEN Num(0)
  ELSE <<IF away < 0 THEN -(away * away * (window - 1)) ELSE away * away * (window - 1), window * spread>>

LEMMA ScoreIs ==
  ASSUME NEW w \in Nat, w >= 2, NEW spread \in Int, spread >= 0, NEW away \in Int
  PROVE  /\ ScoreOf(w, spread, away) \in Rationals
         /\ ScoreOf(w, spread, -away) = Negative(ScoreOf(w, spread, away))
<1> DEFINE square == away * away * (w - 1)
<1>1. square \in Int /\ (-away) * (-away) * (w - 1) = square /\ -square \in Int /\ -(-square) = square
  OBVIOUS
<1>2. away = 0 => square = -square
  OBVIOUS
<1>3. CASE spread = 0
  BY <1>3, ZeroIs DEF ScoreOf
<1>4. CASE spread # 0
  <2>1. w * spread \in Nat /\ w * spread > 0
    BY <1>4
  <2>2. /\ ScoreOf(w, spread, away) = <<IF away < 0 THEN -square ELSE square, w * spread>>
        /\ ScoreOf(w, spread, -away) = <<IF -away < 0 THEN -square ELSE square, w * spread>>
    BY <1>1, <1>4 DEF ScoreOf
  <2> HIDE DEF square
  <2>3. (IF away < 0 THEN -square ELSE square) \in Int
    BY <1>1
  <2>4. (IF -away < 0 THEN -square ELSE square) = -(IF away < 0 THEN -square ELSE square)
    BY <1>1, <1>2
  <2> DEFINE num == IF away < 0 THEN -square ELSE square
             den == w * spread
  <2>5. /\ ScoreOf(w, spread, away) = <<num, den>>
        /\ ScoreOf(w, spread, -away) = <<-num, den>>
    BY <2>2, <2>4
  <2>6. num \in Int /\ den \in Nat /\ den > 0
    BY <2>1, <2>3
  <2> HIDE DEF num, den
  <2> QED BY <2>5, <2>6, IsRational DEF Negative
<1> QED BY <1>3, <1>4

LEMMA ZscoreAtIs ==
  ASSUME NEW p, NEW n \in Nat, Numbers(p, n), NEW t \in 1..n, NEW w \in Nat, w >= 2, w <= t
  PROVE  ZscoreAt(p, t, w) \in Rationals /\ ZscoreAt(Opposite(p), t, w) = Negative(ZscoreAt(p, t, w))
<1> DEFINE q == Opposite(p)
           v == [i \in 1..w |-> p[t - w + i][1]]
           u == [i \in 1..w |-> q[t - w + i][1]]
           s == [i \in 1..w |-> v[i] * v[i]]
           r == [i \in 1..w |-> u[i] * u[i]]
<1>1. \A i \in 1..n : p[i] \in Rationals /\ p[i][1] \in Int /\ q[i][1] = -p[i][1]
  <2>1. \A i \in 1..n : p[i] \in Rationals /\ q[i] = Negative(p[i])
    BY OppositeIs DEF Numbers
  <2> HIDE DEF q
  <2>2. \A i \in 1..n : p[i][1] \in Int
    BY <2>1, RationalIs
  <2>3. \A i \in 1..n : q[i][1] = -p[i][1]
    BY <2>1, NegativeIs
  <2> QED BY <2>1, <2>2, <2>3
<1>2. \A i \in 1..w : t - w + i \in 1..n
  OBVIOUS
<1>3. \A i \in 1..w : v[i] \in Int /\ u[i] = -v[i]
  BY <1>1, <1>2
<1>4. IsRows(v, w) /\ IsRows(u, w) /\ IsRows(s, w) /\ IsRows(r, w)
  BY DEF IsRows
<1>5. \A i \in 1..w : s[i] = v[i] * v[i] /\ r[i] = u[i] * u[i]
  OBVIOUS
<1>6. r = s
  <2>1. \A i \in 1..w : u[i] * u[i] = v[i] * v[i]
    <3> TAKE i \in 1..w
    <3> DEFINE x == v[i]
    <3>1. x \in Int /\ u[i] = -x
      BY <1>3
    <3> HIDE DEF x
    <3>2. (-x) * (-x) = x * x
      BY <3>1
    <3> HIDE DEF u, v
    <3> QED BY <3>1, <3>2 DEF x
  <2> HIDE DEF u, v
  <2> QED BY <2>1
<1> DEFINE total == SumOf(v)
           squares == SumOf(s)
           spread == w * squares - total * total
           away == w * p[t][1] - total
<1>7. /\ ZscoreAt(p, t, w) = ScoreOf(w, spread, away)
      /\ ZscoreAt(q, t, w) = ScoreOf(w, w * SumOf(r) - SumOf(u) * SumOf(u), w * q[t][1] - SumOf(u))
  BY DEF ZscoreAt, ScoreOf
<1>8. /\ SumOf(v) \in Int /\ SumOf(s) \in Int
      /\ w * SumOf(s) - SumOf(v) * SumOf(v) >= 0
  <2>1. w \in Nat \ {0}
    OBVIOUS
  <2> HIDE DEF v, s
  <2> QED BY <1>3, <1>4, <1>5, <2>1, SpreadIsNotNegative
<1>9. SumOf(u) = -SumOf(v)
  <2> HIDE DEF v, u
  <2> QED BY <1>3, <1>4, SumOfNegatives
<1>10. p[t][1] \in Int /\ q[t][1] = -p[t][1]
  BY <1>1
<1> HIDE DEF u, v, s, r, q
<1>11. total \in Int /\ squares \in Int /\ spread \in Int /\ spread >= 0 /\ away \in Int
  BY <1>8, <1>10
<1>12. w * SumOf(r) - SumOf(u) * SumOf(u) = spread
  <2>1. (-total) * (-total) = total * total
    BY <1>11
  <2>2. SumOf(r) = squares /\ SumOf(u) = -total
    BY <1>6, <1>9
  <2> HIDE DEF total, squares
  <2> QED BY <2>1, <2>2
<1>13. w * q[t][1] - SumOf(u) = -away
  <2> DEFINE first == p[t][1]
  <2>1. q[t][1] = -first /\ SumOf(u) = -total /\ first \in Int /\ total \in Int
    BY <1>9, <1>10, <1>11
  <2>2. away = w * first - total
    OBVIOUS
  <2> HIDE DEF total, first, away
  <2>3. w * (-first) - (-total) = -(w * first - total)
    BY <2>1
  <2> QED BY <2>1, <2>2, <2>3
<1> HIDE DEF spread, away
<1> QED BY <1>7, <1>11, <1>12, <1>13, ScoreIs DEF q

LEMMA ZscoreIs ==
  ASSUME NEW p, NEW n \in Nat, Numbers(p, n), NEW w \in Nat, w >= 2
  PROVE  Numbers(Zscore(p, w), n) /\ Zscore(Opposite(p), w) = Opposite(Zscore(p, w))
<1> DEFINE q == Opposite(p)
           a == Zscore(p, w)
<1>1. Numbers(q, n)
  BY OppositeIs
<1>2. Len(p) = n /\ Len(q) = n
  BY <1>1, LenIs DEF Numbers
<1>3. /\ a = [t \in 1..n |-> IF t < w THEN Num(0) ELSE ZscoreAt(p, t, w)]
      /\ Zscore(q, w) = [t \in 1..n |-> IF t < w THEN Num(0) ELSE ZscoreAt(q, t, w)]
  BY <1>2 DEF Zscore
<1>4. ASSUME NEW t \in 1..n
      PROVE  a[t] \in Rationals /\ Zscore(q, w)[t] = Negative(a[t])
  <2>1. CASE t < w
    BY <1>3, <2>1, ZeroIs
  <2>2. CASE ~(t < w)
    <3>1. w <= t
      BY <2>2
    <3>2. ZscoreAt(p, t, w) \in Rationals /\ ZscoreAt(q, t, w) = Negative(ZscoreAt(p, t, w))
      BY <3>1, ZscoreAtIs
    <3> HIDE DEF q, a
    <3> QED BY <1>3, <2>2, <3>2
  <2> QED BY <2>1, <2>2
<1> HIDE DEF q, a
<1>5. Numbers(a, n) /\ DOMAIN a = 1..n
  BY <1>3, <1>4 DEF Numbers, IsRows
<1>6. Zscore(q, w) = [t \in 1..n |-> Zscore(q, w)[t]]
  BY <1>3
<1>7. Zscore(q, w) = [t \in 1..n |-> Negative(a[t])]
  BY <1>4, <1>6, Zenon
<1>8. Opposite(a) = [t \in 1..n |-> Negative(a[t])]
  BY <1>5 DEF Opposite
<1> QED BY <1>5, <1>7, <1>8 DEF q, a

LEMMA AveragedIs ==
  ASSUME NEW x \in Rationals, NEW v \in Rationals, NEW span \in Nat, span >= 1
  PROVE  /\ Averaged(Unset, v, span) = v
         /\ Averaged(x, v, span) \in Rationals
         /\ Averaged(Negative(x), Negative(v), span) = Negative(Averaged(x, v, span))
<1>1. Averaged(Unset, v, span) = v
  BY DEF Averaged
<1>2. Negative(x) \in Rationals /\ Negative(v) \in Rationals
  BY NegativeIs
<1>3. \A y \in Rationals : y # Unset
  BY UnsetAssumption DEF Rationals
<1> DEFINE a == x[1]
           b == x[2]
           c == v[1]
           d == v[2]
           num == (2 * c) * ((span + 1) * b) + ((span - 1) * a) * ((span + 1) * d)
           den == ((span + 1) * d) * ((span + 1) * b)
<1>4. a \in Int /\ b \in Nat /\ b > 0 /\ c \in Int /\ d \in Nat /\ d > 0
  BY RationalIs
<1>5. Averaged(x, v, span) = <<num, den>>
  BY <1>3 DEF Averaged, Plus
<1>6. Averaged(Negative(x), Negative(v), span) =
        <<(2 * (-c)) * ((span + 1) * b) + ((span - 1) * (-a)) * ((span + 1) * d), den>>
  <2>1. /\ Negative(x)[1] = -a /\ Negative(x)[2] = b
        /\ Negative(v)[1] = -c /\ Negative(v)[2] = d
    BY NegativeIs
  <2>2. Negative(x) # Unset
    BY <1>2, <1>3
  <2> HIDE DEF a, b, c, d
  <2> QED BY <2>1, <2>2 DEF Averaged, Plus
<1> HIDE DEF a, b, c, d
<1>7. num \in Int
  BY <1>4
<1>8. den \in Nat /\ den > 0
  <2>1. (span + 1) * d \in Nat /\ (span + 1) * d > 0
    BY <1>4
  <2>2. (span + 1) * b \in Nat /\ (span + 1) * b > 0
    BY <1>4
  <2> DEFINE e == (span + 1) * d
             f == (span + 1) * b
  <2> HIDE DEF e, f
  <2>3. e \in Nat /\ e > 0 /\ f \in Nat /\ f > 0
    BY <2>1, <2>2 DEF e, f
  <2>4. e * f \in Nat /\ e * f > 0
    BY <2>3
  <2> QED BY <2>4 DEF e, f
<1>9. (2 * (-c)) * ((span + 1) * b) + ((span - 1) * (-a)) * ((span + 1) * d) = -num
  BY <1>4
<1> HIDE DEF num, den
<1> QED BY <1>1, <1>5, <1>6, <1>7, <1>8, <1>9, IsRational DEF Negative

LEMMA EmaOpposite ==
  ASSUME NEW p, NEW n \in Nat, Numbers(p, n), NEW span \in Nat, span >= 1
  PROVE  Numbers(Ema(p, span), n) /\ Ema(Opposite(p), span) = Opposite(Ema(p, span))
<1> DEFINE q == Opposite(p)
           f == Chained("ema", span, p, n)
           h == Chained("ema", span, q, n)
           a == Ema(p, span)
<1>1. /\ Numbers(q, n)
      /\ \A t \in 1..n : p[t] \in Rationals /\ q[t] \in Rationals /\ q[t] = Negative(p[t])
  BY OppositeIs, NegativeIs DEF Numbers
<1>2. a = [t \in 1..n |-> f[t]] /\ Ema(q, span) = [t \in 1..n |-> h[t]]
  BY <1>1, EmaIs DEF Numbers
<1>3. /\ f[0] = Unset /\ h[0] = Unset
      /\ \A t \in 1..n : f[t] = Averaged(f[t - 1], p[t], span) /\ h[t] = Averaged(h[t - 1], q[t], span)
  BY ChainIs DEF Beginning, Stepping
<1> HIDE DEF q, f, h, a
<1> DEFINE I == {t \in 0..n : t # 0 => f[t] \in Rationals /\ h[t] = Negative(f[t])}
<1>4. 0 \in I
  OBVIOUS
<1>5. ASSUME NEW t \in 1..n, t - 1 \in I PROVE t \in I
  <2>1. CASE t = 1
    <3>1. f[1] = p[1] /\ h[1] = q[1]
      <4>1. 1 \in 1..n /\ 1 - 1 = 0
        BY <2>1
      <4>2. f[1] = Averaged(Unset, p[1], span) /\ h[1] = Averaged(Unset, q[1], span)
        BY <1>3, <4>1
      <4> QED BY <4>2 DEF Averaged
    <3> QED BY <1>1, <2>1, <3>1
  <2>2. CASE t # 1
    <3>1. f[t - 1] \in Rationals /\ h[t - 1] = Negative(f[t - 1])
      BY <1>5, <2>2
    <3>2. f[t] \in Rationals /\ h[t] = Negative(f[t])
      <4> DEFINE x == f[t - 1]
                 v == p[t]
      <4>1. x \in Rationals /\ v \in Rationals /\ q[t] = Negative(v) /\ h[t - 1] = Negative(x)
        BY <1>1, <3>1
      <4>2. f[t] = Averaged(x, v, span) /\ h[t] = Averaged(h[t - 1], q[t], span)
        BY <1>3
      <4> HIDE DEF x, v
      <4>3. h[t] = Averaged(Negative(x), Negative(v), span)
        BY <4>1, <4>2
      <4> QED BY <4>1, <4>2, <4>3, AveragedIs
    <3> QED BY <3>2
  <2> QED BY <2>1, <2>2
<1>6. \A t \in 0..n : t \in I
  <2> HIDE DEF I
  <2> QED BY <1>4, <1>5, UpTo
<1>7. \A t \in 1..n : f[t] \in Rationals /\ h[t] = Negative(f[t])
  BY <1>6
<1>8. Numbers(a, n) /\ DOMAIN a = 1..n
  BY <1>2, <1>7 DEF Numbers, IsRows
<1>9. Opposite(a) = [t \in 1..n |-> Negative(a[t])]
  BY <1>8 DEF Opposite
<1>10. Opposite(a) = [t \in 1..n |-> h[t]]
  BY <1>2, <1>7, <1>9
<1> QED BY <1>2, <1>8, <1>10 DEF q, a

LEMMA PreparedIs ==
  ASSUME NEW a \in Args, Accepted(a), NEW p, NEW n \in Nat, Numbers(p, n)
  PROVE  Numbers(Prepare(p, a), n) /\ Prepare(Opposite(p), a) = Opposite(Prepare(p, a))
<1> DEFINE Calibrated(s) == CASE a.calibrate = "rank"   -> Rank(s, a.calibration_window)
                              [] a.calibrate = "zscore" -> Zscore(s, a.calibration_window)
                              [] OTHER                  -> s
<1>1. Numbers(Calibrated(p), n) /\ Calibrated(Opposite(p)) = Opposite(Calibrated(p))
  <2>1. CASE a.calibrate \in {"rank", "zscore"}
    <3>1. a.calibration_window \in Nat /\ a.calibration_window >= 2
      BY <2>1, ArgsAssumption, UnsetAssumption DEF Accepted, Given, Counts
    <3> QED BY <2>1, <3>1, RankIs, ZscoreIs
  <2>2. CASE a.calibrate \notin {"rank", "zscore"}
    BY <2>2
  <2> QED BY <2>1, <2>2
<1>2. \A s : Prepare(s, a) = IF Given(a.ema) THEN Ema(Calibrated(s), a.ema) ELSE Calibrated(s)
  BY DEF Prepare, IfGiven
<1>3. Given(a.ema) => a.ema \in Nat /\ a.ema >= 1
  BY ArgsAssumption DEF Given, Counts
<1> HIDE DEF Calibrated
<1> QED BY <1>1, <1>2, <1>3, EmaOpposite

-----------------------------------------------------------------------------
\* The rule: a side is on from its entry limit until below its exit limit.

\* A signal is one of the three sides in every row.
Signs == {-1, 0, 1}
IsSignal(s, n) == IsRows(s, n) /\ \A t \in 1..n : s[t] \in Signs
Flipped(s) == [t \in DOMAIN s |-> -s[t]]

LEMMA AtLeastIs ==
  ASSUME NEW x \in Rationals, NEW l \in Nat
  PROVE  /\ AtLeast(x, Num(l)) <=> x[1] > 0 /\ x[1] >= l * x[2]
         /\ AtMost(x, Num(l)) <=> AtLeast(Negative(x), Num(l))
         /\ AtLeast(Negative(x), Num(l)) => x[1] < 0
<1>1. x[1] \in Int /\ x[2] \in Nat /\ x[2] > 0
  BY RationalIs
<1>2. Num(l)[1] = l /\ Num(l)[2] = 1
  BY DEF Num
<1>3. AtLeast(x, Num(l)) <=> x[1] > 0 /\ ~(x[1] * 1 < l * x[2])
  BY <1>2 DEF AtLeast, Less
<1>4. AtLeast(x, Num(l)) <=> x[1] > 0 /\ x[1] >= l * x[2]
  <2> DEFINE a == x[1]
             b == l * x[2]
  <2>1. a \in Int /\ b \in Int /\ a * 1 = a
    BY <1>1
  <2>2. AtLeast(x, Num(l)) <=> a > 0 /\ ~(a * 1 < b)
    BY <1>3
  <2> HIDE DEF a, b
  <2>3. AtLeast(x, Num(l)) <=> a > 0 /\ a >= b
    BY <2>1, <2>2
  <2> QED BY <2>3 DEF a, b
<1>5. AtLeast(Negative(x), Num(l)) => Negative(x)[1] > 0
  BY DEF AtLeast
<1>6. Negative(x)[1] = -x[1]
  BY NegativeIs
<1>7. AtLeast(Negative(x), Num(l)) => x[1] < 0
  BY <1>1, <1>5, <1>6
<1> QED BY <1>4, <1>7 DEF AtMost

LEMMA AtLeastLower ==
  ASSUME NEW x \in Rationals, NEW l \in Nat, NEW m \in Nat, l <= m, AtLeast(x, Num(m))
  PROVE  AtLeast(x, Num(l))
<1>1. x[1] \in Int /\ x[2] \in Nat
  BY RationalIs
<1>2. x[1] > 0 /\ x[1] >= m * x[2]
  BY AtLeastIs
<1> DEFINE b == x[2]
           d == m - l
<1>3. b \in Nat /\ d \in Nat /\ m = l + d
  BY <1>1
<1> HIDE DEF b, d
<1>4. d * b >= 0 /\ d * b \in Nat /\ l * b \in Nat
  BY <1>3
<1>5. (l + d) * b = l * b + d * b
  BY <1>3
<1>6. m * b >= l * b /\ m * b \in Nat
  BY <1>3, <1>4, <1>5
<1>7. x[1] >= l * x[2]
  BY <1>1, <1>2, <1>4, <1>6 DEF b
<1> QED BY <1>2, <1>7, AtLeastIs

LEMMA SteppedIs ==
  ASSUME NEW state \in Signs, NEW v \in Rationals, NEW enter \in Nat, NEW exit \in Nat
  PROVE  LET r == Stepped(state, v, enter, exit)
         IN  /\ r \in Signs
             /\ r = 1 <=> AtLeast(v, Num(IF state = 1 THEN exit ELSE enter))
             /\ r = -1 <=> AtLeast(Negative(v), Num(IF state = -1 THEN exit ELSE enter))
<1> DEFINE up == AtLeast(v, Num(IF state > 0 THEN exit ELSE enter))
           down == AtMost(v, Num(IF state < 0 THEN exit ELSE enter))
           r == Stepped(state, v, enter, exit)
<1>1. state > 0 <=> state = 1
  BY DEF Signs
<1>2. state < 0 <=> state = -1
  BY DEF Signs
<1>3. r = CASE up -> 1 [] down -> -1 [] OTHER -> 0
  BY DEF Stepped
<1>4. up => v[1] > 0
  BY DEF AtLeast
<1>5. v[1] \in Int
  BY RationalIs
<1> DEFINE limit == IF state < 0 THEN exit ELSE enter
<1>6. limit \in Nat
  OBVIOUS
<1>7. (AtMost(v, Num(limit)) <=> AtLeast(Negative(v), Num(limit))) /\ (AtMost(v, Num(limit)) => v[1] < 0)
  <2> HIDE DEF limit
  <2> QED BY <1>6, AtLeastIs
<1>8. ~(up /\ down)
  <2>1. down => v[1] < 0
    BY <1>7
  <2> HIDE DEF up, down
  <2> QED BY <1>4, <1>5, <2>1
<1>9. up <=> AtLeast(v, Num(IF state = 1 THEN exit ELSE enter))
  BY <1>1
<1>10. down <=> AtLeast(Negative(v), Num(IF state = -1 THEN exit ELSE enter))
  <2>1. down <=> AtLeast(Negative(v), Num(limit))
    BY <1>7
  <2>2. limit = IF state = -1 THEN exit ELSE enter
    BY <1>2
  <2> HIDE DEF limit, down
  <2> QED BY <2>1, <2>2
<1> HIDE DEF up, down
<1>11. r \in Signs /\ (r = 1 <=> up) /\ (r = -1 <=> down)
  <2>1. CASE up
    <3>1. r = 1 /\ ~down
      BY <1>3, <1>8, <2>1
    <3> HIDE DEF r
    <3> QED BY <2>1, <3>1 DEF Signs
  <2>2. CASE ~up /\ down
    <3>1. r = -1
      BY <1>3, <2>2
    <3> HIDE DEF r
    <3> QED BY <2>2, <3>1 DEF Signs
  <2>3. CASE ~up /\ ~down
    <3>1. r = 0
      BY <1>3, <2>3
    <3> HIDE DEF r
    <3> QED BY <2>3, <3>1 DEF Signs
  <2> QED BY <2>1, <2>2, <2>3
<1> HIDE DEF r
<1>12. /\ r \in Signs
       /\ r = 1 <=> AtLeast(v, Num(IF state = 1 THEN exit ELSE enter))
       /\ r = -1 <=> AtLeast(Negative(v), Num(IF state = -1 THEN exit ELSE enter))
  BY <1>9, <1>10, <1>11
<1> QED BY <1>12 DEF r

LEMMA SteppedOpposite ==
  ASSUME NEW state \in Signs, NEW v \in Rationals, NEW enter \in Nat, NEW exit \in Nat
  PROVE  Stepped(-state, Negative(v), enter, exit) = -Stepped(state, v, enter, exit)
<1> DEFINE r == Stepped(state, v, enter, exit)
           o == Stepped(-state, Negative(v), enter, exit)
<1>1. -state \in Signs /\ (-state = 1 <=> state = -1) /\ (-state = -1 <=> state = 1)
  BY DEF Signs
<1>2. Negative(v) \in Rationals /\ Negative(Negative(v)) = v
  BY NegativeIs
<1>3. /\ r \in Signs
      /\ r = 1 <=> AtLeast(v, Num(IF state = 1 THEN exit ELSE enter))
      /\ r = -1 <=> AtLeast(Negative(v), Num(IF state = -1 THEN exit ELSE enter))
  BY SteppedIs
<1>4. /\ o \in Signs
      /\ o = 1 <=> AtLeast(Negative(v), Num(IF -state = 1 THEN exit ELSE enter))
      /\ o = -1 <=> AtLeast(Negative(Negative(v)), Num(IF -state = -1 THEN exit ELSE enter))
  <2> DEFINE other == -state
             w == Negative(v)
  <2>1. other \in Signs /\ w \in Rationals
    BY <1>1, <1>2
  <2> HIDE DEF other, w
  <2>2. LET x == Stepped(other, w, enter, exit)
        IN  /\ x \in Signs
            /\ x = 1 <=> AtLeast(w, Num(IF other = 1 THEN exit ELSE enter))
            /\ x = -1 <=> AtLeast(Negative(w), Num(IF other = -1 THEN exit ELSE enter))
    BY <2>1, SteppedIs
  <2> QED BY <2>2 DEF other, w
<1> HIDE DEF r, o
<1>5. (o = 1 <=> r = -1) /\ (o = -1 <=> r = 1)
  BY <1>1, <1>2, <1>3, <1>4
<1>6. o = -r
  BY <1>3, <1>4, <1>5 DEF Signs
<1> QED BY <1>6 DEF r, o

\* S goes on from an element of A for as long as it stays in X.
GoesOn(n, A, X, S) ==
  /\ 0 \notin S
  /\ \A t \in 1..n : t \in A => t \in X
  /\ \A t \in 1..n : t \in S <=> IF t - 1 \in S THEN t \in X ELSE t \in A
IsOn(n, A, X, S) ==
  \A t \in 1..n : t \in S <=> \E s \in 1..t : s \in A /\ \A u \in s..t : u \in X

LEMMA OnSince ==
  ASSUME NEW n \in Nat, NEW A, NEW X, NEW S, GoesOn(n, A, X, S)
  PROVE  IsOn(n, A, X, S)
<1>0. /\ 0 \notin S
      /\ \A t \in 1..n : t \in A => t \in X
      /\ \A t \in 1..n : t \in S <=> IF t - 1 \in S THEN t \in X ELSE t \in A
  BY DEF GoesOn
<1> DEFINE On(t) == \E s \in 1..t : s \in A /\ \A u \in s..t : u \in X
           I == {t \in 0..n : t \in S <=> On(t)}
<1>1. 0 \in I
  BY <1>0
<1>2. ASSUME NEW t \in 1..n, t - 1 \in I PROVE t \in I
  <2>1. t - 1 \in S <=> On(t - 1)
    BY <1>2
  <2>2. ASSUME t \in S PROVE On(t)
    <3>1. CASE t - 1 \in S
      <4>1. t \in X
        BY <1>0, <2>2, <3>1
      <4>2. PICK s \in 1..(t - 1) : s \in A /\ \A u \in s..(t - 1) : u \in X
        BY <2>1, <3>1
      <4>3. \A u \in s..t : u \in X
        <5>1. \A u \in s..t : u = t \/ u \in s..(t - 1)
          OBVIOUS
        <5> QED BY <4>1, <4>2, <5>1
      <4>4. s \in 1..t
        OBVIOUS
      <4> QED BY <4>2, <4>3, <4>4
    <3>2. CASE t - 1 \notin S
      <4>1. t \in A /\ t \in X
        BY <1>0, <2>2, <3>2
      <4>2. t \in 1..t /\ \A u \in t..t : u = t
        OBVIOUS
      <4> QED BY <4>1, <4>2
    <3> QED BY <3>1, <3>2
  <2>3. ASSUME NEW s \in 1..t, s \in A, \A u \in s..t : u \in X PROVE t \in S
    <3>1. t \in X /\ t \in s..t
      BY <2>3
    <3>2. CASE s = t
      BY <1>0, <2>3, <3>1, <3>2
    <3>3. CASE s # t
      <4>1. s \in 1..(t - 1) /\ \A u \in s..(t - 1) : u \in s..t
        BY <3>3
      <4>2. t - 1 \in S
        BY <2>1, <2>3, <4>1
      <4> QED BY <1>0, <3>1, <4>2
    <3> QED BY <3>2, <3>3
  <2>4. t \in S <=> On(t)
    BY <2>2, <2>3
  <2> HIDE DEF On
  <2> QED BY <2>4
<1>3. \A t \in 0..n : t \in I
  <2> HIDE DEF I
  <2> QED BY <1>1, <1>2, UpTo
<1>4. \A t \in 1..n : t \in I
  <2> HIDE DEF I
  <2> QED BY <1>3
<1>5. \A t \in 1..n : t \in S <=> On(t)
  <2> HIDE DEF On
  <2> QED BY <1>4
<1> QED BY <1>5 DEF IsOn

LEMMA SideOn ==
  ASSUME NEW n \in Nat, NEW p, Numbers(p, n), NEW enter \in Nat, NEW exit \in Nat, exit <= enter,
         NEW S, 0 \notin S,
         \A t \in 1..n : t \in S <=> AtLeast(p[t], Num(IF t - 1 \in S THEN exit ELSE enter))
  PROVE  \A t \in 1..n : t \in S <=> SideIsOn(p, t, enter, exit)
<1> DEFINE A == {t \in 1..n : AtLeast(p[t], Num(enter))}
           X == {t \in 1..n : AtLeast(p[t], Num(exit))}
<1>1. \A t \in 1..n : t \in A => t \in X
  BY AtLeastLower DEF Numbers
<1>2. \A t \in 1..n : t \in S <=> IF t - 1 \in S THEN t \in X ELSE t \in A
  OBVIOUS
<1>3. IsOn(n, A, X, S)
  <2> HIDE DEF A, X
  <2>1. GoesOn(n, A, X, S)
    BY <1>1, <1>2 DEF GoesOn
  <2> QED BY <2>1, OnSince
<1>4. ASSUME NEW t \in 1..n
      PROVE  (\E s \in 1..t : s \in A /\ \A u \in s..t : u \in X) <=> SideIsOn(p, t, enter, exit)
  <2>1. \A s \in 1..t : s \in 1..n /\ \A u \in s..t : u \in 1..n
    OBVIOUS
  <2>2. \A s \in 1..t : /\ s \in A <=> AtLeast(p[s], Num(enter))
                        /\ \A u \in s..t : u \in X <=> AtLeast(p[u], Num(exit))
    BY <2>1
  <2> HIDE DEF A, X
  <2> QED BY <2>2 DEF SideIsOn
<1> HIDE DEF A, X
<1> QED BY <1>3, <1>4 DEF IsOn

LEMMA FlippedIs ==
  ASSUME NEW s, NEW n \in Nat, IsSignal(s, n)
  PROVE  /\ IsSignal(Flipped(s), n) /\ DOMAIN s = 1..n /\ s = [t \in 1..n |-> s[t]]
         /\ Flipped(s) = [t \in 1..n |-> -s[t]]
<1>1. DOMAIN s = 1..n /\ IsRows(s, n)
  BY LenIs DEF IsSignal
<1>2. Flipped(s) = [t \in 1..n |-> -s[t]]
  BY <1>1 DEF Flipped
<1>3. \A t \in 1..n : -s[t] \in Signs
  BY DEF IsSignal, Signs
<1> QED BY <1>1, <1>2, <1>3 DEF IsSignal, IsRows

LEMMA HysteresisHolds ==
  ASSUME NEW n \in Nat, NEW p, Numbers(p, n), NEW enter \in Nat, NEW exit \in Nat, exit <= enter
  PROVE  /\ IsSignal(Hysteresis(p, enter, exit), n)
         /\ \A t \in 1..n :
              /\ Hysteresis(p, enter, exit)[t] = 1 <=> SideIsOn(p, t, enter, exit)
              /\ Hysteresis(p, enter, exit)[t] = -1 <=> SideIsOn(Opposite(p), t, enter, exit)
         /\ Hysteresis(Opposite(p), enter, exit) = Flipped(Hysteresis(p, enter, exit))
<1> DEFINE q == Opposite(p)
           both == <<enter, exit>>
           f == Chained("hysteresis", both, p, n)
           h == Chained("hysteresis", both, q, n)
           s == Hysteresis(p, enter, exit)
           o == Hysteresis(q, enter, exit)
           Limit(on) == Num(IF on THEN exit ELSE enter)
<1>1. /\ Numbers(q, n)
      /\ \A t \in 1..n : p[t] \in Rationals /\ q[t] \in Rationals /\ q[t] = Negative(p[t])
  BY OppositeIs, NegativeIs DEF Numbers
<1>2. s = [t \in 1..n |-> f[t]] /\ o = [t \in 1..n |-> h[t]]
  BY <1>1, HysteresisIs DEF Numbers
<1>3. /\ f[0] = 0 /\ h[0] = 0
      /\ \A t \in 1..n : /\ f[t] = Stepped(f[t - 1], p[t], enter, exit)
                         /\ h[t] = Stepped(h[t - 1], q[t], enter, exit)
  BY ChainIs DEF Beginning, Stepping
<1> HIDE DEF f, h, q, s, o
<1> DEFINE I == {t \in 0..n : f[t] \in Signs}
<1>4. 0 \in I
  BY <1>3 DEF Signs
<1>5. ASSUME NEW t \in 1..n, t - 1 \in I PROVE t \in I
  <2>1. f[t - 1] \in Signs
    BY <1>5
  <2>2. f[t] \in Signs
    <3>1. Stepped(f[t - 1], p[t], enter, exit) \in Signs
      BY <1>1, <2>1, SteppedIs
    <3> QED BY <1>3, <3>1
  <2> QED BY <2>2
<1>6. \A t \in 0..n : f[t] \in Signs
  <2>1. \A t \in 0..n : t \in I
    <3> HIDE DEF I
    <3> QED BY <1>4, <1>5, UpTo
  <2> QED BY <2>1
<1>7. ASSUME NEW t \in 1..n
      PROVE  /\ t - 1 \in 0..n
             /\ f[t] = 1 <=> AtLeast(p[t], Num(IF f[t - 1] = 1 THEN exit ELSE enter))
             /\ f[t] = -1 <=> AtLeast(q[t], Num(IF f[t - 1] = -1 THEN exit ELSE enter))
  <2>1. t - 1 \in 0..n
    OBVIOUS
  <2>2. f[t - 1] \in Signs
    BY <1>6, <2>1
  <2>3. LET r == Stepped(f[t - 1], p[t], enter, exit)
        IN  /\ r = 1 <=> AtLeast(p[t], Num(IF f[t - 1] = 1 THEN exit ELSE enter))
            /\ r = -1 <=> AtLeast(Negative(p[t]), Num(IF f[t - 1] = -1 THEN exit ELSE enter))
    BY <1>1, <2>2, SteppedIs
  <2> QED BY <1>1, <1>3, <2>1, <2>3
<1> DEFINE S == {t \in 0..n : f[t] = 1}
           T == {t \in 0..n : f[t] = -1}
<1>8. /\ \A t \in 0..n : (t \in S <=> f[t] = 1) /\ (t \in T <=> f[t] = -1)
      /\ 0 \notin S /\ 0 \notin T
  BY <1>3
<1> HIDE DEF S, T
<1>9. /\ \A t \in 1..n : t \in S <=> AtLeast(p[t], Num(IF t - 1 \in S THEN exit ELSE enter))
      /\ \A t \in 1..n : t \in T <=> AtLeast(q[t], Num(IF t - 1 \in T THEN exit ELSE enter))
  <2> SUFFICES ASSUME NEW t \in 1..n
               PROVE  /\ t \in S <=> AtLeast(p[t], Num(IF t - 1 \in S THEN exit ELSE enter))
                      /\ t \in T <=> AtLeast(q[t], Num(IF t - 1 \in T THEN exit ELSE enter))
    OBVIOUS
  <2>1. t \in 0..n /\ t - 1 \in 0..n
    OBVIOUS
  <2>2. (t \in S <=> f[t] = 1) /\ (t - 1 \in S <=> f[t - 1] = 1)
    BY <1>8, <2>1
  <2>3. (t \in T <=> f[t] = -1) /\ (t - 1 \in T <=> f[t - 1] = -1)
    BY <1>8, <2>1
  <2> QED BY <1>7, <2>2, <2>3
<1>10. \A t \in 1..n : t \in S <=> SideIsOn(p, t, enter, exit)
  BY <1>8, <1>9, SideOn
<1>11. \A t \in 1..n : t \in T <=> SideIsOn(q, t, enter, exit)
  BY <1>1, <1>8, <1>9, SideOn
<1>12. \A t \in 1..n : /\ s[t] = 1 <=> SideIsOn(p, t, enter, exit)
                       /\ s[t] = -1 <=> SideIsOn(q, t, enter, exit)
  <2> SUFFICES ASSUME NEW t \in 1..n
               PROVE  /\ s[t] = 1 <=> SideIsOn(p, t, enter, exit)
                      /\ s[t] = -1 <=> SideIsOn(q, t, enter, exit)
    OBVIOUS
  <2>1. t \in 0..n /\ s[t] = f[t]
    BY <1>2
  <2> QED BY <1>8, <1>10, <1>11, <2>1
<1>13. IsSignal(s, n)
  BY <1>2, <1>6 DEF IsSignal, IsRows
<1> DEFINE J == {t \in 0..n : h[t] = -f[t]}
<1>14. 0 \in J
  BY <1>3
<1>15. ASSUME NEW t \in 1..n, t - 1 \in J PROVE t \in J
  <2>1. t - 1 \in 0..n /\ h[t - 1] = -f[t - 1]
    BY <1>15
  <2>2. f[t - 1] \in Signs
    BY <1>6, <2>1
  <2>3. h[t] = Stepped(-f[t - 1], Negative(p[t]), enter, exit) /\ f[t] = Stepped(f[t - 1], p[t], enter, exit)
    BY <1>1, <1>3, <2>1
  <2>4. h[t] = -f[t]
    BY <1>1, <2>2, <2>3, SteppedOpposite
  <2> QED BY <2>4
<1>16. \A t \in 1..n : h[t] = -f[t]
  <2>1. \A t \in 0..n : t \in J
    <3> HIDE DEF J
    <3> QED BY <1>14, <1>15, UpTo
  <2> QED BY <2>1
<1>17. o = Flipped(s)
  <2>1. Flipped(s) = [t \in 1..n |-> -s[t]]
    BY <1>13, FlippedIs
  <2>2. \A t \in 1..n : -s[t] = h[t]
    BY <1>2, <1>16
  <2>3. Flipped(s) = [t \in 1..n |-> h[t]]
    BY <2>1, <2>2
  <2> QED BY <1>2, <2>3
<1> QED BY <1>12, <1>13, <1>17 DEF s, o, q

LEMMA ThresholdHolds ==
  ASSUME NEW n \in Nat, NEW p, Numbers(p, n), NEW limit \in Nat
  PROVE  /\ IsSignal(Threshold(p, limit), n)
         /\ \A t \in 1..n :
              /\ Threshold(p, limit)[t] = 1 <=> SideIsOn(p, t, limit, limit)
              /\ Threshold(p, limit)[t] = -1 <=> SideIsOn(Opposite(p), t, limit, limit)
         /\ Threshold(Opposite(p), limit) = Flipped(Threshold(p, limit))
<1> DEFINE q == Opposite(p)
           s == Threshold(p, limit)
           o == Threshold(q, limit)
<1>1. /\ Numbers(q, n)
      /\ \A t \in 1..n : p[t] \in Rationals /\ q[t] \in Rationals /\ q[t] = Negative(p[t])
  BY OppositeIs, NegativeIs DEF Numbers
<1>2. Len(p) = n /\ Len(q) = n
  BY <1>1, LenIs DEF Numbers
\* Without a side of its own the state makes no difference.
<1>3. s = [t \in 1..n |-> Stepped(0, p[t], limit, limit)] /\ o = [t \in 1..n |-> Stepped(0, q[t], limit, limit)]
  <2>1. \A v : Stepped(0, v, limit, limit) =
                 CASE AtLeast(v, Num(limit)) -> 1
                   [] AtMost(v, Num(limit)) -> -1
                   [] OTHER -> 0
    BY DEF Stepped
  <2> QED BY <1>2, <2>1 DEF Threshold
<1> HIDE DEF q, s, o
<1>4. ASSUME NEW t \in 1..n
      PROVE  /\ s[t] \in Signs
             /\ s[t] = 1 <=> AtLeast(p[t], Num(limit))
             /\ s[t] = -1 <=> AtLeast(q[t], Num(limit))
             /\ o[t] = -s[t]
  <2>1. 0 \in Signs
    BY DEF Signs
  <2>2. LET r == Stepped(0, p[t], limit, limit)
        IN  /\ r \in Signs
            /\ r = 1 <=> AtLeast(p[t], Num(IF 0 = 1 THEN limit ELSE limit))
            /\ r = -1 <=> AtLeast(Negative(p[t]), Num(IF 0 = -1 THEN limit ELSE limit))
    BY <1>1, <2>1, SteppedIs
  <2>3. LET r == Stepped(0, q[t], limit, limit)
        IN  /\ r \in Signs
            /\ r = 1 <=> AtLeast(q[t], Num(IF 0 = 1 THEN limit ELSE limit))
            /\ r = -1 <=> AtLeast(Negative(q[t]), Num(IF 0 = -1 THEN limit ELSE limit))
    BY <1>1, <2>1, SteppedIs
  <2>4. s[t] = Stepped(0, p[t], limit, limit) /\ o[t] = Stepped(0, q[t], limit, limit)
    BY <1>1, <1>3
  <2>6. Negative(q[t]) = p[t]
    BY <1>1, NegativeIs
  <2>5. o[t] = -s[t]
    <3>1. /\ s[t] \in Signs /\ o[t] \in Signs
          /\ s[t] = 1 <=> o[t] = -1
          /\ s[t] = -1 <=> o[t] = 1
      BY <1>1, <2>2, <2>3, <2>4, <2>6
    <3> QED BY <3>1 DEF Signs
  <2> QED BY <1>1, <2>2, <2>4, <2>5
<1>5. ASSUME NEW r, NEW t \in 1..n
      PROVE  SideIsOn(r, t, limit, limit) <=> AtLeast(r[t], Num(limit))
  <2>1. t \in 1..t /\ (\A u \in t..t : u = t) /\ \A v \in 1..t : t \in v..t
    OBVIOUS
  <2> QED BY <2>1 DEF SideIsOn
<1>6. IsSignal(s, n)
  BY <1>3, <1>4 DEF IsSignal, IsRows
<1>7. o = Flipped(s)
  <2>1. Flipped(s) = [t \in 1..n |-> -s[t]]
    BY <1>6, FlippedIs
  <2>2. o = [t \in 1..n |-> o[t]]
    BY <1>3
  <2>3. o = [t \in 1..n |-> -s[t]]
    BY <1>4, <2>2, Zenon
  <2> QED BY <2>1, <2>3
<1> QED BY <1>4, <1>5, <1>6, <1>7 DEF s, o, q

LEMMA KmeansIs ==
  ASSUME NEW n \in Nat, NEW p, IsRows(p, n), NEW k, NEW window, NEW every
  PROVE  IsSignal(Kmeans(p, k, window, every), n)
<1>1. Len(p) = n
  BY LenIs
<1> DEFINE s == Kmeans(p, k, window, every)
           f(t) == RefitRow(t, window, every)
           c(t) == Fit(SubSeq(p, f(t) - window, f(t) - 1), k)
           v(t) == IF t <= window THEN 0 ELSE IF c(t) = <<>> THEN 0 ELSE Label(Nearest(p[t], c(t)), k)
<1>2. s = [t \in 1..n |-> v(t)]
  BY <1>1 DEF Kmeans
<1>3. \A g : Label(g, k) \in Signs
  BY DEF Label, Signs
<1>4. 0 \in Signs
  BY DEF Signs
<1> HIDE DEF c, s
<1>5. \A t \in 1..n : v(t) \in Signs
  BY <1>3, <1>4
<1> HIDE DEF v
<1>6. IsSignal(s, n)
  BY <1>2, <1>5 DEF IsSignal, IsRows
<1> QED BY <1>6 DEF s

LEMMA LongOnlyIs ==
  ASSUME NEW n \in Nat, NEW s, IsSignal(s, n)
  PROVE  IsSignal(LongOnly(s), n)
<1>1. Len(s) = n
  BY LenIs DEF IsSignal
<1>2. LongOnly(s) = [t \in 1..n |-> IF s[t] > 0 THEN s[t] ELSE 0]
  BY <1>1 DEF LongOnly
<1>3. \A t \in 1..n : (IF s[t] > 0 THEN s[t] ELSE 0) \in Signs
  BY DEF IsSignal, Signs
<1> QED BY <1>2, <1>3 DEF IsSignal, IsRows

-----------------------------------------------------------------------------
\* confirm: the value that last held long enough.

HeldAt(s, u, count) == u = 1 \/ (u >= count /\ \A v \in (u - count + 1)..u : s[v] = s[u])
HeldUpTo(s, t, count) == {u \in 1..t : HeldAt(s, u, count)}

LEMMA ConfirmHolds ==
  ASSUME NEW n \in Nat, NEW s, IsSignal(s, n), NEW count \in Nat, count >= 1
  PROVE  /\ IsSignal(Confirm(s, count), n)
         /\ \A t \in 1..n : /\ Confirm(s, count)[t] = s[Max(HeldUpTo(s, t, count))]
                            /\ Max(HeldUpTo(s, t, count)) \in 1..t
<1> DEFINE f == Chained("confirm", count, s, n)
           o == Confirm(s, count)
           Held(u) == HeldAt(s, u, count)
           Up(t) == HeldUpTo(s, t, count)
<1>1. \A t \in 1..n : s[t] \in Signs /\ s[t] \in Int /\ s[t] # Unset
  BY UnsetAssumption DEF IsSignal, Signs
<1>2. o = [t \in 1..n |-> f[t].counted]
  BY ConfirmIs DEF IsSignal
<1>3. /\ f[0] = [held |-> 0, previous |-> Unset, counted |-> Unset]
      /\ \A t \in 1..n : f[t] = Confirmed(f[t - 1], s[t], count)
  BY ChainIs DEF Beginning, Stepping
<1> HIDE DEF f, o
<1>4. ASSUME NEW t \in 1..n
      PROVE  /\ f[t].previous = s[t]
             /\ f[t].held = IF s[t] = f[t - 1].previous THEN f[t - 1].held + 1 ELSE 1
             /\ f[t].counted = IF f[t - 1].counted = Unset \/ f[t].held >= count
                                 THEN s[t] ELSE f[t - 1].counted
  <2> DEFINE before == f[t - 1]
             value == s[t]
             held == IF value = before.previous THEN before.held + 1 ELSE 1
  <2>1. f[t] = Confirmed(before, value, count)
    BY <1>3
  <2> HIDE DEF before, value
  <2>2. f[t] = [held |-> held, previous |-> value,
                counted |-> IF before.counted = Unset \/ held >= count THEN value ELSE before.counted]
    BY <2>1 DEF Confirmed
  <2> HIDE DEF held
  <2>3. /\ f[t].held = held /\ f[t].previous = value
        /\ f[t].counted = IF before.counted = Unset \/ held >= count THEN value ELSE before.counted
    BY <2>2
  <2> QED BY <2>3 DEF before, value, held
<1>5. f[0].previous = Unset /\ f[0].counted = Unset
  BY <1>3
<1> DEFINE Run(t) == /\ f[t].held \in 1..t
                     /\ \A u \in (t - f[t].held + 1)..t : s[u] = s[t]
                     /\ f[t].held < t => s[t - f[t].held] # s[t]
           I == {t \in 0..n : t # 0 => Run(t)}
<1>6. 0 \in I
  OBVIOUS
<1>7. ASSUME NEW t \in 1..n, t - 1 \in I PROVE t \in I
  <2>1. CASE t = 1
    <3>1. t - 1 = 0 /\ f[t].held = 1
      BY <1>1, <1>4, <1>5, <2>1
    <3>2. Run(t)
      BY <2>1, <3>1
    <3> QED BY <3>2
  <2>2. CASE t # 1 /\ s[t] = s[t - 1]
    <3>1. t - 1 \in 1..n /\ Run(t - 1)
      BY <1>7, <2>2
    <3> DEFINE h == f[t - 1].held
    <3>2. f[t].held = h + 1 /\ h \in 1..(t - 1)
      BY <1>4, <2>2, <3>1
    <3>3. /\ \A u \in ((t - 1) - h + 1)..(t - 1) : s[u] = s[t]
          /\ h < t - 1 => s[(t - 1) - h] # s[t]
      BY <2>2, <3>1
    <3> HIDE DEF h
    <3>4. (t - 1) - h = t - (h + 1) /\ (h + 1 < t <=> h < t - 1)
      BY <3>2
    <3>5. h + 1 < t => s[t - (h + 1)] # s[t]
      BY <3>3, <3>4
    <3>6. \A u \in (t - (h + 1) + 1)..t : u = t \/ u \in ((t - 1) - h + 1)..(t - 1)
      BY <3>2
    <3>7. \A u \in (t - (h + 1) + 1)..t : s[u] = s[t]
      BY <3>3, <3>6
    <3>8. h + 1 \in 1..t
      BY <3>2
    <3>9. Run(t)
      BY <3>2, <3>5, <3>7, <3>8
    <3> HIDE DEF Run
    <3> QED BY <3>9
  <2>3. CASE t # 1 /\ s[t] # s[t - 1]
    <3>1. t - 1 \in 1..n
      BY <2>3
    <3>2. f[t].held = 1
      BY <1>4, <2>3, <3>1
    <3>3. Run(t)
      BY <2>3, <3>2
    <3> HIDE DEF Run
    <3> QED BY <3>3
  <2> QED BY <2>1, <2>2, <2>3
<1>8. \A t \in 1..n : Run(t)
  <2>1. \A t \in 0..n : t \in I
    <3> HIDE DEF I
    <3> QED BY <1>6, <1>7, UpTo
  <2> HIDE DEF Run
  <2> QED BY <2>1
<1>9. ASSUME NEW t \in 1..n
      PROVE  f[t].held >= count <=> (t >= count /\ \A u \in (t - count + 1)..t : s[u] = s[t])
  <2> DEFINE h == f[t].held
  <2>1. /\ h \in 1..t /\ \A u \in (t - h + 1)..t : s[u] = s[t]
        /\ h < t => s[t - h] # s[t]
    BY <1>8
  <2> HIDE DEF h
  <2>2. ASSUME h >= count PROVE t >= count /\ \A u \in (t - count + 1)..t : s[u] = s[t]
    <3>1. \A u \in (t - count + 1)..t : u \in (t - h + 1)..t
      BY <2>1, <2>2
    <3> QED BY <2>1, <2>2, <3>1
  <2>3. ASSUME ~(h >= count), t >= count PROVE t - h \in (t - count + 1)..t /\ s[t - h] # s[t]
    BY <2>1, <2>3
  <2> QED BY <2>2, <2>3 DEF h
<1> DEFINE CountsAt(t) == f[t].counted = s[Max(Up(t))] /\ Max(Up(t)) \in 1..t
           J == {t \in 0..n : t # 0 => CountsAt(t)}
<1>10. 0 \in J
  OBVIOUS
<1>11. ASSUME NEW t \in 1..n, t - 1 \in J PROVE t \in J
  <2>1. Up(t) \subseteq Int /\ (\A u \in Up(t) : u <= t) /\ (Held(t) => t \in Up(t))
    BY DEF HeldUpTo
  <2>2. ASSUME Held(t) PROVE Max(Up(t)) = t
    <3>1. t \in Up(t)
      BY <2>1, <2>2
    <3> HIDE DEF Up
    <3> QED BY <2>1, <3>1, GreatestIs
  <2>3. CASE t = 1
    <3>1. Held(t) /\ t - 1 = 0
      BY <2>3 DEF HeldAt
    <3>2. f[t].counted = s[t]
      BY <1>4, <1>5, <2>3, <3>1
    <3>3. CountsAt(t)
      BY <2>2, <3>1, <3>2
    <3> HIDE DEF CountsAt
    <3> QED BY <3>3
  <2>4. CASE t # 1
    <3>1. t - 1 \in 1..n /\ CountsAt(t - 1)
      BY <1>11, <2>4
    <3>2. f[t - 1].counted # Unset
      BY <1>1, <3>1
    <3>3. Held(t) <=> f[t].held >= count
      BY <1>9, <2>4 DEF HeldAt
    <3>4. CASE Held(t)
      <4>1. f[t].counted = s[t]
        BY <1>4, <3>3, <3>4
      <4>2. CountsAt(t)
        BY <2>2, <3>4, <4>1
      <4> HIDE DEF CountsAt
      <4> QED BY <4>2
    <3>5. CASE ~Held(t)
      <4>1. f[t].counted = f[t - 1].counted
        BY <1>4, <3>2, <3>3, <3>5
      <4>2. Up(t) = Up(t - 1)
        <5>1. \A u \in Int : u \in 1..t <=> u \in 1..(t - 1) \/ u = t
          OBVIOUS
        <5> HIDE DEF Held
        <5>2. \A u \in Up(t) : u \in Up(t - 1)
          BY <3>5, <5>1 DEF HeldUpTo, Held
        <5>3. \A u \in Up(t - 1) : u \in Up(t)
          BY <5>1 DEF HeldUpTo
        <5> HIDE DEF Up
        <5> QED BY <5>2, <5>3
      <4>3. CountsAt(t)
        <5> HIDE DEF Up
        <5>1. Max(Up(t)) \in 1..(t - 1)
          BY <3>1, <4>2
        <5>2. \A m \in 1..(t - 1) : m \in 1..t
          OBVIOUS
        <5> QED BY <3>1, <4>1, <4>2, <5>1, <5>2
      <4> HIDE DEF CountsAt
      <4> QED BY <4>3
    <3> QED BY <3>4, <3>5
  <2> QED BY <2>3, <2>4
<1>12. \A t \in 1..n : CountsAt(t)
  <2>1. \A t \in 0..n : t \in J
    <3> HIDE DEF J
    <3> QED BY <1>10, <1>11, UpTo
  <2> HIDE DEF CountsAt
  <2> QED BY <2>1
<1>13. \A t \in 1..n : f[t].counted = s[Max(Up(t))] /\ Max(Up(t)) \in 1..t
  BY <1>12
<1> HIDE DEF Up
<1>14. \A t \in 1..n : f[t].counted \in Signs
  <2> TAKE t \in 1..n
  <2>1. Max(Up(t)) \in 1..n
    BY <1>13
  <2> QED BY <1>1, <1>13, <2>1
<1>15. IsSignal(o, n)
  BY <1>2, <1>14 DEF IsSignal, IsRows
<1>16. \A t \in 1..n : o[t] = s[Max(Up(t))]
  BY <1>2, <1>13
<1> QED BY <1>13, <1>15, <1>16 DEF o, Up

LEMMA ConfirmOpposite ==
  ASSUME NEW n \in Nat, NEW s, IsSignal(s, n), NEW count \in Nat, count >= 1
  PROVE  Confirm(Flipped(s), count) = Flipped(Confirm(s, count))
<1> DEFINE q == Flipped(s)
           o == Confirm(s, count)
           r == Confirm(q, count)
<1>1. /\ IsSignal(q, n) /\ \A t \in 1..n : q[t] = -s[t] /\ s[t] \in Int
  BY FlippedIs DEF IsSignal, Signs
<1>2. IsSignal(o, n) /\ \A t \in 1..n : /\ o[t] = s[Max(HeldUpTo(s, t, count))]
                                       /\ Max(HeldUpTo(s, t, count)) \in 1..t
  BY ConfirmHolds
<1>3. IsSignal(r, n) /\ \A t \in 1..n : r[t] = q[Max(HeldUpTo(q, t, count))]
  BY <1>1, ConfirmHolds
<1> HIDE DEF q, r, o
<1>4. ASSUME NEW t \in 1..n PROVE r[t] = -o[t]
  <2>1. ASSUME NEW u \in 1..t PROVE HeldAt(s, u, count) <=> HeldAt(q, u, count)
    <3>1. ASSUME u >= count, NEW v \in (u - count + 1)..u PROVE s[v] = s[u] <=> q[v] = q[u]
      <4>1. v \in 1..n /\ u \in 1..n
        BY <3>1
      <4> QED BY <1>1, <4>1
    <3> QED BY <3>1 DEF HeldAt
  <2>2. HeldUpTo(s, t, count) = HeldUpTo(q, t, count)
    BY <2>1 DEF HeldUpTo
  <2> DEFINE last == Max(HeldUpTo(s, t, count))
  <2>3. last \in 1..t /\ o[t] = s[last] /\ r[t] = q[last]
    BY <1>2, <1>3, <2>2
  <2> HIDE DEF last
  <2>4. last \in 1..n
    BY <2>3
  <2> QED BY <1>1, <2>3, <2>4
<1>5. Flipped(o) = [t \in 1..n |-> -o[t]]
  BY <1>2, FlippedIs
<1>6. r = [t \in 1..n |-> r[t]]
  BY <1>3 DEF IsSignal, IsRows
<1>7. r = [t \in 1..n |-> -o[t]]
  BY <1>4, <1>6, Zenon
<1> QED BY <1>5, <1>7 DEF q, r, o

-----------------------------------------------------------------------------
\* min_hold: what was entered or turned is kept, and only that is kept.

ChangedAt(out, t) == t > 1 /\ out[t] # 0 /\ out[t] # out[t - 1]

LEMMA MinOfTwo == ASSUME NEW a \in Int, NEW b \in Int 
  PROVE  Min({a, b}) \in {a, b} /\ Min({a, b}) <= a /\ Min({a, b}) <= b
<1>1. \E x \in {a, b} : \A y \in {a, b} : x <= y
  <2>1. a <= a /\ b <= b /\ (a <= b \/ b <= a)
    OBVIOUS
  <2> QED BY <2>1
<1>2. Min({a, b}) \in {a, b} /\ \A y \in {a, b} : Min({a, b}) <= y
  BY <1>1 DEF Min
<1> QED BY <1>2

LEMMA KeptIs ==
  ASSUME NEW before, NEW t, NEW value, NEW count
  PROVE  LET kept == t < before.until
             starts == ~kept /\ t > 1 /\ value # 0 /\ value # before.held
         IN  /\ Kept(before, t, value, count).until = IF starts THEN t + count ELSE before.until
             /\ Kept(before, t, value, count).held = IF kept THEN before.held ELSE value
  BY DEF Kept

LEMMA MinHoldHolds ==
  ASSUME NEW n \in Nat, NEW s, IsSignal(s, n), NEW count \in Nat, count >= 1
  PROVE  LET out == MinHold(s, count)
         IN  /\ IsSignal(out, n)
             /\ \A c \in 1..n : ChangedAt(out, c) =>
                    \A u \in c..n : u <= c + count - 1 => out[u] = out[c]
             /\ \A u \in 1..n : out[u] # s[u] =>
                    \E c \in 1..n : c \in (u - count + 1)..(u - 1) /\ ChangedAt(out, c)
<1> DEFINE f == Chained("hold", count, s, n)
           out == MinHold(s, count)
           Until(t) == f[t].until
<1>1. \A t \in 1..n : s[t] \in Signs
  BY DEF IsSignal
<1>2. out = [t \in 1..n |-> f[t].held]
  BY MinHoldIs DEF IsSignal
<1>3. /\ f[0] = [until |-> 1, held |-> 0]
      /\ \A t \in 1..n : f[t] = Kept(f[t - 1], t, s[t], count)
  BY ChainIs DEF Beginning, Stepping
<1> HIDE DEF f, out
<1>4. f[0].until = 1 /\ f[0].held = 0
  BY <1>3
<1>5. ASSUME NEW t \in 1..n
      PROVE  /\ f[t].until = IF ~(t < f[t - 1].until) /\ t > 1 /\ s[t] # 0 /\ s[t] # f[t - 1].held
                               THEN t + count ELSE f[t - 1].until
             /\ f[t].held = IF t < f[t - 1].until THEN f[t - 1].held ELSE s[t]
  <2> DEFINE before == f[t - 1]
             value == s[t]
  <2>1. f[t] = Kept(before, t, value, count)
    BY <1>3
  <2> HIDE DEF before, value
  <2>2. /\ f[t].until = IF ~(t < before.until) /\ t > 1 /\ value # 0 /\ value # before.held
                          THEN t + count ELSE before.until
        /\ f[t].held = IF t < before.until THEN before.held ELSE value
    BY <2>1, KeptIs
  <2> QED BY <2>2 DEF before, value
<1>6. \A t \in 1..n : out[t] = f[t].held
  BY <1>2
<1> DEFINE I == {t \in 0..n : /\ f[t].held \in Signs
                              /\ \/ f[t].until = 1
                                 \/ \E c \in 1..t : c > 1 /\ ChangedAt(out, c) /\ f[t].until = c + count}
<1>7. 0 \in I
  BY <1>4 DEF Signs
<1>8. ASSUME NEW t \in 1..n, NEW until \in Int, f[t - 1].until = until
      PROVE  /\ t > 1 => out[t - 1] = f[t - 1].held
             /\ ~(t < until) => f[t].held = s[t]
             /\ t < until => f[t].held = f[t - 1].held /\ f[t].until = until
             /\ t > 1 /\ ChangedAt(out, t) => ~(t < until) /\ f[t].until = t + count
             /\ ~(ChangedAt(out, t)) => f[t].until = until
  <2>1. t > 1 => t - 1 \in 1..n
    OBVIOUS
  <2>2. t > 1 => out[t - 1] = f[t - 1].held
    BY <1>6, <2>1
  <2>3. out[t] = f[t].held
    BY <1>6
  <2>4. CASE t < until
    <3>1. f[t].held = f[t - 1].held /\ f[t].until = until
      BY <1>5, <1>8, <2>4
    <3>2. ~ChangedAt(out, t)
      BY <2>2, <2>3, <3>1 DEF ChangedAt
    <3> QED BY <2>2, <2>4, <3>1, <3>2
  <2>5. CASE ~(t < until)
    <3>1. /\ f[t].held = s[t]
          /\ f[t].until = IF t > 1 /\ s[t] # 0 /\ s[t] # f[t - 1].held THEN t + count ELSE until
      BY <1>5, <1>8, <2>5
    <3>2. ChangedAt(out, t) <=> t > 1 /\ s[t] # 0 /\ s[t] # f[t - 1].held
      BY <2>2, <2>3, <3>1 DEF ChangedAt
    <3> QED BY <2>2, <2>5, <3>1, <3>2
  <2> QED BY <2>4, <2>5
<1>9. ASSUME NEW t \in 1..n, t - 1 \in I PROVE t \in I
  <2>1. f[t - 1].held \in Signs /\ t - 1 \in 0..n
    BY <1>9
  <2>2. \/ f[t - 1].until = 1
        \/ \E c \in 1..(t - 1) : c > 1 /\ ChangedAt(out, c) /\ f[t - 1].until = c + count
    BY <1>9
  <2> DEFINE until == f[t - 1].until
  <2>3. until \in Int
    BY <2>2
  <2> HIDE DEF until
  <2>4. /\ ~(t < until) => f[t].held = s[t]
        /\ t < until => f[t].held = f[t - 1].held
        /\ t > 1 /\ ChangedAt(out, t) => f[t].until = t + count
        /\ ~(ChangedAt(out, t)) => f[t].until = until
    BY <1>8, <2>3 DEF until
  <2>5. f[t].held \in Signs
    BY <1>1, <2>1, <2>4
  <2>6. ChangedAt(out, t) => t > 1
    BY DEF ChangedAt
  <2>7. \/ f[t].until = 1
        \/ \E c \in 1..t : c > 1 /\ ChangedAt(out, c) /\ f[t].until = c + count
    <3>1. CASE ChangedAt(out, t)
      <4>1. t \in 1..t
        OBVIOUS
      <4> QED BY <2>4, <2>6, <3>1, <4>1
    <3>2. CASE ~ChangedAt(out, t)
      <4>1. f[t].until = f[t - 1].until
        BY <2>4, <3>2 DEF until
      <4>2. \A c \in 1..(t - 1) : c \in 1..t
        OBVIOUS
      <4> QED BY <2>2, <4>1, <4>2
    <3> QED BY <3>1, <3>2
  <2> QED BY <2>5, <2>7
<1>10. \A t \in 0..n : /\ f[t].held \in Signs
                       /\ \/ f[t].until = 1
                          \/ \E c \in 1..t : c > 1 /\ ChangedAt(out, c) /\ f[t].until = c + count
  <2>1. \A t \in 0..n : t \in I
    <3> HIDE DEF I
    <3> QED BY <1>7, <1>9, UpTo
  <2> QED BY <2>1
<1>11. \A t \in 0..n : f[t].until \in Int
  BY <1>10
<1>12. IsSignal(out, n)
  BY <1>2, <1>10 DEF IsSignal, IsRows
<1>13. ASSUME NEW c \in 1..n, ChangedAt(out, c), NEW u \in c..n, u <= c + count - 1
       PROVE  out[u] = out[c]
  <2> DEFINE K == {t \in 0..n : t \in c..(c + count - 1) => f[t].held = f[c].held /\ f[t].until = c + count}
  <2>1. 0 \in K
    OBVIOUS
  <2>2. ASSUME NEW t \in 1..n, t - 1 \in K PROVE t \in K
    <3>1. f[t - 1].until \in Int
      BY <1>11
    <3>2. CASE t = c
      <4>1. c > 1
        BY <1>13 DEF ChangedAt
      <4>2. f[c].until = c + count
        BY <1>8, <1>13, <3>1, <3>2, <4>1
      <4> QED BY <3>2, <4>2
    <3>3. CASE t \in (c + 1)..(c + count - 1)
      <4>1. f[t - 1].held = f[c].held /\ f[t - 1].until = c + count
        BY <2>2, <3>3
      <4>2. t < c + count /\ c + count \in Int
        BY <3>3
      <4>3. f[t].held = f[t - 1].held /\ f[t].until = c + count
        BY <1>8, <4>1, <4>2
      <4> QED BY <4>1, <4>3
    <3>4. CASE t \notin c..(c + count - 1)
      BY <3>4
    <3> QED BY <3>2, <3>3, <3>4
  <2>3. \A t \in 0..n : t \in K
    <3> HIDE DEF K
    <3> QED BY <2>1, <2>2, UpTo
  <2>4. u \in 0..n /\ u \in c..(c + count - 1) /\ u \in 1..n
    BY <1>13
  <2>5. f[u].held = f[c].held
    BY <2>3, <2>4
  <2> QED BY <1>6, <2>4, <2>5
<1>14. ASSUME NEW u \in 1..n, out[u] # s[u]
       PROVE  \E c \in 1..n : c \in (u - count + 1)..(u - 1) /\ ChangedAt(out, c)
  <2> DEFINE until == f[u - 1].until
  <2>1. u - 1 \in 0..n /\ until \in Int
    BY <1>11
  <2>2. u < until
    <3>1. ~(u < until) => f[u].held = s[u]
      <4> HIDE DEF until
      <4> QED BY <1>8, <2>1 DEF until
    <3> QED BY <1>6, <1>14, <3>1
  <2>3. \/ until = 1
        \/ \E c \in 1..(u - 1) : c > 1 /\ ChangedAt(out, c) /\ until = c + count
    BY <1>10, <2>1
  <2> HIDE DEF until
  <2>4. PICK c \in 1..(u - 1) : ChangedAt(out, c) /\ until = c + count
    BY <2>2, <2>3
  <2>5. c \in 1..n /\ c \in (u - count + 1)..(u - 1)
    BY <2>2, <2>4
  <2> QED BY <2>4, <2>5
<1>15. \A c \in 1..n : ChangedAt(out, c) => \A u \in c..n : u <= c + count - 1 => out[u] = out[c]
  BY <1>13
<1>16. \A u \in 1..n : out[u] # s[u] =>
          \E c \in 1..n : c \in (u - count + 1)..(u - 1) /\ ChangedAt(out, c)
  BY <1>14
<1> QED BY <1>12, <1>15, <1>16 DEF out

LEMMA MinHoldOpposite ==
  ASSUME NEW n \in Nat, NEW s, IsSignal(s, n), NEW count \in Nat, count >= 1
  PROVE  MinHold(Flipped(s), count) = Flipped(MinHold(s, count))
<1> DEFINE q == Flipped(s)
           f == Chained("hold", count, s, n)
           h == Chained("hold", count, q, n)
           o == MinHold(s, count)
           r == MinHold(q, count)
<1>1. /\ IsSignal(q, n) /\ \A t \in 1..n : q[t] = -s[t] /\ s[t] \in Int
  BY FlippedIs DEF IsSignal, Signs
<1>2. o = [t \in 1..n |-> f[t].held] /\ r = [t \in 1..n |-> h[t].held]
  BY <1>1, MinHoldIs DEF IsSignal
<1>3. /\ f[0] = [until |-> 1, held |-> 0] /\ h[0] = [until |-> 1, held |-> 0]
      /\ \A t \in 1..n : /\ f[t] = Kept(f[t - 1], t, s[t], count)
                         /\ h[t] = Kept(h[t - 1], t, q[t], count)
  BY ChainIs DEF Beginning, Stepping
<1> HIDE DEF q, f, h, o, r
<1> DEFINE I == {t \in 0..n : f[t].held \in Int /\ h[t].held = -f[t].held /\ h[t].until = f[t].until}
<1>4. 0 \in I
  <2>1. f[0].held = 0 /\ h[0].held = 0 /\ h[0].until = f[0].until
    BY <1>3
  <2> QED BY <2>1
<1>5. ASSUME NEW t \in 1..n, t - 1 \in I PROVE t \in I
  <2> DEFINE b == f[t - 1]
             e == h[t - 1]
             x == s[t]
  <2>1. b.held \in Int /\ e.held = -b.held /\ e.until = b.until /\ x \in Int
    BY <1>1, <1>5
  <2>2. f[t] = Kept(b, t, x, count) /\ h[t] = Kept(e, t, -x, count)
    BY <1>1, <1>3
  <2> HIDE DEF b, e, x
  <2> DEFINE kept == t < b.until
             starts == ~kept /\ t > 1 /\ x # 0 /\ x # b.held
             begins == ~kept /\ t > 1 /\ -x # 0 /\ -x # e.held
  <2>3. f[t].until = (IF starts THEN t + count ELSE b.until) /\ f[t].held = IF kept THEN b.held ELSE x
    BY <2>2, KeptIs
  <2>4. h[t].until = (IF begins THEN t + count ELSE e.until) /\ h[t].held = IF kept THEN e.held ELSE -x
    <3> HIDE DEF kept
    <3>1. /\ h[t].until = IF ~(t < e.until) /\ t > 1 /\ -x # 0 /\ -x # e.held THEN t + count ELSE e.until
          /\ h[t].held = IF t < e.until THEN e.held ELSE -x
      BY <2>2, KeptIs
    <3> QED BY <2>1, <3>1 DEF kept
  <2>5. starts <=> begins
    <3>1. (x # 0 <=> -x # 0) /\ (x # b.held <=> -x # e.held)
      BY <2>1
    <3> HIDE DEF kept
    <3> QED BY <3>1
  <2> HIDE DEF starts, begins, kept
  <2>6. f[t].held \in Int /\ h[t].held = -f[t].held /\ h[t].until = f[t].until
    BY <2>1, <2>3, <2>4, <2>5
  <2> QED BY <2>6
<1>6. \A t \in 0..n : t \in I
  <2> HIDE DEF I
  <2> QED BY <1>4, <1>5, UpTo
<1>7. \A t \in 1..n : h[t].held = -f[t].held
  BY <1>6
<1>8. Flipped(o) = [t \in 1..n |-> -o[t]]
  BY <1>2 DEF Flipped
<1>9. \A t \in 1..n : -o[t] = h[t].held
  BY <1>2, <1>7
<1>10. Flipped(o) = [t \in 1..n |-> h[t].held]
  BY <1>8, <1>9
<1> QED BY <1>2, <1>10 DEF q, r, o

-----------------------------------------------------------------------------
\* All the steps together.

LEMMA RuleIs ==
  ASSUME NEW a \in Args, Accepted(a), NEW n \in Nat, NEW p, Numbers(p, n), NEW limit \in Limits(a)
  PROVE  LET s == Rule(p, a, limit)
             exit == IF a.rule = "hysteresis" THEN a.exit ELSE limit
         IN  /\ IsSignal(s, n)
             /\ a.rule # "kmeans" =>
                  /\ \A t \in 1..n : /\ s[t] = 1 <=> SideIsOn(p, t, limit, exit)
                                     /\ s[t] = -1 <=> SideIsOn(Opposite(p), t, limit, exit)
                  /\ Rule(Opposite(p), a, limit) = Flipped(s)
<1>1. CASE a.rule = "threshold"
  <2>1. limit \in Nat
    BY <1>1, LimitsAre
  <2>2. \A r : Rule(r, a, limit) = Threshold(r, limit)
    BY <1>1 DEF Rule
  <2> QED BY <1>1, <2>1, <2>2, ThresholdHolds
<1>2. CASE a.rule = "hysteresis"
  <2>1. limit \in Nat
    BY <1>2, LimitsAre
  <2>2. a.exit \in Nat /\ a.exit <= limit
    BY <1>2, ExitIs
  <2>3. \A r : Rule(r, a, limit) = Hysteresis(r, limit, a.exit)
    BY <1>2 DEF Rule
  <2> QED BY <1>2, <2>1, <2>2, <2>3, HysteresisHolds
<1>3. CASE a.rule = "kmeans"
  <2>1. Rule(p, a, limit) = Kmeans(p, a.k, a.kmeans_window, a.refit_every)
    BY <1>3 DEF Rule
  <2> QED BY <1>3, <2>1, KmeansIs DEF Numbers
<1> QED BY <1>1, <1>2, <1>3, ArgsAssumption

LEMMA SidedIs ==
  ASSUME NEW a \in Args, Accepted(a), NEW n \in Nat, NEW p, Numbers(p, n), NEW limit \in Limits(a)
  PROVE  /\ IsSignal(Sided(p, a, limit), n)
         /\ a.rule # "kmeans" /\ ~a.long_only =>
              Sided(Opposite(p), a, limit) = Flipped(Sided(p, a, limit))
<1>1. IsSignal(Rule(p, a, limit), n)
  BY RuleIs
<1>2. a.rule # "kmeans" => Rule(Opposite(p), a, limit) = Flipped(Rule(p, a, limit))
  BY RuleIs
<1> QED BY <1>1, <1>2, LongOnlyIs DEF Sided

LEMMA ConfirmCounts ==
  ASSUME NEW a \in Args
  PROVE  /\ Given(a.confirm) => a.confirm \in Nat /\ a.confirm >= 1
         /\ Given(a.min_hold) => a.min_hold \in Nat /\ a.min_hold >= 1
  BY ArgsAssumption DEF Given, Counts

LEMMA SettledIs ==
  ASSUME NEW a \in Args, Accepted(a), NEW n \in Nat, NEW p, Numbers(p, n), NEW limit \in Limits(a)
  PROVE  /\ IsSignal(Settled(p, a, limit), n)
         /\ a.rule # "kmeans" /\ ~a.long_only =>
              Settled(Opposite(p), a, limit) = Flipped(Settled(p, a, limit))
<1>1. \A r : Settled(r, a, limit) =
               IF Given(a.confirm) THEN Confirm(Sided(r, a, limit), a.confirm) ELSE Sided(r, a, limit)
  BY DEF Settled, IfGiven
<1> QED BY <1>1, SidedIs, ConfirmCounts, ConfirmHolds, ConfirmOpposite

LEMMA DecidedIs ==
  ASSUME NEW a \in Args, Accepted(a), NEW n \in Nat, NEW p, Numbers(p, n), NEW limit \in Limits(a)
  PROVE  /\ IsSignal(Decided(p, a, limit), n)
         /\ a.rule # "kmeans" /\ ~a.long_only =>
              Decided(Opposite(p), a, limit) = Flipped(Decided(p, a, limit))
<1>1. \A r : Decided(r, a, limit) =
               IF Given(a.min_hold) THEN MinHold(Settled(r, a, limit), a.min_hold) ELSE Settled(r, a, limit)
  BY DEF Decided, IfGiven
<1>2. Given(a.min_hold) => IsSignal(MinHold(Settled(p, a, limit), a.min_hold), n)
  BY SettledIs, ConfirmCounts, MinHoldHolds
<1> QED BY <1>1, <1>2, SettledIs, ConfirmCounts, MinHoldOpposite

LEMMA FrameHas ==
  ASSUME SignalsInv, frame # <<>>
  PROVE  \E n \in Nat : /\ IsRows(frame, n)
                        /\ Numbers(Predictions(frame), n)
                        /\ \A t \in 1..n : frame[t] = [ts |-> frame[t].ts, prediction |-> frame[t].prediction]
<1> DEFINE L == Landed(candles, own)
           n == Cardinality(Inside(candles, own))
           fills == Chained("fill", own, Rows(candles, own), n)
<1>1. /\ ~AlignRefuses(candles, own, ~args.allow_gaps) /\ L # {}
      /\ frame = Align(candles, own)
  BY DEF SignalsInv, AlignRefuses
<1>2. candles \subseteq Int /\ IsFiniteSet(candles)
  BY CandlesAreTimes DEF SignalsInv
<1>3. LET f == Align(candles, own)
      IN  /\ IsRows(f, n)
          /\ IsRows(Rows(candles, own), n)
          /\ \A t \in 1..n : f[t].ts = Rows(candles, own)[t]
          /\ {f[t].ts : t \in 1..n} = Inside(candles, own)
          /\ \A t, u \in 1..n : t < u => f[t].ts < f[u].ts
          /\ \A t \in 1..n : LET past == {s \in L : s <= f[t].ts}
                             IN  /\ f[t].prediction = own[Max(past)]
                                 /\ Max(past) \in L
  BY <1>1, <1>2, FrameIs, Zenon
<1>4. frame = [t \in 1..n |-> [ts |-> Rows(candles, own)[t], prediction |-> fills[t]]]
  BY <1>1, <1>3, AlignIs
<1> HIDE DEF n, fills
<1>5. n \in Nat /\ IsRows(frame, n)
  BY <1>1, <1>3 DEF IsRows
<1>6. \A t \in 1..n : frame[t] = [ts |-> frame[t].ts, prediction |-> frame[t].prediction]
  BY <1>4
<1>7. \A t \in 1..n : frame[t].prediction \in Rationals
  <2> SUFFICES ASSUME NEW t \in 1..n PROVE frame[t].prediction \in Rationals
    OBVIOUS
  <2> DEFINE at == Max({s \in L : s <= frame[t].ts})
  <2>1. frame[t].prediction = own[at] /\ at \in L
    BY <1>1, <1>3
  <2> HIDE DEF at
  <2>2. at \in DOMAIN own
    BY <2>1 DEF Landed
  <2> QED BY <2>1, <2>2 DEF SignalsInv
<1>8. Predictions(frame) = [t \in 1..n |-> frame[t].prediction]
  BY <1>5, LenIs DEF Predictions
<1>9. Numbers(Predictions(frame), n)
  BY <1>5, <1>7, <1>8 DEF Numbers, IsRows
<1> QED BY <1>5, <1>6, <1>9

LEMMA Turns == SignalsInv => Mirrored
<1> SUFFICES ASSUME SignalsInv, args.rule # "kmeans", ~args.long_only, frame # <<>>
             PROVE  LET turned == [t \in DOMAIN frame |->
                                     [frame[t] EXCEPT !.prediction = Negative(@)]]
                    IN  \A limit \in Limits(args) :
                           Signals(turned, args)[limit] = [t \in DOMAIN frame |-> -signal[limit][t]]
  BY DEF Mirrored
<1> DEFINE p == Predictions(frame)
           turned == [t \in DOMAIN frame |-> [frame[t] EXCEPT !.prediction = Negative(@)]]
<1>1. PICK n \in Nat : /\ IsRows(frame, n)
                       /\ Numbers(p, n)
                       /\ \A t \in 1..n : frame[t] = [ts |-> frame[t].ts, prediction |-> frame[t].prediction]
  BY FrameHas
<1>2. /\ args \in Args /\ Accepted(args)
      /\ signal = Signals(frame, args)
  BY DEF SignalsInv
<1>3. DOMAIN frame = 1..n /\ Len(frame) = n
  BY <1>1, LenIs
<1>4. IsRows(turned, n)
  BY <1>3 DEF IsRows
<1>5. \A t \in 1..n : turned[t].prediction = Negative(frame[t].prediction)
  <2> TAKE t \in 1..n
  <2>1. turned[t] = [frame[t] EXCEPT !.prediction = Negative(@)]
    BY <1>3
  <2>2. frame[t] = [ts |-> frame[t].ts, prediction |-> frame[t].prediction]
    BY <1>1
  <2> DEFINE x == frame[t].ts
             y == frame[t].prediction
             line == frame[t]
  <2>3. line = [ts |-> x, prediction |-> y] /\ turned[t] = [line EXCEPT !.prediction = Negative(line.prediction)]
    BY <2>1, <2>2
  <2> HIDE DEF x, y, line, turned
  <2>4. turned[t].prediction = Negative(y)
    BY <2>3
  <2> QED BY <2>4 DEF y
<1> HIDE DEF turned
<1>6. Predictions(turned) = Opposite(p)
  <2>1. Len(turned) = n
    BY <1>4, LenIs
  <2>2. Predictions(turned) = [t \in 1..n |-> turned[t].prediction]
    BY <2>1 DEF Predictions
  <2>3. p = [t \in 1..n |-> frame[t].prediction]
    BY <1>3 DEF Predictions
  <2>4. Opposite(p) = [t \in 1..n |-> Negative(frame[t].prediction)]
    BY <2>3 DEF Opposite
  <2> HIDE DEF p
  <2> QED BY <1>5, <2>2, <2>4
<1> HIDE DEF p
<1>7. ASSUME NEW limit \in Limits(args)
      PROVE  Signals(turned, args)[limit] = [t \in DOMAIN frame |-> -signal[limit][t]]
  <2> DEFINE r == Prepare(p, args)
             s == Decided(r, args, limit)
  <2>1. Numbers(r, n) /\ Prepare(Opposite(p), args) = Opposite(r)
    BY <1>1, <1>2, PreparedIs
  <2>2. Signals(turned, args)[limit] = Decided(Prepare(Opposite(p), args), args, limit)
    BY <1>6 DEF Signals
  <2>3. signal[limit] = s
    BY <1>2 DEF Signals, p
  <2> HIDE DEF r
  <2>4. IsSignal(s, n) /\ Decided(Opposite(r), args, limit) = Flipped(s)
    BY <1>2, <2>1, DecidedIs
  <2> HIDE DEF s
  <2>5. Flipped(s) = [t \in 1..n |-> -s[t]]
    BY <2>4, FlippedIs
  <2> QED BY <1>3, <2>1, <2>2, <2>3, <2>4, <2>5
<1> QED BY <1>7 DEF turned

LEMMA StepsKeep ==
  ASSUME SignalsInv, frame # <<>>, NEW limit \in Limits(args)
  PROVE  LET p == Prepare(Predictions(frame), args)
         IN  /\ RuleHolds(p, Rule(p, args, limit), limit)
             /\ ConfirmWaits(Sided(p, args, limit), Settled(p, args, limit), args.confirm)
             /\ HoldLasts(Settled(p, args, limit), signal[limit], args.min_hold)
<1> DEFINE p == Prepare(Predictions(frame), args)
           s == Rule(p, args, limit)
           exit == IF args.rule = "hysteresis" THEN args.exit ELSE limit
<1>1. PICK n \in Nat : Numbers(Predictions(frame), n)
  BY FrameHas
<1>2. /\ args \in Args /\ Accepted(args)
      /\ signal = Signals(frame, args)
  BY DEF SignalsInv
<1>3. Numbers(p, n)
  BY <1>1, <1>2, PreparedIs
<1>4. signal[limit] = Decided(p, args, limit)
  BY <1>2 DEF Signals
<1> HIDE DEF p
<1>5. RuleHolds(p, s, limit)
  <2>1. DOMAIN p = 1..n
    BY <1>3, LenIs DEF Numbers
  <2>2. Opposite(p) = [t \in DOMAIN p |-> Negative(p[t])]
    BY DEF Opposite
  <2>3. args.rule # "kmeans" =>
          \A t \in 1..n : /\ s[t] = 1 <=> SideIsOn(p, t, limit, exit)
                          /\ s[t] = -1 <=> SideIsOn(Opposite(p), t, limit, exit)
    BY <1>2, <1>3, RuleIs
  <2> HIDE DEF s, exit
  <2> QED BY <2>1, <2>2, <2>3, Zenon DEF RuleHolds, exit
<1> DEFINE sided == Sided(p, args, limit)
           settled == Settled(p, args, limit)
<1>6. ConfirmWaits(sided, settled, args.confirm)
  <2> SUFFICES ASSUME Given(args.confirm) PROVE ConfirmWaits(sided, settled, args.confirm)
    BY DEF ConfirmWaits
  <2>1. IsSignal(sided, n)
    BY <1>2, <1>3, SidedIs
  <2>2. settled = Confirm(sided, args.confirm)
    BY DEF Settled, IfGiven
  <2>3. args.confirm \in Nat /\ args.confirm >= 1
    BY <1>2, ConfirmCounts
  <2> HIDE DEF sided, settled
  <2>4. DOMAIN sided = 1..n
    BY <2>1, FlippedIs
  <2> DEFINE count == args.confirm
  <2> HIDE DEF count
  <2>5. \A t \in 1..n : settled[t] = sided[Max(HeldUpTo(sided, t, count))]
    <3>2. count \in Nat /\ count >= 1
      BY <2>3 DEF count
    <3>1. \A t \in 1..n : Confirm(sided, count)[t] = sided[Max(HeldUpTo(sided, t, count))]
      BY <2>1, <3>2, ConfirmHolds
    <3> QED BY <2>2, <3>1 DEF count
  <2> QED BY <2>4, <2>5 DEF ConfirmWaits, HeldUpTo, HeldAt, count
<1>7. HoldLasts(settled, Decided(p, args, limit), args.min_hold)
  <2> DEFINE out == Decided(p, args, limit)
             count == args.min_hold
  <2> SUFFICES ASSUME Given(count) PROVE HoldLasts(settled, out, count)
    BY DEF HoldLasts
  <2>1. IsSignal(settled, n)
    BY <1>2, <1>3, SettledIs
  <2>2. out = MinHold(settled, count)
    BY DEF Decided, IfGiven
  <2>3. count \in Nat /\ count >= 1
    BY <1>2, ConfirmCounts
  <2> HIDE DEF out, settled, count
  <2>4. /\ IsSignal(out, n)
        /\ \A c \in 1..n : ChangedAt(out, c) =>
               \A u \in c..n : u <= c + count - 1 => out[u] = out[c]
        /\ \A u \in 1..n : out[u] # settled[u] =>
               \E c \in 1..n : c \in (u - count + 1)..(u - 1) /\ ChangedAt(out, c)
    <3>1. LET o == MinHold(settled, count)
          IN  /\ IsSignal(o, n)
              /\ \A c \in 1..n : ChangedAt(o, c) =>
                     \A u \in c..n : u <= c + count - 1 => o[u] = o[c]
              /\ \A u \in 1..n : o[u] # settled[u] =>
                     \E c \in 1..n : c \in (u - count + 1)..(u - 1) /\ ChangedAt(o, c)
      BY <2>1, <2>3, MinHoldHolds
    <3> QED BY <2>2, <3>1, Zenon
  <2>5. DOMAIN out = 1..n /\ Len(out) = n
    BY <2>4, LenIs DEF IsSignal
  <2>6. ASSUME NEW c \in 1..n, ChangedAt(out, c), NEW u \in c..Min({c + count - 1, n})
        PROVE  out[u] = out[c]
    <3>1. c + count - 1 \in Int /\ n \in Int
      BY <2>3
    <3>2. u \in Int /\ u <= Min({c + count - 1, n})
      OBVIOUS
    <3> DEFINE m == Min({c + count - 1, n})
    <3>3. m <= c + count - 1 /\ m <= n /\ m \in Int
      <4>1. m <= c + count - 1 /\ m <= n
        BY <3>1, MinOfTwo
      <4>2. m \in {c + count - 1, n}
        BY <3>1, MinOfTwo
      <4> QED BY <3>1, <4>1, <4>2
    <3> HIDE DEF m
    <3>4. u \in c..n /\ u <= c + count - 1
      BY <2>3, <3>2, <3>3 DEF m
    <3> QED BY <2>4, <2>6, <3>4
  <2>7. \A c \in 1..n : ChangedAt(out, c) =>
           \A u \in c..Min({c + count - 1, Len(out)}) : out[u] = out[c]
    BY <2>5, <2>6
  <2>8. \A u \in DOMAIN out : out[u] # settled[u] =>
           \E c \in (u - count + 1)..(u - 1) : c \in DOMAIN out /\ ChangedAt(out, c)
    BY <2>4, <2>5
  <2> QED BY <2>5, <2>7, <2>8, Zenon DEF HoldLasts, ChangedAt
<1> QED BY <1>4, <1>5, <1>6, <1>7 DEF p

LEMMA InvPromises == SignalsInv => StepsKeepTheirPromise
<1> SUFFICES ASSUME SignalsInv PROVE StepsKeepTheirPromise
  OBVIOUS
<1>1. AcceptedRuns
  BY AcceptedAreRun DEF SignalsInv, AcceptedRuns
<1>2. RowsRepeatTheLatest /\ Mirrored
  BY RowsRepeat, Turns
<1> QED BY <1>1, <1>2, StepsKeep DEF StepsKeepTheirPromise

\* From the predictions to the signal every step does what it says: the rows repeat
\* the latest prediction, calibration and ema turn over with it, a side is on from its
\* entry limit until below its exit limit, confirm waits, min_hold keeps, and options
\* the check accepts are refused by no step (signals/*.py, cli/post_processing.py).
THEOREM PromisesAreKept == SignalsSpec => []StepsKeepTheirPromise
  BY InvAtFirst, SignalsStep, InvPromises, PTL DEF SignalsSpec
=============================================================================
