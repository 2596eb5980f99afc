--------------------------- MODULE TradingAccount ---------------------------
(***************************************************************************)
(* What the backtest promises of the account it trades with: one position  *)
(* at a time, always with the whole capital; the capital moves only when a *)
(* position is closed; and a halt (ruin, or the drawdown stop) is final.   *)
(***************************************************************************)
EXTENDS Integers

VARIABLES side,     \* the open position: -1 short, 0 none, 1 long
          capital,  \* after the closed trades
          halted    \* nothing opens again

vars == <<side, capital, halted>>

CONSTANT Start      \* the capital a run starts with

Init == side = 0 /\ capital = Start /\ halted = FALSE

Open ==
  /\ side = 0 /\ ~halted
  /\ side' \in {-1, 1}
  /\ UNCHANGED <<capital, halted>>

Close ==
  /\ side # 0 /\ ~halted
  /\ side' = 0
  /\ capital' \in Nat
  /\ halted' \in BOOLEAN

Flip ==
  /\ side # 0 /\ ~halted
  /\ side' = 0 - side
  /\ capital' \in Nat
  /\ halted' = FALSE

Halt ==
  /\ side = 0 /\ ~halted
  /\ halted' = TRUE
  /\ UNCHANGED <<side, capital>>

Next == Open \/ Close \/ Flip \/ Halt

Spec == Init /\ [][Next]_vars
=============================================================================
